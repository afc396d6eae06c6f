--------------------------- MODULE LivePageProofs ---------------------------
(***************************************************************************)
(* Proofs about LivePage, for any sections, any contents of answers.db and *)
(* any bounds.  What the page shows is compared with the record by four    *)
(* facts: nothing is told of before it is written; a response carries the  *)
(* record as it was when it was read, at or after everything the page then *)
(* showed; and, while a page request is over before the next poll starts,  *)
(* there is one page request at a time and its element is there.           *)
(***************************************************************************)
EXTENDS LivePage, TLAPS

-----------------------------------------------------------------------------
(* What the proofs need of the state.                                      *)

Kinds == Panels \cup {Main}

(* The version is told of after the content it names is in the store, and  *)
(* a section shows what was in the store.                                  *)
ToldAfterWritten == seq <= content /\ \A p \in Panels : shown[p] <= content

(* A response read at some moment is at least as new as all that is shown, *)
(* and as the version it brings.                                           *)
ReadIsNewest ==
    slot # None /\ slot.at # "sent" =>
        /\ slot.content <= content
        /\ \A p \in Panels : shown[p] <= slot.content
        /\ slot.version.seq <= slot.content

(* One request for the page at a time, none while a poll is out, and its   *)
(* element is in the page.                                                 *)
OneMain ==
    /\ slot.kind = Main => slot.attached /\ queued.kind # Main
    /\ queued.kind = Main => queued.attached
    /\ poll # PollIdle => slot.kind # Main /\ queued.kind # Main

(* No section is older than the version the page compares.                 *)
VersionIsShown == \A p \in Panels : shownVersion.seq <= shown[p]

RecordInv == TypeOK /\ ToldAfterWritten /\ ReadIsNewest
PageInv == RecordInv /\ OneMain /\ VersionIsShown

-----------------------------------------------------------------------------
(* The helpers.                                                            *)

LEMMA BlankVersion == [seq |-> 0, tick |-> 0, token |-> Token[NoAnswers]] \in Version
  <1>1. 0 \in 0..MaxChanges /\ 0 \in 0..MaxTicks
    BY ConstantsAssumption
  <1> QED
    BY <1>1, ConstantsAssumption DEF Version

LEMMA VersionNowType == TypeOK => VersionNow \in Version
  BY DEF TypeOK, VersionNow, Version

LEMMA Numbers == TypeOK => /\ content \in Nat /\ seq \in Nat /\ tick \in Nat
                           /\ \A p \in Panels : shown[p] \in Nat
                           /\ shownVersion.seq \in Nat
                           /\ slot # None => slot.content \in Nat /\ slot.version.seq \in Nat
  BY ConstantsAssumption DEF TypeOK, Version, Request

(* A request that starts is unanswered.                                    *)
LEMMA SentType ==
    ASSUME NEW wait \in Waiting
    PROVE  /\ Sent(wait) \in Request
           /\ Sent(wait).kind = wait.kind /\ Sent(wait).attached = wait.attached
           /\ Sent(wait).at = "sent"
  <1>1. 0 \in 0..MaxChanges /\ NoAnswers \in Answers
    BY ConstantsAssumption
  <1> QED
    BY <1>1, BlankVersion, Zenon DEF Sent, Waiting, Request

(* htmx.ajax: the new request is in flight or takes the waiting place.     *)
LEMMA AjaxMoves ==
    ASSUME TypeOK, NEW kind \in Kinds, Ajax(kind)
    PROVE  \/ /\ slot = None /\ slot' \in Request /\ queued' = queued
              /\ slot'.kind = kind /\ slot'.attached = TRUE /\ slot'.at = "sent"
           \/ /\ slot # None /\ slot' = slot /\ queued' \in Waiting
              /\ queued'.kind = kind /\ queued'.attached = TRUE
  <1> DEFINE wait == [kind |-> kind, attached |-> TRUE]
  <1>1. wait \in Waiting /\ wait.kind = kind /\ wait.attached = TRUE
    BY DEF Waiting, Kinds
  <1>2. CASE slot = None
    <2>1. slot' = Sent(wait) /\ queued' = queued
      BY <1>2 DEF Ajax
    <2> HIDE DEF wait
    <2> QED
      BY <1>1, <1>2, <2>1, SentType
  <1>3. CASE slot # None
    BY <1>1, <1>3 DEF Ajax
  <1> QED
    BY <1>2, <1>3

(* After a request the one that waited starts, its element gone if it was  *)
(* replaced.                                                               *)
LEMMA AfterMoves ==
    ASSUME TypeOK, NEW replaced, After(replaced)
    PROVE  /\ queued' = None
           /\ \/ slot' = None
              \/ /\ slot' \in Request /\ slot'.at = "sent" /\ queued # None
                 /\ slot'.kind = queued.kind
                 /\ slot'.attached = (queued.attached /\ queued.kind \notin replaced)
  <1>1. CASE queued = None
    BY <1>1 DEF After
  <1>2. CASE queued # None
    <2> DEFINE wait == [queued EXCEPT !.attached = @ /\ queued.kind \notin replaced]
    <2>1. queued \in Waiting
      BY <1>2 DEF TypeOK
    <2>2. wait \in Waiting /\ wait.kind = queued.kind
          /\ wait.attached = (queued.attached /\ queued.kind \notin replaced)
      BY <2>1 DEF Waiting
    <2>3. slot' = Sent(wait) /\ queued' = None
      BY <1>2 DEF After
    <2> HIDE DEF wait
    <2> QED
      BY <1>2, <2>2, <2>3, SentType
  <1> QED
    BY <1>1, <1>2

-----------------------------------------------------------------------------
(* The record and the requests.                                            *)

LEMMA RecordInit == Init => RecordInv
  <1> SUFFICES ASSUME Init PROVE RecordInv
    OBVIOUS
  <1>1. /\ content = 0 /\ seq = 0 /\ tick = 0 /\ crashes = 0 /\ answered = 0 /\ slot = None
        /\ answers = NoAnswers /\ shownVersion = VersionNow
        /\ shown = [p \in Panels |-> 0]
    BY DEF Init
  <1>2. /\ 0 \in 0..MaxChanges /\ 0 \in 0..MaxCrashes /\ 0 \in 0..MaxTicks /\ 0 \in 0..MaxAnswers
        /\ NoAnswers \in Answers
    BY ConstantsAssumption
  <1>3. shownVersion \in Version
    BY <1>1, BlankVersion DEF VersionNow
  <1>4. TypeOK
    BY <1>1, <1>2, <1>3 DEF Init, TypeOK
  <1>5. ToldAfterWritten
    BY <1>1 DEF ToldAfterWritten
  <1>6. ReadIsNewest
    BY <1>1 DEF ReadIsNewest
  <1> QED
    BY <1>4, <1>5, <1>6 DEF RecordInv

(* The store moves; the page and its requests do not.                      *)
StoreStep == FeedWrites \/ FeedTells \/ FeedStops \/ Ticks \/ \E to \in Answers : AnswersChange(to)

LEMMA StoreMoves ==
    ASSUME RecordInv, StoreStep
    PROVE  /\ UNCHANGED <<timers, slot, queued, refreshing, poll, page>>
           /\ content' \in 0..MaxChanges /\ seq' \in 0..MaxChanges /\ content <= content' /\ seq' <= content'
           /\ untold' \in BOOLEAN /\ crashes' \in 0..MaxCrashes /\ tick' \in 0..MaxTicks
           /\ answers' \in Answers /\ answered' \in 0..MaxAnswers /\ notices' \subseteq Panels
  <1>1. /\ content \in 0..MaxChanges /\ seq \in 0..MaxChanges /\ crashes \in 0..MaxCrashes
        /\ tick \in 0..MaxTicks /\ answered \in 0..MaxAnswers /\ answers \in Answers
        /\ untold \in BOOLEAN /\ notices \subseteq Panels /\ seq <= content
    BY DEF RecordInv, TypeOK, ToldAfterWritten
  <1>2. /\ MaxChanges \in Nat /\ MaxCrashes \in Nat /\ MaxTicks \in Nat /\ MaxAnswers \in Nat
    BY ConstantsAssumption
  <1>3. CASE FeedWrites
    BY <1>1, <1>2, <1>3 DEF FeedWrites
  <1>4. CASE FeedTells
    <2>1. untold' \in BOOLEAN
      BY <1>4 DEF FeedTells
    <2> QED
      BY <1>1, <1>2, <1>4, <2>1 DEF FeedTells
  <1>5. CASE FeedStops
    <2>1. untold' \in BOOLEAN
      BY <1>5 DEF FeedStops
    <2> QED
      BY <1>1, <1>2, <1>5, <2>1 DEF FeedStops
  <1>6. CASE Ticks
    BY <1>1, <1>2, <1>6 DEF Ticks
  <1>7. CASE \E to \in Answers : AnswersChange(to)
    BY <1>1, <1>2, <1>7 DEF AnswersChange
  <1> QED
    BY <1>3, <1>4, <1>5, <1>6, <1>7 DEF StoreStep

LEMMA StoreKeeps ==
    ASSUME RecordInv, StoreStep
    PROVE  RecordInv'
  <1>1. TypeOK'
    BY StoreMoves DEF RecordInv, TypeOK, page
  <1>2. content \in Nat /\ content' \in Nat
    BY StoreMoves, Numbers, ConstantsAssumption DEF RecordInv
  <1>3. ToldAfterWritten'
    BY <1>2, StoreMoves, Numbers DEF RecordInv, ToldAfterWritten, page
  <1>4. ReadIsNewest'
    BY <1>2, StoreMoves, Numbers DEF RecordInv, ReadIsNewest, page
  <1> QED
    BY <1>1, <1>3, <1>4 DEF RecordInv

(* A request starts or waits, by whichever handler; what it will bring is  *)
(* not read yet.                                                           *)
LEMMA AskingKeeps ==
    ASSUME RecordInv, NEW kind \in Kinds, Ajax(kind) \/ UNCHANGED <<slot, queued>>,
           UNCHANGED <<store, page>>, notices' \subseteq Panels, timers' \subseteq Panels, refreshing' \in BOOLEAN,
           poll' \in {PollIdle, poll}
    PROVE  RecordInv'
  <1>1. \/ slot' = slot
        \/ slot' \in Request /\ slot'.at = "sent"
    BY AjaxMoves DEF RecordInv
  <1>2. queued' = queued \/ queued' \in Waiting
    BY AjaxMoves DEF RecordInv
  <1>3. TypeOK'
    BY <1>1, <1>2 DEF RecordInv, TypeOK, store, page
  <1>4. ToldAfterWritten' /\ ReadIsNewest'
    BY <1>1 DEF RecordInv, ToldAfterWritten, ReadIsNewest, store, page
  <1> QED
    BY <1>3, <1>4 DEF RecordInv

LEMMA ReceiveKeeps ==
    ASSUME RecordInv, NEW p \in Panels, Receive(p) \/ TimerFires(p)
    PROVE  RecordInv'
  <1>1. Ajax(p) \/ UNCHANGED <<slot, queued>>
    BY DEF Receive, TimerFires
  <1>2. UNCHANGED <<store, page, refreshing, poll>> /\ notices' \subseteq Panels /\ timers' \subseteq Panels
    BY DEF Receive, TimerFires, RecordInv, TypeOK
  <1>3. p \in Kinds /\ refreshing' \in BOOLEAN
    BY <1>2 DEF Kinds, RecordInv, TypeOK
  <1> QED
    BY <1>1, <1>2, <1>3, AskingKeeps

LEMMA LostKeeps ==
    ASSUME RecordInv, NoticesLost
    PROVE  RecordInv'
  <1>1. UNCHANGED <<store, page, slot, queued, refreshing, poll, timers>> /\ notices' = {}
    BY DEF NoticesLost
  <1> QED
    BY <1>1 DEF RecordInv, TypeOK, ToldAfterWritten, ReadIsNewest, store, page

(* The server reads the record for the request in flight.                  *)
LEMMA ReadMoves ==
    ASSUME RecordInv, ReadRecord
    PROVE  /\ slot \in Request /\ slot' \in Request
           /\ slot'.kind = slot.kind /\ slot'.attached = slot.attached
           /\ slot'.content = content /\ slot'.version.seq = seq
           /\ UNCHANGED <<store, notices, timers, queued, refreshing, poll, page>>
  <1> DEFINE v == [slot.version EXCEPT !.seq = seq, !.tick = tick]
             to == IF slot.kind \in {Main, CardPanel} THEN "read" ELSE "ready"
  <1>1. slot \in Request /\ slot.version \in Version
    BY DEF RecordInv, TypeOK, ReadRecord, Request
  <1>2. content \in 0..MaxChanges /\ seq \in 0..MaxChanges /\ tick \in 0..MaxTicks
    BY DEF RecordInv, TypeOK
  <1>3. v \in Version /\ v.seq = seq
    BY <1>1, <1>2, Zenon DEF Version
  <1>4. to \in {"read", "ready"}
    OBVIOUS
  <1>5. slot' = [slot EXCEPT !.content = content, !.version = v, !.at = to]
    BY <1>1 DEF ReadRecord, RecordRead, Request
  <1> HIDE DEF v, to
  <1>6. /\ slot' \in Request /\ slot'.kind = slot.kind /\ slot'.attached = slot.attached
        /\ slot'.content = content /\ slot'.version = v
    BY <1>1, <1>2, <1>3, <1>4, <1>5 DEF Request
  <1> QED
    BY <1>1, <1>3, <1>6 DEF ReadRecord

LEMMA ReadKeeps ==
    ASSUME RecordInv, ReadRecord
    PROVE  RecordInv'
  <1>1. TypeOK'
    BY ReadMoves DEF RecordInv, TypeOK, store, page
  <1>2. ToldAfterWritten'
    BY ReadMoves DEF RecordInv, ToldAfterWritten, store, page
  <1>3. ReadIsNewest'
    BY ReadMoves, Numbers DEF RecordInv, ToldAfterWritten, ReadIsNewest, store, page
  <1> QED
    BY <1>1, <1>2, <1>3 DEF RecordInv

(* It reads answers.db, for what the cards say and for the token; the      *)
(* record's part of the response stays.                                    *)
LEMMA JoinMoves ==
    ASSUME RecordInv, ReadAnswers \/ ReadToken
    PROVE  /\ slot \in Request /\ slot' \in Request /\ slot # None /\ slot.at # "sent"
           /\ slot'.kind = slot.kind /\ slot'.attached = slot.attached
           /\ slot'.content = slot.content /\ slot'.version.seq = slot.version.seq
           /\ UNCHANGED <<store, notices, timers, queued, refreshing, poll, page>>
  <1>1. slot # None /\ slot \in Request /\ slot.version \in Version /\ slot.at # "sent" /\ answers \in Answers
    BY DEF RecordInv, TypeOK, ReadAnswers, ReadToken, Request
  <1>2. CASE ReadAnswers
    <2>1. PICK to \in {"joined", "ready"} : slot' = [slot EXCEPT !.answers = answers, !.at = to]
      BY <1>2 DEF ReadAnswers
    <2> QED
      BY <1>1, <1>2, <2>1 DEF ReadAnswers, Request
  <1>3. CASE ReadToken
    <2> DEFINE v == [slot.version EXCEPT !.token = Token[answers]]
    <2>1. v \in Version /\ v.seq = slot.version.seq
      BY <1>1 DEF Version
    <2>2. slot' = [slot EXCEPT !.version = v, !.at = "ready"]
      BY <1>1, <1>3 DEF ReadToken, Request
    <2> HIDE DEF v
    <2> QED
      BY <1>1, <1>3, <2>1, <2>2 DEF ReadToken, Request
  <1> QED
    BY <1>2, <1>3

LEMMA JoinKeeps ==
    ASSUME RecordInv, ReadAnswers \/ ReadToken
    PROVE  RecordInv'
  <1>1. TypeOK'
    BY JoinMoves DEF RecordInv, TypeOK, store, page
  <1>2. ToldAfterWritten' /\ ReadIsNewest'
    BY JoinMoves DEF RecordInv, ToldAfterWritten, ReadIsNewest, store, page
  <1> QED
    BY <1>1, <1>2 DEF RecordInv

(* A request ends and the one that waited starts.                          *)
LEMMA NextKeeps ==
    ASSUME RecordInv, NEW replaced, After(replaced), UNCHANGED <<store, notices, timers>>,
           refreshing' \in BOOLEAN, poll' \in {PollIdle, poll}, shown' \in [Panels -> 0..MaxChanges],
           shownAnswers' \in Answers, shownVersion' \in Version,
           \A p \in Panels : shown'[p] <= content
    PROVE  RecordInv'
  <1>1. queued' = None /\ (slot' = None \/ (slot' \in Request /\ slot'.at = "sent"))
    BY AfterMoves DEF RecordInv
  <1>2. TypeOK'
    BY <1>1 DEF RecordInv, TypeOK, store
  <1>3. ToldAfterWritten' /\ ReadIsNewest'
    BY <1>1 DEF RecordInv, ToldAfterWritten, ReadIsNewest, store
  <1> QED
    BY <1>2, <1>3 DEF RecordInv

(* What a swap shows is what the response read, and no older than what it  *)
(* takes the place of.                                                     *)
LEMMA SwapMoves ==
    ASSUME RecordInv, SwapPanel \/ SwapMain
    PROVE  /\ slot \in Request /\ slot.at = "ready" /\ slot # None
           /\ slot.content \in 0..MaxChanges /\ slot.content <= content
           /\ \A p \in Panels : shown[p] <= slot.content
           /\ shown' \in [Panels -> 0..MaxChanges]
           /\ \A p \in Panels : shown'[p] \in {shown[p], slot.content}
           /\ shownAnswers' \in Answers /\ shownVersion' \in {shownVersion, slot.version}
           /\ UNCHANGED <<store, notices, timers>>
  <1>1. slot \in Request /\ slot.at = "ready" /\ slot # None
    BY DEF SwapPanel, SwapMain, RecordInv, TypeOK
  <1>2. /\ slot.content \in 0..MaxChanges /\ slot.answers \in Answers /\ slot.content <= content
        /\ \A p \in Panels : shown[p] <= slot.content
    BY <1>1 DEF Request, RecordInv, ReadIsNewest
  <1>3. shown \in [Panels -> 0..MaxChanges] /\ shownAnswers \in Answers
    BY DEF RecordInv, TypeOK
  <1>4. shown' \in [Panels -> 0..MaxChanges] /\ \A p \in Panels : shown'[p] \in {shown[p], slot.content}
    <2>1. CASE shown' = shown
      BY <1>3, <2>1
    <2>2. CASE shown' = [shown EXCEPT ![slot.kind] = slot.content]
      BY <1>2, <1>3, <2>2
    <2>3. CASE shown' = [p \in Panels |-> slot.content]
      BY <1>2, <2>3
    <2> QED
      BY <2>1, <2>2, <2>3 DEF SwapPanel, SwapMain
  <1>5. /\ shownAnswers' \in {shownAnswers, slot.answers} /\ shownVersion' \in {shownVersion, slot.version}
        /\ UNCHANGED <<store, notices, timers>>
    BY DEF SwapPanel, SwapMain
  <1> QED
    BY <1>1, <1>2, <1>3, <1>4, <1>5

LEMMA SwapKeeps ==
    ASSUME RecordInv, SwapPanel \/ SwapMain
    PROVE  RecordInv'
  <1>1. PICK replaced \in {{slot.kind}, Panels \cup {Main}} : After(replaced)
    BY DEF SwapPanel, SwapMain
  <1>2. refreshing' \in BOOLEAN /\ poll' \in {PollIdle, poll}
    BY DEF SwapPanel, SwapMain, RecordInv, TypeOK
  <1>3. shownVersion' \in Version
    BY SwapMoves DEF RecordInv, TypeOK, Request
  <1>4. \A p \in Panels : shown'[p] <= content
    BY SwapMoves DEF RecordInv, ToldAfterWritten
  <1> QED
    BY <1>1, <1>2, <1>3, <1>4, SwapMoves, NextKeeps

LEMMA FailureKeeps ==
    ASSUME RecordInv, RequestFails
    PROVE  RecordInv'
  <1>1. /\ After({}) /\ UNCHANGED <<store, notices, timers, poll, page>>
        /\ refreshing' \in BOOLEAN
    BY DEF RequestFails, RecordInv, TypeOK
  <1>2. /\ shown' \in [Panels -> 0..MaxChanges] /\ shownAnswers' \in Answers /\ shownVersion' \in Version
        /\ \A p \in Panels : shown'[p] <= content
    BY <1>1 DEF page, RecordInv, TypeOK, ToldAfterWritten
  <1> QED
    BY <1>1, <1>2, NextKeeps

(* The poll.                                                               *)
LEMMA PollKeeps ==
    ASSUME RecordInv, PollRead \/ PollAnswered \/ PollSame
    PROVE  RecordInv'
  <1>1. UNCHANGED <<store, notices, timers, slot, queued, refreshing, page>>
    BY DEF PollRead, PollAnswered, PollSame
  <1>2. poll' = PollIdle \/ poll' \in [at : {"read", "answered"}, version : Version]
    <2>1. CASE PollRead
      BY <2>1, VersionNowType DEF PollRead, RecordInv
    <2>2. CASE PollAnswered
      <3> DEFINE v == [poll.version EXCEPT !.token = Token[answers]]
      <3>1. poll \in [at : {"read", "answered"}, version : Version]
        BY <2>2 DEF PollAnswered, RecordInv, TypeOK, PollIdle
      <3>2. v \in Version
        BY <3>1 DEF Version, RecordInv, TypeOK
      <3>3. poll' = [poll EXCEPT !.at = "answered", !.version = v]
        BY <2>2, <3>1 DEF PollAnswered
      <3> HIDE DEF v
      <3> QED
        BY <3>1, <3>2, <3>3
    <2>3. CASE PollSame
      BY <2>3 DEF PollSame
    <2> QED
      BY <2>1, <2>2, <2>3
  <1> QED
    BY <1>1, <1>2 DEF RecordInv, TypeOK, ToldAfterWritten, ReadIsNewest, store, page

LEMMA RefreshKeeps ==
    ASSUME RecordInv, PollDiffers
    PROVE  RecordInv'
  <1>1. /\ Ajax(Main) \/ UNCHANGED <<slot, queued>>
        /\ UNCHANGED <<store, page>> /\ notices' \subseteq Panels /\ timers' \subseteq Panels
        /\ poll' \in {PollIdle, poll}
    BY DEF PollDiffers, RecordInv, TypeOK
  <1>2. refreshing' \in BOOLEAN
    BY DEF PollDiffers, RecordInv, TypeOK, UntilKept
  <1>3. Main \in Kinds
    BY DEF Kinds
  <1> QED
    BY <1>1, <1>2, <1>3, AskingKeeps

LEMMA RecordStep == RecordInv /\ [Next]_vars => RecordInv'
  <1> SUFFICES ASSUME RecordInv, [Next]_vars PROVE RecordInv'
    OBVIOUS
  <1>1. CASE UNCHANGED vars
    BY <1>1 DEF vars, store, page, RecordInv, TypeOK, ToldAfterWritten, ReadIsNewest
  <1>2. CASE Next
    BY <1>2, StoreKeeps, ReceiveKeeps, LostKeeps, ReadKeeps, JoinKeeps, SwapKeeps, FailureKeeps, PollKeeps,
       RefreshKeeps DEF Next, StoreStep
  <1> QED
    BY <1>1, <1>2

(* The page's state keeps its types.                                       *)
THEOREM PageTypeCorrect == Spec => []TypeOK
  <1>1. RecordInv => TypeOK
    BY DEF RecordInv
  <1> QED
    BY <1>1, RecordInit, RecordStep, PTL DEF Spec

(* Whatever requests crowd out, fail or come late, no section goes back to *)
(* an older record.                                                        *)
THEOREM ShownNeverGoesBack == Spec => NothingGoesBack
  <1>1. ASSUME RecordInv, [Next]_vars PROVE \A p \in Panels : shown'[p] >= shown[p]
    <2>1. CASE SwapPanel \/ SwapMain
      <3>1. \A p \in Panels : shown'[p] \in {shown[p], slot.content} /\ shown[p] <= slot.content
                              /\ slot.content \in Nat /\ shown[p] \in Nat
        BY <1>1, <2>1, SwapMoves, Numbers DEF RecordInv
      <3> QED
        BY <3>1
    <2>2. CASE UNCHANGED shown
      BY <1>1, <2>2, Numbers DEF RecordInv
    <2> QED
      BY <1>1, <2>1, <2>2 DEF Next, vars, page, FeedWrites, FeedTells, FeedStops, Ticks, AnswersChange, Receive,
         TimerFires, NoticesLost, ReadRecord, ReadAnswers, ReadToken, RequestFails, PollRead, PollAnswered,
         PollSame, PollDiffers
  <1>2. RecordInv /\ [Next]_vars => [\A p \in Panels : shown'[p] >= shown[p]]_vars
    BY <1>1
  <1> QED
    BY <1>2, RecordInit, RecordStep, PTL DEF Spec, NothingGoesBack

-----------------------------------------------------------------------------
(* One request for the page.  The kinds of the requests a step leaves are  *)
(* those of the requests before it, unless it asks for something.          *)

LEMMA PageInit == Init => OneMain /\ VersionIsShown
  <1> SUFFICES ASSUME Init PROVE OneMain /\ VersionIsShown
    OBVIOUS
  <1>1. slot.kind = "none" /\ queued.kind = "none" /\ poll = PollIdle
    BY DEF Init, None
  <1>2. shownVersion.seq = 0 /\ shown = [p \in Panels |-> 0]
    BY DEF Init, VersionNow
  <1>3. OneMain
    BY <1>1 DEF OneMain, Main
  <1>4. VersionIsShown
    BY <1>2 DEF VersionIsShown
  <1> QED
    BY <1>3, <1>4

(* A section's request, or none, is asked for: the page's stay as they     *)
(* were.                                                                   *)
LEMMA SectionAsked ==
    ASSUME PageInv, NEW p \in Panels, Receive(p) \/ TimerFires(p)
    PROVE  OneMain' /\ VersionIsShown'
  <1>1. poll' = poll /\ UNCHANGED page /\ (Ajax(p) \/ UNCHANGED <<slot, queued>>)
    BY DEF Receive, TimerFires
  <1>2. p # Main /\ p \in Kinds
    BY ConstantsAssumption DEF Kinds
  <1>3. /\ slot' = slot \/ slot'.kind = p
        /\ queued' = queued \/ queued'.kind = p
    BY <1>1, <1>2, AjaxMoves DEF PageInv, RecordInv
  <1>4. OneMain'
    BY <1>1, <1>2, <1>3 DEF PageInv, OneMain
  <1>5. VersionIsShown'
    BY <1>1 DEF PageInv, VersionIsShown, page
  <1> QED
    BY <1>4, <1>5

(* The page is asked for when a poll brings another version; no other      *)
(* request for it is under way.                                            *)
LEMMA MainAsked ==
    ASSUME PageInv, PollDiffers
    PROVE  OneMain' /\ VersionIsShown'
  <1>1. poll # PollIdle /\ poll' = PollIdle /\ UNCHANGED page /\ (Ajax(Main) \/ UNCHANGED <<slot, queued>>)
    BY DEF PollDiffers, PollIdle
  <1>2. slot.kind # Main /\ queued.kind # Main
    BY <1>1 DEF PageInv, OneMain
  <1>3. Main \in Kinds /\ None.kind # Main
    BY DEF Kinds, None, Main
  <1>4. \/ slot' = slot /\ queued'.kind = Main /\ queued'.attached
        \/ queued' = queued /\ slot'.kind = Main /\ slot'.attached
        \/ slot' = slot /\ queued' = queued
    BY <1>1, <1>3, AjaxMoves DEF PageInv, RecordInv
  <1>5. OneMain'
    BY <1>1, <1>2, <1>4 DEF OneMain
  <1>6. VersionIsShown'
    BY <1>1 DEF PageInv, VersionIsShown, page
  <1> QED
    BY <1>5, <1>6

(* A request ends: the page's request that waited keeps its element unless *)
(* the page was swapped, and then none waited.                             *)
LEMMA MainAfter ==
    ASSUME PageInv, NEW replaced, After(replaced), Main \in replaced => slot.kind = Main,
           poll' \in {PollIdle, poll}
    PROVE  OneMain'
  <1>1. None.kind # Main
    BY DEF None, Main
  <1>2. /\ queued' = None
        /\ \/ slot' = None
           \/ /\ slot'.kind = queued.kind
              /\ slot'.attached = (queued.attached /\ queued.kind \notin replaced)
    BY AfterMoves DEF PageInv, RecordInv
  <1>3. queued'.kind # Main
    BY <1>1, <1>2
  <1>4. slot'.kind = Main => queued.kind = Main /\ slot'.attached
    BY <1>1, <1>2 DEF PageInv, OneMain
  <1> QED
    BY <1>3, <1>4 DEF PageInv, OneMain

LEMMA SwapShows ==
    ASSUME PageInv, SwapPanel \/ SwapMain
    PROVE  OneMain' /\ VersionIsShown'
  <1>1. /\ \A p \in Panels : shown'[p] \in {shown[p], slot.content} /\ shown[p] <= slot.content
        /\ slot.version.seq <= slot.content
        /\ \A p \in Panels : shown[p] \in Nat
        /\ slot.content \in Nat /\ slot.version.seq \in Nat /\ shownVersion.seq \in Nat
        /\ slot # None /\ slot.at = "ready"
    BY SwapMoves, Numbers DEF PageInv, RecordInv, ReadIsNewest
  <1>2. CASE SwapPanel
    <2>1. slot.kind # Main /\ After({slot.kind}) /\ UNCHANGED <<poll, shownVersion>>
      BY <1>2 DEF SwapPanel
    <2>2. OneMain'
      BY <2>1, MainAfter
    <2>3. VersionIsShown'
      BY <1>1, <2>1 DEF PageInv, VersionIsShown
    <2> QED
      BY <2>2, <2>3
  <1>3. CASE SwapMain
    <2>1. slot.kind = Main /\ After(Panels \cup {Main}) /\ poll' = PollIdle /\ shownVersion' = slot.version
      BY <1>3 DEF SwapMain
    <2>2. OneMain'
      BY <2>1, MainAfter
    <2>3. shown' = [p \in Panels |-> slot.content]
      BY <1>3, <2>1 DEF SwapMain, PageInv, OneMain
    <2>4. VersionIsShown'
      BY <1>1, <2>1, <2>3 DEF VersionIsShown
    <2> QED
      BY <2>2, <2>4
  <1> QED
    BY <1>2, <1>3

LEMMA FailureShows ==
    ASSUME PageInv, RequestFails
    PROVE  OneMain' /\ VersionIsShown'
  <1>1. After({}) /\ UNCHANGED <<poll, page>>
    BY DEF RequestFails
  <1>2. OneMain'
    BY <1>1, MainAfter
  <1>3. VersionIsShown'
    BY <1>1 DEF PageInv, VersionIsShown, page
  <1> QED
    BY <1>2, <1>3

(* The server fills a response in.                                         *)
LEMMA AnswerShows ==
    ASSUME PageInv, ReadRecord \/ ReadAnswers \/ ReadToken
    PROVE  OneMain' /\ VersionIsShown'
  <1>1. slot'.kind = slot.kind /\ slot'.attached = slot.attached /\ UNCHANGED <<queued, poll, page>>
    BY ReadMoves, JoinMoves DEF PageInv
  <1> QED
    BY <1>1 DEF PageInv, OneMain, VersionIsShown, page

(* A poll starts when no page request is under way.                        *)
LEMMA PollShows ==
    ASSUME PageInv, ~SlowPage, PollRead \/ PollAnswered \/ PollSame
    PROVE  OneMain' /\ VersionIsShown'
  <1>1. UNCHANGED <<slot, queued, page>>
    BY DEF PollRead, PollAnswered, PollSame
  <1>2. (slot.kind # Main /\ queued.kind # Main) \/ poll' = PollIdle
    <2>1. CASE PollRead
      BY <2>1 DEF PollRead, MainUnderWay
    <2>2. CASE PollAnswered
      BY <2>2 DEF PollAnswered, PollIdle, PageInv, OneMain
    <2>3. CASE PollSame
      BY <2>3 DEF PollSame
    <2> QED
      BY <2>1, <2>2, <2>3
  <1> QED
    BY <1>1, <1>2 DEF PageInv, OneMain, VersionIsShown, page

LEMMA PageStep == ~SlowPage /\ PageInv /\ [Next]_vars => PageInv'
  <1> SUFFICES ASSUME ~SlowPage, PageInv, [Next]_vars PROVE PageInv'
    OBVIOUS
  <1>1. RecordInv'
    BY RecordStep DEF PageInv
  <1>2. CASE UNCHANGED <<slot, queued, poll, page>>
    <2>1. OneMain' /\ VersionIsShown'
      BY <1>2 DEF PageInv, OneMain, VersionIsShown, page
    <2> QED
      BY <1>1, <2>1 DEF PageInv
  <1>3. CASE \E p \in Panels : Receive(p) \/ TimerFires(p)
    BY <1>1, <1>3, SectionAsked DEF PageInv
  <1>4. CASE \/ ReadRecord \/ ReadAnswers \/ ReadToken \/ SwapPanel \/ SwapMain \/ RequestFails
             \/ PollRead \/ PollAnswered \/ PollSame \/ PollDiffers
    <2>1. OneMain' /\ VersionIsShown'
      BY <1>4, AnswerShows, SwapShows, FailureShows, PollShows, MainAsked
    <2> QED
      BY <1>1, <2>1 DEF PageInv
  <1>5. \/ UNCHANGED vars \/ FeedWrites \/ FeedTells \/ FeedStops \/ Ticks \/ NoticesLost
        \/ (\E to \in Answers : AnswersChange(to))
        => UNCHANGED <<slot, queued, poll, page>>
    BY DEF vars, page, FeedWrites, FeedTells, FeedStops, Ticks, AnswersChange, NoticesLost
  <1> QED
    BY <1>2, <1>3, <1>4, <1>5 DEF Next

(* Once the feed has told of what the copy holds, a page with the current  *)
(* version shows the current record in every section: the read time that   *)
(* freshness.js moves on is true.  A page request is over before the next  *)
(* poll starts.                                                            *)
THEOREM RecordStaysHonest ==
    ASSUME ~SlowPage
    PROVE  Spec => []RecordIsHonest
  <1>1. PageInv => RecordIsHonest
    <2> SUFFICES ASSUME PageInv, seq = content, shownVersion = VersionNow, NEW p \in Panels
                 PROVE  shown[p] = content
      BY DEF RecordIsHonest
    <2>1. shownVersion.seq = content
      BY DEF VersionNow
    <2>2. content <= shown[p] /\ shown[p] <= content
      BY <2>1 DEF PageInv, VersionIsShown, RecordInv, ToldAfterWritten
    <2> QED
      BY <2>2, Numbers DEF PageInv, RecordInv
  <1>2. Init => PageInv
    BY RecordInit, PageInit DEF PageInv
  <1>3. PageInv /\ [Next]_vars => PageInv'
    BY PageStep
  <1> QED
    BY <1>1, <1>2, <1>3, PTL DEF Spec
=============================================================================
