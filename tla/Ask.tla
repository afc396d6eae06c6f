-------------------------------- MODULE Ask --------------------------------
(***************************************************************************)
(* Asking by text or by voice: backend/chat/service.py, chat/llm.py,       *)
(* voice.py and the routes of backend/app.py that use them.  Each request  *)
(* has a thread; a model call has a worker of its own, which may answer    *)
(* late or never.  The asker joins its worker for the call's budget and    *)
(* then shuts the socket the worker may be blocked on.  How long a budget  *)
(* is makes no difference here: it runs out at any instant after the call  *)
(* began, on its own and not with the clock, which only the hourly limits  *)
(* read.                                                                   *)
(***************************************************************************)
EXTENDS Clock, FiniteSets

CONSTANTS
    Asks,           \* requests, each made once
    Recordings,     \* what may be uploaded: [label, found, big, seconds]
    MaxSeconds,     \* the longest recording
    QuestionsPerHour, NotesPerHour, AskHour

VARIABLES
    ask,       \* [kind, at] of each request
    call,      \* each stage's model call: [worker, up, done, abandoned, shuts, socket]
    chat,      \* who holds Chat._one_at_a_time: {} or a singleton
    voice,     \* who holds Voice.one_at_a_time
    taken,     \* when each question was counted by the chat's limit, NotTaken when it was not
    notes      \* when each voice note was counted by its account's limit

askVars == <<ask, call, chat, voice, taken, notes>>

NotTaken == -1
Stages == {"hearing", "asking", "speaking"}

At(a, place) == ask[a].at = place
Goes(a, place) == ask' = [ask EXCEPT ![a].at = place]

(* HourlyLimit: full, and the test try_take makes.                         *)
Full(times, limit) == Cardinality({a \in Asks : times[a] # NotTaken /\ clock - times[a] < AskHour}) >= limit

----------------------------------------------------------------------------
(* A model call.  worker: none, sent, open (connected), late (connected    *)
(* to an asker that gave up, the socket not yet shut).  up: its budget,    *)
(* QUESTION_SECONDS or the voice timeout, has run out.                     *)

NoCall == [worker |-> "none", up |-> FALSE, done |-> FALSE, abandoned |-> FALSE, shuts |-> FALSE, socket |-> "none"]
Started == [NoCall EXCEPT !.worker = "sent"]

(* trace: the connection is kept for the asker; one made after the asker   *)
(* gave up is shut here.  Mutant: it is only kept.                         *)
ConnectUnnoticed(c) ==
    /\ call[c].worker = "sent"
    /\ call' = [call EXCEPT ![c].socket = "open", ![c].worker = "open"]
    /\ UNCHANGED <<ask, chat, voice, taken, notes>>
Connect(c) ==
    /\ call[c].worker = "sent"
    /\ call' = [call EXCEPT ![c].socket = "open", ![c].worker = IF call[c].abandoned THEN "late" ELSE "open"]
    /\ UNCHANGED <<ask, chat, voice, taken, notes>>
ShutLate(c) ==
    /\ call[c].worker = "late"
    /\ call' = [call EXCEPT ![c].socket = "shut", ![c].worker = "open"]
    /\ UNCHANGED <<ask, chat, voice, taken, notes>>

(* finish: the worker ends with a reply or an error; an asker who gave up  *)
(* does not get it.                                                        *)
Ended(c) == [NoCall EXCEPT !.done = ~c.abandoned, !.abandoned = c.abandoned, !.up = c.up]
WorkerEnds(c) ==
    /\ call[c].worker \in {"sent", "open"}
    /\ call' = [call EXCEPT ![c] = Ended(call[c])]
    /\ UNCHANGED <<ask, chat, voice, taken, notes>>

Mine(a) == call[<<a, ask[a].at>>]
BudgetSpent(a) ==
    /\ ask[a].at \in Stages /\ ~Mine(a).up
    /\ call' = [call EXCEPT ![<<a, ask[a].at>>].up = TRUE]
    /\ UNCHANGED <<ask, chat, voice, taken, notes>>

(* join and give_up: under the call's lock, and then the sockets kept by   *)
(* then are shut.  Mutant: joined with no limit, to be given up only by a  *)
(* worker that ended.                                                      *)
GiveUpOnTheWorker(a) ==
    /\ ask[a].at \in Stages /\ Mine(a).worker = "none" /\ ~Mine(a).done /\ ~Mine(a).abandoned
    /\ call' = [call EXCEPT ![<<a, ask[a].at>>].abandoned = TRUE]
    /\ UNCHANGED <<ask, chat, voice, taken, notes>>
GiveUp(a) ==
    /\ ask[a].at \in Stages
    /\ LET c == <<a, ask[a].at>>
       IN  \/ /\ call[c].up /\ ~call[c].done /\ ~call[c].abandoned
              /\ call' = [call EXCEPT ![c].abandoned = TRUE, ![c].shuts = (call[c].socket = "open")]
           \/ /\ call[c].shuts
              /\ call' = [call EXCEPT ![c].shuts = FALSE, ![c].socket = IF @ = "open" THEN "shut" ELSE @]
    /\ UNCHANGED <<ask, chat, voice, taken, notes>>
Over(a) == Mine(a).done \/ (Mine(a).abandoned /\ ~Mine(a).shuts)

----------------------------------------------------------------------------
(* Chat.ask.                                                               *)

(* An answer of any kind ends a typed question, and a spoken one is read   *)
(* aloud.                                                                  *)
Answers(a, kind) ==
    IF ask[a].kind = "spoken"
    THEN Goes(a, "speaking") /\ call' = [call EXCEPT ![<<a, "speaking">>] = Started]
    ELSE Goes(a, kind) /\ UNCHANGED call

(* The words are refused, the lock is not free, the limit is reached, or   *)
(* the model is called.                                                    *)
AskChat(a) ==
    \/ Answers(a, "refused") /\ UNCHANGED <<chat, taken>>
    \/ chat # {} /\ Answers(a, "busy") /\ UNCHANGED <<chat, taken>>
    \/ chat = {} /\ Full(taken, QuestionsPerHour) /\ Answers(a, "limited") /\ UNCHANGED <<chat, taken>>
    \/ /\ chat = {} /\ ~Full(taken, QuestionsPerHour)
       /\ chat' = {a} /\ taken' = [taken EXCEPT ![a] = clock]
       /\ Goes(a, "asking") /\ call' = [call EXCEPT ![<<a, "asking">>] = Started]

(* What becomes of a reply (parse_reply, _clarify, _run), and of a reply   *)
(* to a clarifying question, which is not asked back again.                *)
Kind(reply, follow) ==
    CASE reply \in {"rejected", "option not on record", "read failed", "ungrounded"} -> "refused"
      [] reply = "clarify" -> IF follow THEN "refused" ELSE "asks back"
      [] reply = "ambiguous" -> IF follow THEN "answer" ELSE "asks back"
      [] reply \in {"ok", "not found", "bad period"} -> "answer"
Replies == {"rejected", "option not on record", "read failed", "ungrounded", "clarify", "ambiguous", "ok", "not found", "bad period"}

(* _answer after the model call: given up, the worker's error or no time   *)
(* left, and the lock is released; or a reply in time, which is then read  *)
(* and phrased under the lock with no limit of its own.                    *)
NotAnswered(a) ==
    /\ At(a, "asking") /\ Over(a) /\ Answers(a, "unavailable")
    /\ chat' = {} /\ UNCHANGED <<voice, taken, notes>>
ReplyInTime(a) ==
    /\ At(a, "asking") /\ Mine(a).done /\ ~Mine(a).up /\ Goes(a, "reading")
    /\ UNCHANGED <<call, chat, voice, taken, notes>>
Answered(a) ==
    /\ At(a, "reading")
    /\ \E reply \in Replies, follow \in BOOLEAN : Answers(a, Kind(reply, follow))
    /\ chat' = {} /\ UNCHANGED <<voice, taken, notes>>

----------------------------------------------------------------------------
(* The requests.                                                           *)

(* check_recording: by its bytes, which must agree with its label.         *)
Unstated == -1
Malformed == -2
CheckRecording(r) ==
    IF r.label \notin {"webm", "m4a", "wav"} THEN "not audio"
    ELSE IF r.found = "empty" THEN "no recording"
    ELSE IF r.found # r.label THEN "not audio"
    ELSE IF r.big THEN "too big"
    ELSE IF r.seconds = Malformed \/ (r.seconds = Unstated /\ r.found = "wav") THEN "not audio"
    ELSE IF r.seconds > MaxSeconds THEN "too long" ELSE "fine"

(* chat_ask, voice_ask and voice_transcribe up to the first lock; the      *)
(* chat's limit is looked at before a recording is heard.                  *)
Arrive(a) ==
    /\ At(a, "new")
    /\ \/ ask' = [ask EXCEPT ![a] = [kind |-> "typed", at |-> "at chat"]]
       \/ \E kind \in {"spoken", "note"}, r \in Recordings :
            LET check == CheckRecording(r)
            IN  ask' = [ask EXCEPT ![a] = [kind |-> kind, at |->
                           IF check # "fine" THEN check
                           ELSE IF kind = "spoken" /\ Full(taken, QuestionsPerHour) THEN "limited" ELSE "at voice"]]
    /\ UNCHANGED <<call, chat, voice, taken, notes>>
Type(a) == At(a, "at chat") /\ AskChat(a) /\ UNCHANGED <<voice, notes>>

(* The microphone is tried, never waited for.  Mutant: taken from whoever  *)
(* has it.                                                                 *)
Listen(a) ==
    /\ voice' = {a} /\ Goes(a, "hearing")
    /\ call' = [call EXCEPT ![<<a, "hearing">>] = Started]
VoiceBusy(a) == At(a, "at voice") /\ voice # {} /\ Goes(a, "busy") /\ UNCHANGED <<call, chat, voice, taken, notes>>
RecordQuestionAnyway(a) ==
    /\ At(a, "at voice") /\ ask[a].kind = "spoken"
    /\ Listen(a) /\ UNCHANGED <<chat, taken, notes>>
RecordQuestion(a) ==
    /\ At(a, "at voice") /\ ask[a].kind = "spoken" /\ voice = {}
    /\ Listen(a) /\ UNCHANGED <<chat, taken, notes>>

(* A note is counted once it has the microphone.                           *)
NotesFull == Full(notes, NotesPerHour)
RecordNote(a) ==
    /\ At(a, "at voice") /\ ask[a].kind = "note" /\ voice = {}
    /\ \/ NotesFull /\ Goes(a, "limited") /\ UNCHANGED <<call, voice, notes>>
       \/ ~NotesFull /\ Listen(a) /\ notes' = [notes EXCEPT ![a] = clock]
    /\ UNCHANGED <<chat, taken>>

(* What was heard: nothing usable (no reply, too long by the model's own   *)
(* measure, no words), or words.                                           *)
Heard(a) ==
    /\ At(a, "hearing") /\ Over(a)
    /\ \/ Goes(a, "not heard") /\ voice' = {} /\ UNCHANGED <<call, chat, taken>>
       \/ Mine(a).done /\ ask[a].kind = "note" /\ Goes(a, "heard") /\ voice' = {} /\ UNCHANGED <<call, chat, taken>>
       \/ Mine(a).done /\ ask[a].kind = "spoken" /\ AskChat(a) /\ UNCHANGED voice
    /\ UNCHANGED notes
Spoken(a) ==
    /\ At(a, "speaking") /\ Over(a)
    /\ \/ Goes(a, "text only")
       \/ Mine(a).done /\ Goes(a, "spoken")
    /\ voice' = {} /\ UNCHANGED <<call, chat, taken, notes>>

AskInit ==
    /\ ask = [a \in Asks |-> [kind |-> "typed", at |-> "new"]]
    /\ call = [c \in Asks \X Stages |-> NoCall]
    /\ chat = {} /\ voice = {} /\ taken = [a \in Asks |-> NotTaken] /\ notes = taken
(* What the thread of a request does by itself.                            *)
Asker(a) ==
    \/ Type(a) \/ VoiceBusy(a) \/ RecordQuestion(a) \/ RecordNote(a) \/ GiveUp(a)
    \/ Heard(a) \/ NotAnswered(a) \/ ReplyInTime(a) \/ Answered(a) \/ Spoken(a)
AskNext ==
    \/ /\ \/ \E c \in Asks \X Stages : Connect(c) \/ ShutLate(c) \/ WorkerEnds(c)
          \/ \E a \in Asks : Arrive(a) \/ BudgetSpent(a) \/ Asker(a)
       /\ UNCHANGED clock
    \/ Tick /\ UNCHANGED askVars
AskSpec == clock = 0 /\ AskInit /\ [][AskNext]_<<clock, askVars>>

(* Threads run and budgets run out.  Nothing is asked of the workers: a    *)
(* model may be silent for ever.                                           *)
AskFairness == \A a \in Asks : WF_askVars(BudgetSpent(a)) /\ WF_askVars(Asker(a))

----------------------------------------------------------------------------

(* One question at a time and one recording at a time, and from end to     *)
(* end: the chat is held by exactly the request whose question is at the   *)
(* model or being read, and the microphone by exactly the one that is      *)
(* heard, is asking what was heard or is spoken to (Chat._one_at_a_time,   *)
(* Voice.one_at_a_time).  No way out of a request, whoever is refused,     *)
(* busy, given up on or late meanwhile, leaves a lock behind or lets go of *)
(* another's.                                                              *)
OneAtATime ==
    /\ chat = {a \in Asks : ask[a].at \in {"asking", "reading"}}
    /\ voice = {a \in Asks : \/ ask[a].at \in {"hearing", "speaking"}
                             \/ ask[a].kind = "spoken" /\ ask[a].at \in {"asking", "reading"}}
    /\ Cardinality(chat) =< 1 /\ Cardinality(voice) =< 1

(* A call that was given up leaves no worker blocked: its socket is shut,  *)
(* or its asker or its worker is about to shut it, whenever the connection *)
(* was made (_Call.give_up and trace).                                     *)
SocketsAreShut ==
    \A c \in Asks \X Stages :
        call[c].abandoned /\ call[c].socket = "open" => call[c].shuts \/ call[c].worker = "late"

(* Whatever the models do, every request gets an answer and then holds     *)
(* neither lock (Voice._post: a model "that is slow, silent after one      *)
(* byte, or trickling cannot hold the voice lock past the limit").  Each   *)
(* is made once, so in the end there is none under way.                    *)
UnderWay(a) == ask[a].at \in Stages \cup {"at chat", "at voice", "reading"}
EveryRequestEnds == <>[](\A a \in Asks : ~UnderWay(a) /\ a \notin chat \cup voice)
=============================================================================
