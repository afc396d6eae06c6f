----------------------------- MODULE Microphone -----------------------------
(***************************************************************************)
(* The microphone button of one panel (static/mic.js).  The browser        *)
(* answers each request for the microphone when the person has decided,    *)
(* so requests may overlap; the recorder, the timer, the upload and the    *)
(* sound call back later.  A recorder's stop, a sound's end and a refused  *)
(* play are taken to call back before the next press of a person.          *)
(***************************************************************************)
EXTENDS Integers, FiniteSets

CONSTANT MaxPresses      \* bound on requests for the microphone, for TLC

VARIABLES
    button,     \* state: idle, listening, thinking, speaking or error
    asked,      \* the number of the latest request
    pending,    \* the requests the browser has not answered
    live,       \* the requests whose stream is open
    recorder,   \* none, recording or stopping
    timer       \* whether the timer of the longest recording is set

micVars == <<button, asked, pending, live, recorder, timer>>

(* start *)
StartListening ==
    /\ asked < MaxPresses                                            \* bound
    /\ asked' = asked + 1 /\ pending' = pending \cup {asked + 1} /\ button' = "listening"
    /\ UNCHANGED <<live, recorder, timer>>

(* stop: before there is a recorder it only lets go.                       *)
StopListening ==
    \/ /\ recorder = "none" /\ live' = {} /\ button' = "idle"
       /\ UNCHANGED <<asked, pending, recorder, timer>>
    \/ /\ recorder # "none" /\ recorder' = "stopping"
       /\ UNCHANGED <<button, asked, pending, live, timer>>

(* press and release; a press while the answer is worked out does nothing. *)
Press ==
    \/ button = "speaking" /\ button' = "idle" /\ UNCHANGED <<asked, pending, live, recorder, timer>>
    \/ button = "listening" /\ StopListening
    \/ button \in {"idle", "error"} /\ StartListening
Release == button = "listening" /\ StopListening

(* The microphone is given: only the latest request may record.            *)
(* Mutant: a request let go of is still recorded when it is the latest.    *)
WantedIfLatest(m) == m = asked /\ recorder = "none"
Wanted(m) == m = asked /\ button = "listening" /\ recorder = "none"
Given(m) ==
    /\ m \in pending /\ pending' = pending \ {m}
    /\ \/ ~Wanted(m) /\ UNCHANGED <<button, live, recorder, timer>>            \* closed at once
       \/ /\ Wanted(m) /\ live' = live \cup {m} /\ recorder' = "recording" /\ timer' = TRUE
          /\ UNCHANGED button
       \/ /\ Wanted(m) /\ button' = "error"                                    \* it would not start
          /\ UNCHANGED <<live, recorder, timer>>
    /\ UNCHANGED asked

Denied(m) ==
    /\ m \in pending /\ pending' = pending \ {m}
    /\ button' = IF m = asked THEN "error" ELSE button
    /\ UNCHANGED <<asked, live, recorder, timer>>

TimeUp == timer /\ recorder = "recording" /\ StopListening

(* send, by the recorder's stop or the end of its stream.                  *)
Stopped ==
    /\ recorder # "none" /\ recorder' = "none" /\ timer' = FALSE /\ live' = {}
    /\ button' \in {"idle", "thinking"}          \* nothing was recorded, or it is sent
    /\ UNCHANGED <<asked, pending>>

(* The answer, its words only, a failure, or an answer read aloud, which   *)
(* ends or is not let play.                                                *)
Replied ==
    /\ button = "thinking" /\ button' \in {"idle", "error", "speaking"}
    /\ UNCHANGED <<asked, pending, live, recorder, timer>>
Silent ==
    /\ button = "speaking" /\ button' = "idle"
    /\ UNCHANGED <<asked, pending, live, recorder, timer>>

MicInit ==
    /\ button = "idle" /\ asked = 0 /\ pending = {} /\ live = {} /\ recorder = "none" /\ timer = FALSE
MicNext == Press \/ Release \/ (\E m \in pending : Given(m) \/ Denied(m)) \/ TimeUp \/ Stopped \/ Replied \/ Silent
MicSpec == MicInit /\ [][MicNext]_micVars

(* However requests are let go, asked again, given late or refused, the    *)
(* microphone is open for one recording at most, only while the button     *)
(* says it listens, and never without the timer that ends it; and nothing  *)
(* is recorded for a request that was let go (mic.js: "only the latest     *)
(* request for the microphone may record; any other is closed").           *)
MicrophoneIsShown ==
    /\ live # {} => button = "listening" /\ live = {asked} /\ timer
    /\ recorder # "none" <=> live # {}
=============================================================================
