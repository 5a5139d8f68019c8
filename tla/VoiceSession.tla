---------------------------- MODULE VoiceSession ----------------------------
(***************************************************************************)
(* The lifecycle of the voice runtimes (VoiceSession rows) of one user,    *)
(* the persisted shutdown choice of the user's voice profile, the request  *)
(* handlers that move them, a voice turn with its speech output, and the   *)
(* periodic inactivity task.                                               *)
(*                                                                         *)
(* A step is a database transaction's reads, or its commit.  No handler    *)
(* locks the row it read, so a commit writes back a copy that may be       *)
(* stale: the whole row (save()) or some columns (update_fields).          *)
(***************************************************************************)
EXTENDS Integers, FiniteSets, VoiceStates

CONSTANTS
  Sessions,   \* bound: voice sessions that can ever be created
  Clients,    \* threads that serve HTTP requests
  Reports,    \* states the browser reports
  ServerSTT,  \* recorded audio is uploaded (no speech recognition in the browser)
  Timeout,    \* active_session_minutes
  MaxTime,    \* bound: the clock
  MaxStarts,  \* bound: sessions the user starts explicitly
  MaxSpeech,  \* bound: synthesised answers
  MaxCrashes, \* bound: handlers that die half-way
  MaxClears,  \* bound: times the user clears the voice data
  None        \* no session

ASSUME VoiceAssumption ==
  /\ Reports \subseteq State
  /\ ServerSTT \in BOOLEAN
  /\ Timeout \in Nat \ {0}
  /\ MaxTime \in Nat /\ MaxStarts \in Nat /\ MaxSpeech \in Nat
  /\ MaxCrashes \in Nat /\ MaxClears \in Nat
  /\ None \notin Sessions

VARIABLES
  row,      \* the VoiceSession table
  choice,   \* VoiceProfile.configuration["voice_shutdown"]
  req,      \* the request each handler serves
  clock,    \* time, in units of Timeout
  starts,   \* explicit starts so far
  spoken,   \* SpeechSynthesis records so far; a record's number is its id
  crashes,  \* crashes so far
  clears,   \* times the voice data were cleared
  off,      \* history: the user shut voice down and has not started it since
  after,    \* history: the session was shut down when the request arrived
  raised    \* history: sessions in which a turn raised after it was answered

vars == <<row, choice, req, clock, starts, spoken, crashes, clears, off, after, raised>>
counters == <<starts, spoken, crashes, clears>>
served == <<req, after>>

Row == [state : State \cup {"absent", "gone"},
        mode  : {"wake_word", "active"},
        exp   : Nat,      \* active_expires_at, 0 for null
        ended : BOOLEAN,  \* status = "completed"
        mic   : BOOLEAN,  \* configuration["microphone_enabled"]
        synth : Nat]      \* configuration["active_synthesis_id"], 0 for none

NoRow == [state |-> "absent", mode |-> "wake_word", exp |-> 0, ended |-> FALSE,
          mic |-> FALSE, synth |-> 0]
NewRow == [NoRow EXCEPT !.state = "starting"]

Step == {"idle", "create", "resume", "greet", "moveread", "move", "activate", "disable",
         "shutdown", "respond", "window", "heard", "wakeconfig", "touch", "agent", "act",
         "reply", "speech", "provider", "speechclear", "complete", "profile", "stt", "process"}

Request == [at   : Step,
            sid  : Sessions \cup {None},
            copy : Row,                      \* the handler's instance of the row
            to   : State \cup {"absent"},    \* target of transition()
            next : Step,                     \* the step after this one
            id   : Nat,                      \* synthesis_id a playback callback names
            seen : BOOLEAN]                  \* voice_shutdown in the profile read

Serve(at, s, next, r) ==
  [at |-> at, sid |-> s, copy |-> r, to |-> "absent", next |-> next, id |-> 0, seen |-> FALSE]

Idle == Serve("idle", None, "idle", NoRow)

\* transition(), called with the id of session `s'; its own copy is `r'.
Moving(at, s, t, next, r) == [Serve(at, s, next, r) EXCEPT !.to = t]

Init ==
  /\ row = [s \in Sessions |-> NoRow]
  /\ choice = FALSE
  /\ req = [c \in Clients |-> Idle]
  /\ clock = 0
  /\ starts = 0
  /\ spoken = 0
  /\ crashes = 0
  /\ clears = 0
  /\ off = FALSE
  /\ after = [c \in Clients |-> FALSE]
  /\ raised = {}

-----------------------------------------------------------------------------
(* What the operations make of a row *)

Capture(r) == IF r.mode = "active" THEN "active_session" ELSE "wake_word_listening"

Expired(r) == r.mode = "active" /\ r.exp # 0 /\ clock >= r.exp

Waked(r) == [r EXCEPT !.state = "wake_word_listening", !.mode = "wake_word", !.exp = 0]

Activated(r) ==
  [r EXCEPT !.state = "active_session", !.mode = "active", !.exp = clock + Timeout,
            !.ended = FALSE]

Greeting(r) == [r EXCEPT !.state = "greeting", !.mode = "wake_word"]

\* transition: the row with its new state and what goes with it.
Transitioned(r, t) ==
  CASE t = "active_session"      -> [r EXCEPT !.state = t, !.mode = "active",
                                       !.exp = IF @ = 0 THEN clock + Timeout ELSE @]
    [] t = "wake_word_listening" -> Waked(r)
    [] t = "shutdown"            -> [Waked(r) EXCEPT !.state = t, !.ended = TRUE, !.mic = FALSE]
    [] OTHER                     -> [r EXCEPT !.state = t]

-----------------------------------------------------------------------------
(* The columns a commit writes; `to' is the row as it is, `from' the copy. *)

\* Fault: "mode" is missing from the update_fields of the greeting.
StateOnly(to, from) == [to EXCEPT !.state = from.state]

StateAndMode(to, from) == [to EXCEPT !.state = from.state, !.mode = from.mode]
Lifecycle(to, from)    == [StateAndMode(to, from) EXCEPT !.exp = from.exp]
Configuration(to, from) == [to EXCEPT !.mic = from.mic, !.synth = from.synth]

Write(s, r) == row' = [row EXCEPT ![s] = r]

\* A session can be read until its row is deleted, and most requests refuse one that
\* is shut down.
Exists(s)  == row[s].state \notin {"absent", "gone"}
Running(s) == Exists(s) /\ row[s].state # "shutdown"

-----------------------------------------------------------------------------
(* The control state of a handler *)

Becomes(c, q) == req' = [req EXCEPT ![c] = q]

Become(c, q) == Becomes(c, q) /\ UNCHANGED after

\* What is remembered of a request that arrives says nothing of one with a recording.
Accept(c, q) ==
  /\ req[c].at = "idle"
  /\ Becomes(c, q)
  /\ after' = [after EXCEPT ![c] =
                 /\ q.sid # None
                 /\ q.next # "stt"
                 /\ row[q.sid].state = "shutdown"]

Begin(c, s, at, next, r) == Accept(c, Serve(at, s, next, r))

Go(c, at, next, r) == Become(c, Serve(at, req[c].sid, next, r))

GoMove(c, t, next) == Become(c, Moving("moveread", req[c].sid, t, next, NoRow))

Fail(c) == Become(c, Idle)

\* The answer serialises the instance, which checks its active window once more.
Finish(c, r) ==
  IF r.mode = "active" THEN Go(c, "respond", "idle", r) ELSE Fail(c)

Others == <<choice, clock, counters, off, raised>>

-----------------------------------------------------------------------------
(* Creating and resuming a runtime *)

\* start, on an explicit request: the persisted shutdown choice is cleared.
Start(c) ==
  /\ req[c].at = "idle"
  /\ starts < MaxStarts
  /\ \E s \in Sessions : row[s].state = "absent" /\ Write(s, NewRow)
  /\ choice' = FALSE
  /\ off' = FALSE
  /\ starts' = starts + 1
  /\ UNCHANGED <<served, clock, spoken, crashes, clears, raised>>

Open == {s \in Sessions : Running(s) /\ ~row[s].ended}

\* current_or_start: a shut-down runtime is returned as it is while the choice
\* stands, an open one is resumed, and without either one is created.  (A read
\* that leads to no write is no step.)
RuntimeRead(c) ==
  /\ ~(choice /\ \E s \in Sessions : row[s].state = "shutdown")
  /\ IF Open = {}
     THEN /\ \E s \in Sessions : row[s].state = "absent"
          /\ Begin(c, None, "create", "idle", NoRow)
     ELSE \E s \in Open :
            /\ Expired(row[s]) \/ row[s].state = "starting"
            /\ Begin(c, s, "resume", "idle", row[s])
  /\ UNCHANGED <<row, Others>>

RuntimeCreate(c) ==
  /\ req[c].at = "create"
  /\ \E s \in Sessions : row[s].state = "absent" /\ Write(s, Greeting(NewRow))
  /\ choice' = FALSE
  /\ Fail(c)
  /\ UNCHANGED <<clock, counters, off, raised>>

RuntimeResume(c) ==
  LET s == req[c].sid
      copy == req[c].copy
  IN /\ req[c].at = "resume"
     /\ IF Expired(copy)
        THEN Write(s, Lifecycle(row[s], Waked(copy)))
        ELSE Write(s, StateAndMode(row[s], Greeting(copy)))
     /\ Fail(c)
     /\ UNCHANGED Others

\* mark_greeted
GreetRead(c, s) ==
  /\ Running(s)
  /\ Begin(c, s, "greet", "idle", row[s])
  /\ UNCHANGED <<row, Others>>

GreetSave(c) ==
  LET s == req[c].sid
      copy == req[c].copy
      r == IF copy.state \in {"starting", "greeting"}
           THEN [copy EXCEPT !.state = "wake_word_listening", !.mode = "wake_word"]
           ELSE copy
  IN /\ req[c].at = "greet"
     /\ Write(s, StateAndMode(row[s], r))
     /\ Finish(c, r)
     /\ UNCHANGED Others

-----------------------------------------------------------------------------
(* transition, activate, disable, shutdown *)

\* Fault: a legacy state name is stored instead of the state it stands for.
ReportReadLegacy(c, s) ==
  /\ Exists(s)
  /\ \E t \in {"listening", "waiting"} : Accept(c, Moving("move", s, t, "respond", row[s]))
  /\ UNCHANGED <<row, Others>>

\* The browser reports a state, and perhaps whether the microphone is granted.
ReportRead(c, s) ==
  /\ Exists(s)
  /\ \E t \in Reports \cup {row[s].state}, mic \in {row[s].mic, TRUE, FALSE} :
       /\ t = row[s].state \/ t \in Allowed(row[s].state)
       /\ Accept(c, Moving("move", s, t, "respond", [row[s] EXCEPT !.mic = mic]))
  /\ UNCHANGED <<row, Others>>

\* transition(force=True) reads the session whatever the caller holds ...
MoveRead(c) ==
  /\ req[c].at = "moveread"
  /\ Become(c, Moving("move", req[c].sid, req[c].to, req[c].next, row[req[c].sid]))
  /\ UNCHANGED <<row, Others>>

\* ... and saves all of it.
MoveSave(c) ==
  LET s == req[c].sid
      r == Transitioned(req[c].copy, req[c].to)
  IN /\ req[c].at = "move"
     /\ Write(s, r)
     /\ CASE req[c].next = "respond" -> Finish(c, r)
          [] req[c].next = "idle"    -> Fail(c)
          [] OTHER                   -> Go(c, req[c].next, "idle", r)
     /\ UNCHANGED Others

\* Fault: a session that was shut down is activated again.
ActivateReadAny(c, s) ==
  /\ Exists(s)
  /\ Begin(c, s, "activate", "respond", row[s])
  /\ UNCHANGED <<row, Others>>

ActivateRead(c, s) ==
  /\ Running(s)
  /\ Begin(c, s, "activate", "respond", row[s])
  /\ UNCHANGED <<row, Others>>

ActivateSave(c) ==
  LET s == req[c].sid
      r == Activated(req[c].copy)
  IN /\ req[c].at = "activate"
     /\ Write(s, [Lifecycle(row[s], r) EXCEPT !.ended = FALSE])
     /\ IF req[c].next = "respond" THEN Finish(c, r) ELSE Go(c, req[c].next, "idle", r)
     /\ UNCHANGED Others

DisableRead(c, s) ==
  /\ Running(s)
  /\ Begin(c, s, "disable", "idle", row[s])
  /\ UNCHANGED <<row, Others>>

DisableSave(c) ==
  LET s == req[c].sid
      r == Waked(req[c].copy)
  IN /\ req[c].at = "disable"
     /\ Write(s, Lifecycle(row[s], r))
     /\ IF req[c].next = "reply" THEN Go(c, "reply", "idle", r) ELSE Fail(c)
     /\ UNCHANGED Others

ShutdownRead(c, s) ==
  /\ Exists(s)
  /\ Begin(c, s, "shutdown", "idle", row[s])
  /\ UNCHANGED <<row, Others>>

\* shutdown: the choice is persisted even if the session is already shut down.
ShutdownSave(c) ==
  LET s == req[c].sid
      copy == req[c].copy
  IN /\ req[c].at = "shutdown"
     /\ IF copy.state = "shutdown"
        THEN UNCHANGED row
        ELSE Write(s, Transitioned(copy, "shutdown"))
     /\ choice' = TRUE
     /\ off' = TRUE
     /\ Fail(c)
     /\ UNCHANGED <<clock, counters, raised>>

\* VoiceProfileService.update: the whole profile is read, and saved with the
\* configuration it was read with.
ProfileRead(c) ==
  /\ Accept(c, [Serve("profile", None, "idle", NoRow) EXCEPT !.seen = choice])
  /\ UNCHANGED <<row, Others>>

ProfileSave(c) ==
  /\ req[c].at = "profile"
  /\ choice' = req[c].seen
  /\ Fail(c)
  /\ UNCHANGED <<row, clock, counters, off, raised>>

-----------------------------------------------------------------------------
(* The active window *)

\* A page or an API read loads sessions and serialises them later.
View(c, s) ==
  /\ row[s].mode = "active"
  /\ Begin(c, s, "respond", "idle", row[s])
  /\ UNCHANGED <<row, Others>>

\* serialize: enforce_active_window on the instance that is answered.
Respond(c) ==
  LET s == req[c].sid
      copy == req[c].copy
  IN /\ req[c].at = "respond"
     /\ IF Expired(copy)
        THEN Write(s, Lifecycle(row[s], Waked(copy)))
        ELSE UNCHANGED row
     /\ Fail(c)
     /\ UNCHANGED Others

\* enforce_voice_inactivity: one bulk UPDATE, no VoiceEvent.
Inactivity ==
  LET due == {s \in Sessions : /\ row[s].state = "active_session"
                               /\ row[s].exp # 0
                               /\ row[s].exp <= clock}
  IN /\ due # {}
     /\ row' = [s \in Sessions |-> IF s \in due THEN Waked(row[s]) ELSE row[s]]
     /\ UNCHANGED <<served, Others>>

Tick ==
  /\ clock < MaxTime
  /\ clock' = clock + 1
  /\ UNCHANGED <<row, served, choice, counters, off, raised>>

\* clear_voice_data: one transaction deletes every session; the profile, and the
\* shutdown choice in it, stays.
ClearVoiceData ==
  /\ clears < MaxClears
  /\ clears' = clears + 1
  /\ row' = [s \in Sessions |-> IF Exists(s) THEN [NoRow EXCEPT !.state = "gone"] ELSE row[s]]
  /\ UNCHANGED <<served, choice, clock, starts, spoken, crashes, off, raised>>

-----------------------------------------------------------------------------
(* A voice turn: TranscriptService.ingest *)

\* The session is read, and its active window enforced on the instance.
IngestRead(c, s) ==
  /\ Exists(s)
  /\ Begin(c, s, "window", "idle", row[s])
  /\ UNCHANGED <<row, Others>>

Window(c) ==
  LET s == req[c].sid
      copy == req[c].copy
  IN /\ req[c].at = "window"
     /\ IF Expired(copy)
        THEN /\ Write(s, Lifecycle(row[s], Waked(copy)))
             /\ Go(c, "heard", "idle", Waked(copy))
        ELSE /\ UNCHANGED row
             /\ Go(c, "heard", "idle", copy)
     /\ UNCHANGED Others

\* No speech, or a session that is shut down.
Refuse(c) ==
  /\ req[c].at = "heard"
  /\ Fail(c)
  /\ UNCHANGED <<row, Others>>

Heard(c) == req[c].at = "heard" /\ req[c].copy.state # "shutdown"

\* No wake word, low confidence, a duplicate, or another speaker:
\* recover_after_rejected_input reads the session and restores capture.
Ignore(c) ==
  LET r == row[req[c].sid]
  IN /\ Heard(c)
     /\ IF r.state = "shutdown" THEN Fail(c) ELSE GoMove(c, Capture(r), "respond")
     /\ UNCHANGED <<row, Others>>

\* The wake word: activate reads the session again.
HearWake(c) ==
  LET r == row[req[c].sid]
  IN /\ Heard(c)
     /\ req[c].copy.mode = "wake_word"
     /\ IF r.state = "shutdown" THEN Fail(c) ELSE Go(c, "activate", "wakeconfig", r)
     /\ UNCHANGED <<row, Others>>

\* last_wake_activation_at is saved; the wake word may come with a command.
WakeConfig(c) ==
  LET s == req[c].sid
      copy == req[c].copy
  IN /\ req[c].at = "wakeconfig"
     /\ Write(s, Configuration(row[s], copy))
     /\ Finish(c, copy) \/ Go(c, "touch", "process", copy)
     /\ UNCHANGED Others

\* A typed turn, or speech in an active session.
HearCommand(c) ==
  /\ Heard(c)
  /\ Go(c, "touch", "process", req[c].copy)
  /\ UNCHANGED <<row, Others>>

\* touch_activity: the deadline of the instance is renewed and saved.
Touch(c) ==
  LET s == req[c].sid
      copy == req[c].copy
      r == IF copy.mode = "active" /\ copy.state # "shutdown"
           THEN [copy EXCEPT !.exp = clock + Timeout] ELSE copy
  IN /\ req[c].at = "touch"
     /\ Write(s, [row[s] EXCEPT !.exp = r.exp])
     /\ IF req[c].next = "process" THEN GoMove(c, "processing", "agent")
                                   ELSE Go(c, "act", "idle", r)
     /\ UNCHANGED Others

\* The answer is recorded, and the session read again.
AgentAnswers(c) ==
  /\ req[c].at = "agent"
  /\ Go(c, "touch", "act", row[req[c].sid])
  /\ UNCHANGED <<row, Others>>

\* Recording it (the transcript, the memory, the turn count) is outside the try: what
\* it raises leaves the session as it is.
AnswerRaises(c) ==
  /\ req[c].at = "agent"
  /\ raised' = raised \cup {req[c].sid}
  /\ Fail(c)
  /\ UNCHANGED <<row, choice, clock, counters, off>>

\* Fault: the session is not moved when the turn fails.
AgentFailsSilently(c) ==
  /\ req[c].at = "agent"
  /\ Fail(c)
  /\ UNCHANGED <<row, Others>>

AgentFails(c) ==
  /\ req[c].at = "agent"
  /\ GoMove(c, "error", "idle")
  /\ UNCHANGED <<row, Others>>

\* The command asked for a voice action; each reads the session again.
Act(c) ==
  LET r == row[req[c].sid]
  IN /\ req[c].at = "act"
     /\ \/ Go(c, "shutdown", "idle", r)
        \/ IF r.state = "shutdown" THEN Go(c, "reply", "idle", r) ELSE Go(c, "disable", "reply", r)
        \/ IF r.state = "shutdown" THEN Fail(c) ELSE Go(c, "activate", "reply", r)
     /\ UNCHANGED <<row, Others>>

\* Otherwise capture resumes in the mode of the instance that was touched.
ActCapture(c) ==
  /\ req[c].at = "act"
  /\ GoMove(c, Capture(req[c].copy), "reply")
  /\ UNCHANGED <<row, Others>>

-----------------------------------------------------------------------------
(* Speech output: SynthesisService *)

\* The turn's answer is spoken if auto_speak says so (a View follows).
Reply(c) ==
  /\ req[c].at = "reply"
  /\ \/ Fail(c)
     \/ /\ row[req[c].sid].state # "shutdown"
        /\ spoken < MaxSpeech
        /\ GoMove(c, "speaking", "speech")
  /\ UNCHANGED <<row, Others>>

SpeakRead(c, s) ==
  /\ Running(s)
  /\ spoken < MaxSpeech
  /\ Accept(c, Moving("moveread", s, "speaking", "speech", NoRow))
  /\ UNCHANGED <<row, Others>>

\* The record is created and named in the configuration of the moved instance.
SpeechConfig(c) ==
  LET s == req[c].sid
  IN /\ req[c].at = "speech"
     /\ spoken < MaxSpeech
     /\ spoken' = spoken + 1
     /\ Write(s, Configuration(row[s], [req[c].copy EXCEPT !.synth = spoken']))
     /\ Go(c, "provider", "idle", NoRow)
     /\ UNCHANGED <<choice, clock, starts, crashes, clears, off, raised>>

\* The browser speaks itself; a provider's audio is stored.
SpeechReady(c) ==
  /\ req[c].at = "provider"
  /\ Fail(c)
  /\ UNCHANGED <<row, Others>>

SpeechFails(c) ==
  /\ req[c].at = "provider"
  /\ Go(c, "speechclear", "idle", row[req[c].sid])
  /\ UNCHANGED <<row, Others>>

SpeechClear(c) ==
  LET s == req[c].sid
      copy == req[c].copy
  IN /\ req[c].at = "speechclear"
     /\ Write(s, Configuration(row[s], [copy EXCEPT !.synth = 0]))
     /\ GoMove(c, Capture(copy), "idle")
     /\ UNCHANGED Others

\* Fault: the callback of a replaced utterance is not told from the current one.
CompleteReadAny(c, s) ==
  /\ Running(s)
  /\ \E id \in 0..spoken :
       Accept(c, [Serve("complete", s, "idle", row[s]) EXCEPT !.id = id])
  /\ UNCHANGED <<row, Others>>

\* complete_playback: a callback that names another utterance is ignored.
CompleteRead(c, s) ==
  /\ Running(s)
  /\ \E id \in 0..spoken :
       /\ id = 0 \/ row[s].synth \in {0, id}
       /\ Accept(c, [Serve("complete", s, "idle", row[s]) EXCEPT !.id = id])
  /\ UNCHANGED <<row, Others>>

\* The configuration is saved first; transition(), in the same transaction, reads
\* the session again and saves all of it.
CompleteSave(c) ==
  LET s == req[c].sid
      copy == req[c].copy
      base == Configuration(row[s], [copy EXCEPT !.synth = 0])
      r == Transitioned(base, Capture(copy))
  IN /\ req[c].at = "complete"
     /\ IF copy.state = "speaking"
        THEN Write(s, r) /\ Finish(c, r)
        ELSE Write(s, base) /\ Finish(c, copy)
     /\ UNCHANGED Others

-----------------------------------------------------------------------------
(* Recorded audio: TranscriptService.transcribe_upload *)

\* The session is moved to processing whatever its state.
UploadRead(c, s) ==
  /\ ServerSTT
  /\ Exists(s)
  /\ Accept(c, Moving("moveread", s, "processing", "stt", NoRow))
  /\ UNCHANGED <<row, Others>>

SttFails(c) ==
  /\ req[c].at = "stt"
  /\ GoMove(c, "error", "idle")
  /\ UNCHANGED <<row, Others>>

\* The text goes through ingest, which reads the session again.
SttHears(c) ==
  /\ req[c].at = "stt"
  /\ Go(c, "window", "idle", row[req[c].sid])
  /\ UNCHANGED <<row, Others>>

-----------------------------------------------------------------------------

\* The process that serves the request dies between two transactions.
Crash(c) ==
  /\ req[c].at # "idle"
  /\ crashes < MaxCrashes
  /\ crashes' = crashes + 1
  /\ Fail(c)
  /\ UNCHANGED <<row, choice, clock, starts, spoken, clears, off, raised>>

\* The requests that move a session ...
MoveArrives(c, s) ==
  GreetRead(c, s) \/ ReportRead(c, s) \/ DisableRead(c, s) \/ ShutdownRead(c, s) \/ View(c, s)

\* ... and those that carry speech: a turn, typed or recorded, its answer spoken and
\* played to the end, and the activation by voice.
SpeechArrives(c, s) ==
  \/ IngestRead(c, s) \/ UploadRead(c, s) \/ SpeakRead(c, s) \/ CompleteRead(c, s)
  \/ ActivateRead(c, s)

Arrive(c) ==
  \/ Start(c) \/ RuntimeRead(c) \/ ProfileRead(c)
  \/ \E s \in Sessions : MoveArrives(c, s) \/ SpeechArrives(c, s)

\* A read of a session that is gone finds nothing, and a save of some of its columns
\* updates nothing: both raise.
Lost(c) == req[c].sid # None /\ row[req[c].sid].state = "gone"

NotFound(c) ==
  /\ Lost(c)
  /\ req[c].at # "move"
  /\ Fail(c)
  /\ UNCHANGED <<row, Others>>

\* The steps that read the session or save some of its columns.
PartStep(c) ==
  \/ RuntimeCreate(c) \/ RuntimeResume(c) \/ GreetSave(c) \/ MoveRead(c)
  \/ ActivateSave(c) \/ DisableSave(c) \/ ProfileSave(c) \/ Respond(c)
  \/ Window(c) \/ Refuse(c) \/ Ignore(c) \/ HearWake(c) \/ WakeConfig(c) \/ HearCommand(c)
  \/ Touch(c) \/ AgentAnswers(c) \/ AnswerRaises(c) \/ AgentFails(c) \/ Act(c) \/ ActCapture(c)
  \/ Reply(c) \/ SpeechConfig(c) \/ SpeechReady(c) \/ SpeechFails(c) \/ SpeechClear(c)
  \/ CompleteSave(c) \/ SttFails(c) \/ SttHears(c)

\* transition() saves the whole row: a session deleted since it was read is inserted again.
Handler(c) == (~Lost(c) /\ PartStep(c)) \/ MoveSave(c) \/ ShutdownSave(c) \/ NotFound(c)

Next ==
  \/ \E c \in Clients : Arrive(c) \/ Handler(c) \/ Crash(c)
  \/ Inactivity
  \/ ClearVoiceData
  \/ Tick

Spec == Init /\ [][Next]_vars

\* A request that is being served is served to its end.
FairSpec == Spec /\ \A c \in Clients : WF_vars(Handler(c))

-----------------------------------------------------------------------------
(* Properties *)

\* Types of the variables.
TypeOK ==
  /\ row \in [Sessions -> Row]
  /\ req \in [Clients -> Request]
  /\ choice \in BOOLEAN
  /\ off \in BOOLEAN
  /\ clock \in Nat
  /\ starts \in 0..MaxStarts
  /\ spoken \in 0..MaxSpeech
  /\ crashes \in 0..MaxCrashes
  /\ clears \in 0..MaxClears
  /\ after \in [Clients -> BOOLEAN]
  /\ raised \subseteq Sessions

\* The mode column mirrors the state, in the listening states and at the end, and
\* a runtime that is shut down is marked completed: whatever the requests that
\* overlap, since every commit writes these columns together.
Mirrors(r) ==
  /\ r.state = "active_session" => r.mode = "active"
  /\ r.state = "wake_word_listening" => r.mode = "wake_word"
  /\ r.state = "shutdown" => r.mode = "wake_word" /\ r.ended
Coherent == \A s \in Sessions : Mirrors(row[s])

\* A session in active mode has a deadline, or it would listen without a wake
\* word until someone stops it (the task and enforce_active_window need one).
ActiveIsBounded ==
  \A s \in Sessions : row[s].mode = "active" => row[s].exp # 0

\* Only an explicit start clears the persisted shutdown choice.
ShutdownPersists == off => choice

\* Opening the workspace never makes a second runtime: those beyond the first
\* were started explicitly.
OneRuntime == Cardinality(Open) <= 1 + starts

\* Shutdown ends a runtime: it never leaves that state.
ShutdownIsFinal ==
  [][\A s \in Sessions : row[s].state = "shutdown" => row'[s].state = "shutdown"]_vars

\* What arrives after a shutdown leaves it alone: whatever other requests overlap, no
\* request that came for a runtime already shut down, except one that uploads a
\* recording, takes it out of that state.
LaterRequestsLeaveShutdown ==
  [][\A c \in Clients, s \in Sessions :
       /\ after[c]
       /\ req[c].sid = s
       /\ req'[c] # req[c]
       /\ row[s].state = "shutdown"
       => row'[s].state = "shutdown"]_vars

\* The callback of a replaced utterance never releases the speaking state while
\* a newer one is active.
NewerAudioHolds ==
  [][\A c \in Clients, s \in Sessions :
       /\ req[c].at = "complete"
       /\ req[c].sid = s
       /\ req'[c] # req[c]
       /\ row[s].state = "speaking"
       /\ row[s].synth \notin {0, req[c].id}
       /\ req[c].id # 0
       => row'[s].state = "speaking"]_vars

\* A turn that reached the agents does not leave the session processing, unless what
\* records its answer raises or a process died.
TurnSettles ==
  \A c \in Clients, s \in Sessions :
    (req[c].at = "agent" /\ req[c].sid = s) ~> (row[s].state # "processing" \/ s \in raised \/ crashes > 0)
=============================================================================
