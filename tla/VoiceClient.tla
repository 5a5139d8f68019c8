---------------------------- MODULE VoiceClient ----------------------------
(***************************************************************************)
(* The voice runtime of the workspace page: the captures of the            *)
(* microphone, the speech it plays, and the asynchronous jobs that talk to *)
(* the server about the voice session the page shows.                      *)
(*                                                                         *)
(* The page has one thread.  What it does between two awaits is one step;  *)
(* a request is sent in the step that issues it, takes effect at the       *)
(* server in a step of its own, and its answer, a snapshot of the session, *)
(* is applied in a third.  Answers of different jobs come back in any      *)
(* order.  A job is an asynchronous function: at most one of each kind is  *)
(* under way here.  VoiceSession details what the server does.             *)
(***************************************************************************)
EXTENDS VoiceStates, Integers, FiniteSets

CONSTANTS
  Captures,    \* bound: captures of the microphone that exist at one time
  Profiles,    \* voice profiles: where speech is recognised and synthesised
  MaxSessions, \* bound: sessions ever created
  Budgets,     \* bounds: turns, and clicks, denials, polls, losses, reloads and ticks together
  None         \* no capture

ASSUME ClientAssumption ==
  /\ IsFiniteSet(Captures)
  /\ Profiles \subseteq [uploads : BOOLEAN, files : BOOLEAN]
  /\ MaxSessions \in Nat \ {0}
  /\ Budgets \subseteq [turns : Nat, events : Nat]
  /\ None \notin Captures

VARIABLES
  page,      \* voiceRuntime, with the captures and utterances it started
  job,       \* where each job of the page is
  stray,     \* requests whose job is gone and that the server may still serve
  server,    \* the newest voice session
  profile,   \* profile.uploads: recorded audio is sent; profile.files: answers are files
  now,       \* time, in units of the inactivity window
  left,      \* what is left of the bounds
  greetings, \* history: greetings spoken in each session
  doubled    \* history: two captures were under way at once

vars == <<page, job, stray, server, profile, now, left, greetings, doubled>>
history == <<greetings, doubled>>

Jobs == {"start", "turn", "expire", "watch", "poll", "report", "activate", "disable", "shutdown"}
Speakers == {"start", "turn", "expire", "watch"}

Session == [id : 0..MaxSessions, state : State, mode : {"wake_word", "active"},
            exp : Nat,         \* active_expires_at, 0 for null
            greeted : BOOLEAN, \* greeted_at is set
            perm : {"unknown", "granted", "denied"}]

NewSession(i) == [id |-> i, state |-> "starting", mode |-> "wake_word", exp |-> 0,
                  greeted |-> FALSE, perm |-> "unknown"]

\* The answer to a turn: ignored, silent, mute (no synthesis), or spoken.
Says == {"none", "ignored", "silent", "mute", "speaks"}

Request == [at : {"idle", "init", "greeted", "speaking", "report", "ask", "sound", "complete",
                  "recover", "refresh", "create", "activate", "disable", "shutdown", "wait"},
            phase : {"none", "sent", "back", "failed"},
            id : 0..MaxSessions, to : State, perm : {"", "granted", "denied"},
            snap : Session, say : Says,
            aborted : BOOLEAN] \* the turn's AbortController was used

Resting(at) == [at |-> at, phase |-> "none", id |-> 0, to |-> "starting", perm |-> "",
                snap |-> NewSession(0), say |-> "none", aborted |-> FALSE]
Idle == Resting("idle")
Sent(at, p) == [Resting(at) EXCEPT !.phase = "sent", !.id = p.id]

\* reportVoiceState: nothing is sent for a session the page knows is shut down.
Report(at, p, t) ==
  IF p.state = "shutdown" THEN [Resting(at) EXCEPT !.id = p.id] ELSE [Sent(at, p) EXCEPT !.to = t]

FreshPage(hidden) ==
  [ready |-> FALSE, clock |-> FALSE, id |-> 0, state |-> "starting", mode |-> "wake_word",
   exp |-> 0, perm |-> "unknown", hidden |-> hidden, timer |-> FALSE,
   processing |-> FALSE, greeting |-> FALSE, rec |-> None, stream |-> None,
   mic |-> [k \in Captures |-> "off"], live |-> {},
   voice |-> [s \in Speakers |-> "quiet"]]

Page == [ready : BOOLEAN, clock : BOOLEAN, id : 0..MaxSessions, state : State,
         mode : {"wake_word", "active"}, exp : Nat,
         perm : {"unknown", "granted", "denied"}, hidden : BOOLEAN, timer : BOOLEAN,
         processing : BOOLEAN, greeting : BOOLEAN,
         rec : Captures \cup {None}, stream : Captures \cup {None},
         mic : [Captures -> {"off", "asking", "activating", "on", "ending"}],
         live : SUBSET Captures, \* microphone tracks that are open
         voice : [Speakers -> {"quiet", "sounds", "over", "cut"}]]

LoadJobs == [j \in Jobs |-> IF j = "start" THEN Sent("init", FreshPage(FALSE)) ELSE Idle]

Init ==
  /\ profile \in Profiles
  /\ page = FreshPage(FALSE)
  /\ job = LoadJobs
  /\ stray = {}
  /\ server = NewSession(1)
  /\ now = 0
  /\ left \in Budgets
  /\ greetings = [i \in 1..MaxSessions |-> 0]
  /\ doubled = FALSE

-----------------------------------------------------------------------------
(* What the page does with its captures and its voice *)

CanCapture(p) ==
  /\ p.state \in {"wake_word_listening", "active_session"}
  /\ ~p.processing
  /\ ~p.greeting

ResumeState(p) == IF p.mode = "active" THEN "active_session" ELSE "wake_word_listening"

\* scheduleCapture
Scheduled(p) == [p EXCEPT !.timer = CanCapture(p) /\ ~p.hidden]

ScheduledIf(cond, p) == IF cond THEN Scheduled(p) ELSE p

\* releaseMicrophone stops the tracks of the stream the page remembers.
Released(p) == [p EXCEPT !.live = @ \ {p.stream}, !.stream = None]

\* stopCapture: the recognition or recorder ends with an event of its own, later.
StopCapture(p) ==
  Released([p EXCEPT !.timer = FALSE, !.rec = None,
                     !.mic = [k \in Captures |-> IF k = p.rec THEN "ending" ELSE @[k]]])

\* stopSpeech: a cancelled utterance ends with an event, a paused file does not.
StopSpeech(p) ==
  [p EXCEPT !.voice = [s \in Speakers |->
     IF @[s] # "sounds" THEN @[s] ELSE IF s = "turn" /\ profile.files THEN "cut" ELSE "over"]]

\* speakWithBrowser, playServerAudio
Speaking(p, s) == [StopSpeech(StopCapture(p)) EXCEPT !.voice[s] = "sounds"]

\* A capture that can be started; captures do not differ, so any one stands for all.
Free(p)  == {k \in Captures : p.mic[k] = "off" /\ k \notin p.live}
Fresh(p) == {k \in Free(p) : k = CHOOSE f \in Free(p) : TRUE}

\* startCapture, up to the wait for the microphone.
Started(p, how) ==
  IF ~CanCapture(p) \/ p.rec # None \/ p.stream # None THEN {p}
  ELSE {[p EXCEPT !.mic[k] = how] : k \in Fresh(p)}

\* applyVoiceSession
Applied(p, s) ==
  [p EXCEPT !.id = s.id, !.state = s.state, !.mode = s.mode, !.exp = s.exp, !.perm = s.perm]

\* An event of those that are bounded together.
Counted == left.events > 0 /\ left' = [left EXCEPT !.events = @ - 1]

Seen(p, q) == IF q.phase = "back" THEN Applied(p, q.snap) ELSE p

-----------------------------------------------------------------------------
(* The server: what each request does to the session it names *)

Capture(r) == IF r.mode = "active" THEN "active_session" ELSE "wake_word_listening"
Waked(r)   == [r EXCEPT !.state = "wake_word_listening", !.mode = "wake_word", !.exp = 0]
Active(r)  == [r EXCEPT !.state = "active_session", !.mode = "active", !.exp = now + 1,
                        !.greeted = TRUE]
Touched(r) == IF r.mode = "active" THEN [r EXCEPT !.exp = now + 1] ELSE r
Down(r)    == [Waked(r) EXCEPT !.state = "shutdown"]

\* enforce_active_window, which every answer goes through.
Kept(r) == IF r.mode = "active" /\ r.exp # 0 /\ r.exp <= now THEN Waked(r) ELSE r

Moved(r, t) ==
  CASE t = "active_session"      -> [r EXCEPT !.state = t, !.mode = "active",
                                       !.exp = IF @ = 0 THEN now + 1 ELSE @]
    [] t = "wake_word_listening" -> Waked(r)
    [] OTHER                     -> [r EXCEPT !.state = t]

\* An answer: refused, or the session as it is now and what is to be said.
Refused(r)  == [ok |-> FALSE, session |-> r, say |-> "none"]
Answer(r)   == [ok |-> TRUE, session |-> Kept(r), say |-> "none"]
Says_(r, w) == [ok |-> TRUE, session |-> Kept(r), say |-> w]

\* A turn is refused, fails, is ignored (it may have been the wake word), or is
\* answered; the command itself may have been about voice.
Turned(r) ==
  IF r.state = "shutdown" THEN {Refused(r)}
  ELSE LET t == Touched(r)
           after == {[t EXCEPT !.state = Capture(t)], Waked(t), Active(t), Down(t)}
       IN {Refused([r EXCEPT !.state = "error"]), Says_([r EXCEPT !.state = Capture(r)], "ignored"),
           Says_(Active(r), "ignored")}
          \cup {Says_(s, w) : s \in after, w \in {"silent", "mute"}}
          \cup {Says_([s EXCEPT !.state = "speaking"], "speaks") : s \in after \ {Down(t)}}

\* The answers the server may give to request q about session r.
Answers(q, r) ==
  CASE q.at \in {"report", "speaking", "recover"} ->
         IF q.to = r.state \/ q.to \in Allowed(r.state)
         THEN {Answer([Moved(r, q.to) EXCEPT !.perm = IF q.perm = "" THEN @ ELSE q.perm])}
         ELSE {Refused(r)}
    [] q.at \in {"init", "refresh"} ->
         {Answer(IF r.state = "starting" THEN [r EXCEPT !.state = "greeting"] ELSE r)}
    [] q.at = "greeted" ->
         IF r.state = "shutdown" THEN {Refused(r)}
         ELSE {Answer([r EXCEPT !.greeted = TRUE,
                                !.state = IF @ \in {"starting", "greeting"}
                                          THEN "wake_word_listening" ELSE @])}
    [] q.at = "ask" -> Turned(r)
    [] q.at = "complete" ->
         {Answer(IF r.state = "speaking" THEN Moved(r, Capture(r)) ELSE r)}
    [] q.at = "activate" -> IF r.state = "shutdown" THEN {Refused(r)} ELSE {Answer(Active(r))}
    [] q.at = "disable"  -> {Answer(IF r.state = "shutdown" THEN r ELSE Waked(r))}
    [] q.at = "shutdown" -> {Answer(Down(r))}

\* The session a request is about: the newest, or an older one, which is shut down.
Named(q) ==
  IF q.at \in {"init", "refresh"} \/ q.id = server.id THEN server
  ELSE Down(NewSession(q.id))

\* POST sessions/ creates a session and clears the shutdown choice.
Outcomes(q) ==
  IF q.at = "create"
  THEN IF server.id < MaxSessions THEN {Answer(NewSession(server.id + 1))} ELSE {Refused(server)}
  ELSE Answers(q, Named(q))

Stored(a) == server' = IF a.session.id = server.id \/ a.session.id > server.id
                       THEN a.session ELSE server

Serve(j) ==
  /\ job[j].phase = "sent"
  /\ \E a \in Outcomes(job[j]) :
       /\ Stored(a)
       /\ job' = [job EXCEPT ![j].phase = IF a.ok THEN "back" ELSE "failed",
                             ![j].snap = IF a.ok THEN a.session ELSE @, ![j].say = a.say]
  /\ UNCHANGED <<page, stray, profile, now, left, history>>

\* A request that nobody waits for any longer is served all the same, or never.
ServeStray(q) ==
  /\ stray' = stray \ {q}
  /\ \E a \in Outcomes(q) : Stored(a)
  /\ UNCHANGED <<page, job, profile, now, left, history>>

\* The request or its answer is lost.
Lose(j) ==
  /\ job[j].phase \in {"sent", "back"}
  /\ Counted
  /\ job' = [job EXCEPT ![j] = [Resting(@.at) EXCEPT !.phase = "failed", !.id = job[j].id,
                                                     !.aborted = job[j].aborted]]
  /\ UNCHANGED <<page, stray, server, profile, now, history>>

Tick ==
  /\ server.exp # 0 \/ page.exp # 0
  /\ Counted
  /\ now' = now + 1
  /\ UNCHANGED <<page, job, stray, server, profile, history>>

-----------------------------------------------------------------------------
(* How a job goes on *)

Answered(j, at) == job[j].at = at /\ job[j].phase # "sent"
Failed(j)       == job[j].phase = "failed"

Follow(j, q, p) == page' = p /\ job' = [job EXCEPT ![j] = q]

\* Fault: a session that is shut down leaves the turn before its finally clause.
EndedUnlessShut(j, p) == IF j = "turn" /\ p.state # "shutdown" THEN [p EXCEPT !.processing = FALSE] ELSE p

\* The end of a job; the turn's finally clears `processing'.
Ended(j, p) ==
  IF j # "turn" THEN p
  ELSE [(IF profile.uploads THEN Released(p) ELSE p) EXCEPT !.processing = FALSE]

\* recoverCaptureState
Recover(j, p) ==
  IF p.state = "shutdown" THEN Follow(j, Idle, Ended(j, p))
                          ELSE Follow(j, Report("recover", p, ResumeState(p)), p)

Rest == <<server, profile, now>>

Recovered(j) ==
  /\ Answered(j, "recover")
  /\ Follow(j, Idle, Ended(j, Scheduled(Seen(page, job[j]))))
  /\ UNCHANGED <<stray, Rest, left, history>>

\* The utterance ended, failed or was cancelled: its finish handler runs.
SpeechOver(j) ==
  LET p == [page EXCEPT !.voice[j] = "quiet", !.greeting = IF j = "start" THEN FALSE ELSE @]
  IN /\ job[j].at = "sound"
     /\ page.voice[j] \in {"sounds", "over"}
     /\ IF p.state = "shutdown" THEN Follow(j, Idle, Ended(j, p))
                                ELSE Follow(j, Sent("complete", p), p)
     /\ UNCHANGED <<stray, Rest, left, history>>

\* completeSpeechPlayback
Completed(j) ==
  LET p == Seen(page, job[j])
  IN /\ Answered(j, "complete")
     /\ IF Failed(j) THEN Recover(j, page)
        ELSE Follow(j, Idle, Ended(j, ScheduledIf(p.perm = "granted" /\ CanCapture(p), p)))
     /\ UNCHANGED <<stray, Rest, left, history>>

-----------------------------------------------------------------------------
(* Loading the page, and the greeting *)

\* initializeVoice
InitAnswered ==
  LET r == job["start"].snap
      p == [Applied(page, r) EXCEPT !.ready = TRUE]
  IN /\ Answered("start", "init")
     /\ IF Failed("start") THEN Follow("start", Idle, page)
        ELSE IF r.state = "greeting" /\ ~r.greeted
        THEN Follow("start", Sent("greeted", p), [p EXCEPT !.greeting = TRUE])
        ELSE Follow("start", Idle,
                    [ScheduledIf(p.perm = "granted" /\ CanCapture(p), p) EXCEPT !.clock = TRUE])
     /\ UNCHANGED <<stray, Rest, left, history>>

\* Fault: the greeting is spoken at once when its marker could not be stored.
GreetedAnyhow ==
  LET p == StopCapture(Seen(page, job["start"]))
  IN /\ Answered("start", "greeted")
     /\ Follow("start", IF Failed("start") THEN [Resting("speaking") EXCEPT !.id = p.id]
                         ELSE Report("speaking", p, "speaking"), p)
     /\ UNCHANGED <<stray, Rest, left, history>>

\* speakStartupGreeting: the marker is stored before a word is spoken.
GreetedAnswered ==
  LET p == StopCapture(Seen(page, job["start"]))
  IN /\ Answered("start", "greeted")
     /\ IF Failed("start") THEN Follow("start", Idle, [page EXCEPT !.greeting = FALSE])
        ELSE Follow("start", Report("speaking", p, "speaking"), p)
     /\ UNCHANGED <<stray, Rest, left, history>>

Greet ==
  LET p == Seen(page, job["start"])
  IN /\ Answered("start", "speaking")
     /\ Follow("start", Resting("sound"), [p EXCEPT !.voice["start"] = "sounds", !.clock = TRUE])
     /\ greetings' = [greetings EXCEPT ![job["start"].id] = @ + 1]
     /\ UNCHANGED <<stray, Rest, left, doubled>>

\* The page is loaded again: its jobs are gone, what they sent is not.
Reload ==
  /\ Counted
  /\ page' = FreshPage(page.hidden)
  /\ job' = LoadJobs
  /\ stray' = stray \cup {job[j] : j \in {i \in Jobs : job[i].phase = "sent"}}
  /\ UNCHANGED <<Rest, history>>

-----------------------------------------------------------------------------
(* Capturing speech *)

Begun(p) == doubled' = (doubled \/ Cardinality({k \in Captures : p.mic[k] # "off"}) > 1)

FireTimer ==
  /\ page.timer
  /\ page' \in Started([page EXCEPT !.timer = FALSE], "asking")
  /\ Begun(page')
  /\ UNCHANGED <<job, stray, Rest, left, greetings>>

Asking(k) == page.mic[k] \in {"asking", "activating"} /\ job["report"] = Idle

\* Fault: whether the page may still listen is not looked at after the wait.
GrantedAtOnce(k) ==
  LET p == [page EXCEPT !.perm = "granted", !.stream = k, !.live = @ \cup {k}]
  IN /\ Asking(k)
     /\ Follow("report", [Report("report", p, p.state) EXCEPT !.perm = "granted"],
               [p EXCEPT !.rec = k, !.mic[k] = "on"])
     /\ UNCHANGED <<stray, Rest, left, history>>

\* requestMicrophone succeeds: startCapture looks again whether it may listen.
Granted(k) ==
  LET p == [page EXCEPT !.perm = "granted", !.stream = k, !.live = @ \cup {k}]
  IN /\ Asking(k)
     /\ Follow("report", [Report("report", p, p.state) EXCEPT !.perm = "granted"],
               IF CanCapture(p) THEN [p EXCEPT !.rec = k, !.mic[k] = "on"]
                                ELSE Released([p EXCEPT !.mic[k] = "off"]))
     /\ UNCHANGED <<stray, Rest, left, history>>

\* It fails: the timer's caller tries again, the user's click does not.
Denied(k) ==
  LET p == [page EXCEPT !.perm = "denied", !.mic[k] = "off"]
  IN /\ Asking(k)
     /\ Follow("report", [Report("report", p, "error") EXCEPT !.perm = "denied"],
               ScheduledIf(page.mic[k] = "asking" /\ CanCapture(p), p))
     /\ Counted
     /\ UNCHANGED <<stray, Rest, history>>

ReportSeen ==
  /\ Answered("report", "report")
  /\ Follow("report", Idle, Seen(page, job["report"]))
  /\ UNCHANGED <<stray, Rest, left, history>>

\* submitVoiceTranscript, submitRecordedAudio: `p' is the page that submits.
BeginTurn(p) ==
  /\ left.turns > 0
  /\ left' = [left EXCEPT !.turns = @ - 1]
  /\ Follow("turn", Report("report", p, "processing"), [p EXCEPT !.processing = TRUE])

NoTurn(p) == page' = p /\ UNCHANGED <<job, left>>

\* recognition.onresult: without the wake word nothing is submitted.
Heard(k) ==
  LET p == Released([page EXCEPT !.rec = None, !.mic[k] = "off"])
  IN /\ ~profile.uploads
     /\ page.mic[k] = "on"
     /\ IF p.processing THEN NoTurn(p)
        ELSE \/ NoTurn(Scheduled(p))
             \/ BeginTurn(StopCapture(p))
     /\ UNCHANGED <<stray, Rest, history>>

\* recognition.onend without a result, of a recognition that was stopped or not.
RecognitionOver(k) ==
  LET p == Released([page EXCEPT !.rec = IF @ = k THEN None ELSE @, !.mic[k] = "off"])
  IN /\ ~profile.uploads
     /\ page.mic[k] \in {"on", "ending"}
     /\ page' = ScheduledIf(CanCapture(p), p)
     /\ UNCHANGED <<job, stray, Rest, left, history>>

\* recognition.onerror: not allowed.
RecognitionDenied(k) ==
  LET p == StopCapture([page EXCEPT !.perm = "denied", !.mic[k] = "ending"])
  IN /\ ~profile.uploads
     /\ page.mic[k] = "on"
     /\ job["report"] = Idle
     /\ Follow("report", [Report("report", p, "error") EXCEPT !.perm = "denied"], p)
     /\ Counted
     /\ UNCHANGED <<stray, Rest, history>>

\* recorder.onstop: what was heard is uploaded, whoever stopped the recorder.
RecordingOver(k) ==
  LET p == Released([page EXCEPT !.rec = None, !.mic[k] = "off"])
  IN /\ profile.uploads
     /\ page.mic[k] \in {"on", "ending"}
     /\ \/ NoTurn(Scheduled(p))
        \/ ~p.processing /\ BeginTurn(p)
     /\ UNCHANGED <<stray, Rest, history>>

\* recorder.onerror; onstop follows.
RecordingFails(k) ==
  /\ profile.uploads
  /\ page.mic[k] = "on"
  /\ page' = Scheduled(Released([page EXCEPT !.mic[k] = "ending"]))
  /\ UNCHANGED <<job, stray, Rest, left, history>>

-----------------------------------------------------------------------------
(* A turn *)

\* "processing" was reported; a failure is fatal for a transcript and ignored for
\* a recording (typed text is a transcript under either profile).
TurnReported ==
  LET p == Seen(page, job["turn"])
  IN /\ Answered("turn", "report")
     /\ \/ Failed("turn") /\ Recover("turn", page)
        \/ /\ Failed("turn") => profile.uploads
           /\ IF job["turn"].aborted THEN Follow("turn", Idle, Ended("turn", p))
                                     ELSE Follow("turn", Sent("ask", p), p)
     /\ UNCHANGED <<stray, Rest, left, history>>

\* deliverVoiceResponse; an operation it started is watched.
TurnAnswered ==
  LET q == job["turn"]
      p == Seen(page, q)
      Go(next, pp) ==
        /\ page' = pp
        /\ \E w \in {job["watch"]} \cup (IF job["watch"] = Idle THEN {Resting("wait")} ELSE {}) :
             job' = [job EXCEPT !["turn"] = next, !["watch"] = w]
  IN /\ Answered("turn", "ask")
     /\ IF Failed("turn") THEN Recover("turn", page)
        ELSE IF q.say \in {"ignored", "mute"} THEN Recover("turn", p)
        ELSE IF q.say = "silent" \/ p.state = "shutdown" THEN Go(Idle, Ended("turn", Scheduled(p)))
        ELSE Go(Resting("sound"), Speaking(p, "turn"))
     /\ UNCHANGED <<stray, Rest, left, history>>

\* watchComputerUseOperation: the operation has ended, and may be spoken about.
WatchEnds ==
  /\ job["watch"].at = "wait"
  /\ \/ Follow("watch", Idle, page)
     \/ /\ page.state # "shutdown"
        /\ Follow("watch", Resting("sound"), Speaking(page, "watch"))
  /\ UNCHANGED <<stray, Rest, left, history>>

-----------------------------------------------------------------------------
(* The clocks of the page *)

Expire ==
  /\ page.clock
  /\ page.mode = "active" /\ page.exp # 0 /\ page.exp <= now
  /\ job["expire"] = Idle
  /\ Follow("expire", Sent("refresh", page), page)
  /\ UNCHANGED <<stray, Rest, left, history>>

\* A session that fell back to its wake word is announced.
ExpireSeen ==
  LET p == Seen(page, job["expire"])
  IN /\ Answered("expire", "refresh")
     /\ IF Failed("expire") THEN Follow("expire", Idle, page)
        ELSE IF p.id = job["expire"].id /\ p.state = "wake_word_listening"
        THEN Follow("expire", Report("speaking", p, "speaking"), p)
        ELSE Follow("expire", Idle, Scheduled(p))
     /\ UNCHANGED <<stray, Rest, left, history>>

Announce ==
  /\ Answered("expire", "speaking")
  /\ Follow("expire", Resting("sound"), Speaking(Seen(page, job["expire"]), "expire"))
  /\ UNCHANGED <<stray, Rest, left, history>>

Poll ==
  /\ page.clock /\ ~page.hidden /\ page.state # "shutdown"
  /\ job["poll"] = Idle
  /\ Counted
  /\ Follow("poll", Sent("refresh", page), page)
  /\ UNCHANGED <<stray, Rest, history>>

PollSeen ==
  /\ Answered("poll", "refresh")
  /\ Follow("poll", Idle, Seen(page, job["poll"]))
  /\ UNCHANGED <<stray, Rest, left, history>>

-----------------------------------------------------------------------------
(* The user *)

\* openVoice after the initialization failed.
OpenVoice ==
  /\ ~page.ready
  /\ job["start"] = Idle
  /\ Counted
  /\ Follow("start", Sent("init", page), page)
  /\ UNCHANGED <<stray, Rest, history>>

Activating(p) ==
  LET q == StopCapture(StopSpeech(p)) IN Follow("activate", Sent("activate", q), q)

\* activateVoice: after a shutdown a fresh session is created first.
Activate ==
  /\ page.ready
  /\ job["activate"] = Idle
  /\ Counted
  /\ IF page.state = "shutdown" THEN Follow("activate", Sent("refresh", page), page)
                                ELSE Activating(page)
  /\ UNCHANGED <<stray, Rest, history>>

ActivateSeen ==
  LET p == Seen(page, job["activate"])
  IN /\ Answered("activate", "refresh") \/ Answered("activate", "create")
     /\ IF Failed("activate") THEN Follow("activate", Idle, page)
        ELSE IF p.state = "shutdown" THEN Follow("activate", Sent("create", p), p)
        ELSE Activating(p)
     /\ UNCHANGED <<stray, Rest, left, history>>

Activated ==
  /\ Answered("activate", "activate")
  /\ IF Failed("activate") THEN Follow("activate", Idle, page) /\ UNCHANGED doubled
     ELSE /\ page' \in Started(Seen(page, job["activate"]), "activating")
          /\ Begun(page')
          /\ job' = [job EXCEPT !["activate"] = Idle]
  /\ UNCHANGED <<stray, Rest, left, greetings>>

\* requestController.abort(): the answer to the turn will not be read.
Interrupt(j) ==
  LET q    == job["turn"]
      p    == StopCapture(StopSpeech(page))
      next == CASE q.at = "ask" -> Idle [] q.at = "report" -> [q EXCEPT !.aborted = TRUE] [] OTHER -> q
  IN /\ page' = IF q.at = "ask" THEN Ended("turn", p) ELSE p
     /\ job' = [job EXCEPT !["turn"] = next, ![j] = Sent(j, p)]
     /\ stray' = IF q.at = "ask" /\ q.phase = "sent" THEN stray \cup {q} ELSE stray

\* disableVoice
Disable ==
  /\ page.ready
  /\ page.state # "shutdown"
  /\ job["disable"] = Idle
  /\ Counted
  /\ Interrupt("disable")
  /\ UNCHANGED <<Rest, history>>

Disabled ==
  LET p == Seen(page, job["disable"])
  IN /\ Answered("disable", "disable")
     /\ Follow("disable", Idle,
               IF Failed("disable") THEN page ELSE ScheduledIf(p.perm = "granted", p))
     /\ UNCHANGED <<stray, Rest, left, history>>

\* shutdownVoice
Shutdown ==
  /\ page.ready
  /\ job["shutdown"] = Idle
  /\ Counted
  /\ Interrupt("shutdown")
  /\ UNCHANGED <<Rest, history>>

ShutDown ==
  /\ Answered("shutdown", "shutdown")
  /\ Follow("shutdown", Idle, Seen(page, job["shutdown"]))
  /\ UNCHANGED <<stray, Rest, left, history>>

\* The text form submits like speech, without the wake word.
Typed ==
  /\ page.ready
  /\ ~page.processing
  /\ BeginTurn(StopCapture(page))
  /\ UNCHANGED <<stray, Rest, history>>

\* visibilitychange
Hide ==
  /\ ~page.hidden
  /\ Counted
  /\ page' = StopCapture([page EXCEPT !.hidden = TRUE])
  /\ UNCHANGED <<job, stray, Rest, history>>

Show ==
  /\ page.hidden
  /\ page' = LET p == [page EXCEPT !.hidden = FALSE] IN ScheduledIf(CanCapture(p), p)
  /\ UNCHANGED <<job, stray, Rest, left, history>>

-----------------------------------------------------------------------------

Resume(j) ==
  CASE j = "start"    -> InitAnswered \/ GreetedAnswered \/ Greet
    [] j = "turn"     -> TurnReported \/ TurnAnswered
    [] j = "expire"   -> ExpireSeen \/ Announce
    [] j = "watch"    -> WatchEnds
    [] j = "poll"     -> PollSeen
    [] j = "report"   -> ReportSeen
    [] j = "activate" -> ActivateSeen \/ Activated
    [] j = "disable"  -> Disabled
    [] j = "shutdown" -> ShutDown

JobStep(j) == Serve(j) \/ Resume(j) \/ (j \in Speakers /\ (Recovered(j) \/ SpeechOver(j) \/ Completed(j)))

CaptureStep(k) ==
  \/ Granted(k) \/ Denied(k)
  \/ Heard(k) \/ RecognitionOver(k) \/ RecognitionDenied(k)
  \/ RecordingOver(k) \/ RecordingFails(k)

User == OpenVoice \/ Activate \/ Disable \/ Shutdown \/ Typed \/ Hide \/ Show

Next ==
  \/ \E j \in Jobs : JobStep(j) \/ Lose(j)
  \/ \E q \in stray : ServeStray(q)
  \/ \E k \in Captures : CaptureStep(k)
  \/ FireTimer \/ Expire \/ Poll
  \/ User \/ Reload \/ Tick

Spec == Init /\ [][Next]_vars

\* The requests of a turn are answered or fail, its promises are resumed, and its
\* utterances end.
TurnSpec == Spec /\ WF_vars(JobStep("turn"))

\* So are those of every job; timers fire and the microphone is granted at last.
\* Nobody must speak or click.
FairSpec ==
  /\ Spec
  /\ \A j \in Jobs : WF_vars(JobStep(j))
  /\ \A k \in Captures : WF_vars(Granted(k))
  /\ WF_vars(FireTimer)

-----------------------------------------------------------------------------
(* Properties *)

\* The page, its jobs and the session keep their types.
TypeOK ==
  /\ page \in Page
  /\ job \in [Jobs -> Request]
  /\ stray \subseteq Request
  /\ server \in Session
  /\ profile \in Profiles
  /\ now \in Nat
  /\ left \in [turns : Nat, events : Nat]
  /\ greetings \in [1..MaxSessions -> 0..2]

\* The one-time greeting is never spoken twice in a session, although the page may
\* be loaded again, and answers lost, at any point of it.
GreetedOnce == \A i \in DOMAIN greetings : greetings[i] <= 1

\* Echo does not listen while it works on what it heard, answers it or greets the
\* user, unless two captures were started at once.
DeafWhileAnswering ==
  ~doubled /\ (page.processing \/ page.greeting) => \A k \in Captures : page.mic[k] # "on"

\* Every turn ends, whatever is lost, aborted or shut down on the way, unless the
\* audio file of its answer was paused.
TurnEnds == page.processing ~> (~page.processing \/ page.voice["turn"] = "cut")

\* After an answer listening resumes (docs/VOICE.md:70): a page that may listen
\* does not stay deaf.
MayListen   == page.ready /\ page.perm = "granted" /\ ~page.hidden /\ CanCapture(page)
ListensAgain == MayListen ~> (~MayListen \/ \E k \in Captures : page.mic[k] # "off")

\* Shutdown releases the microphone (docs/VOICE.md:64): once the page shows the
\* session shut down, no track stays open.
ShutdownReleasesMicrophone ==
  page.state = "shutdown" /\ ~doubled => \A k \in page.live : page.mic[k] = "ending"
=============================================================================
