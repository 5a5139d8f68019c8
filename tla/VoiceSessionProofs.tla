------------------------- MODULE VoiceSessionProofs -------------------------
(***************************************************************************)
(* Theorems about VoiceSession, for any number of sessions, of overlapping *)
(* requests and of crashes, and for any bounds.                            *)
(*                                                                         *)
(* The inductive invariant says of every instance of the row, the stored   *)
(* one and those the handlers hold, that it is well formed: a row, whose   *)
(* mode mirrors its state.  A step writes columns of one well-formed       *)
(* instance over another; only the greeting writes the state without the   *)
(* columns that go with a shutdown, so its copy must not be shut down.     *)
(***************************************************************************)
EXTENDS VoiceSession, TLAPS

Good(r) == r \in Row /\ Mirrors(r)

Sessionless == {"idle", "create", "profile"}

GoodRequest(q) ==
  /\ q \in Request
  /\ Mirrors(q.copy)
  /\ q.at \notin Sessionless => q.sid \in Sessions
  /\ q.at = "greet" => q.copy.state # "shutdown"
  /\ q.next # "greet"

Counters ==
  /\ choice \in BOOLEAN
  /\ off \in BOOLEAN
  /\ clock \in Nat
  /\ starts \in 0..MaxStarts
  /\ spoken \in 0..MaxSpeech
  /\ crashes \in 0..MaxCrashes
  /\ clears \in 0..MaxClears
  /\ raised \subseteq Sessions

RequestsInv ==
  /\ req \in [Clients -> Request]
  /\ after \in [Clients -> BOOLEAN]
  /\ \A c \in Clients : GoodRequest(req[c])

VoiceInv ==
  /\ row \in [Sessions -> Row]
  /\ \A s \in Sessions : Mirrors(row[s])
  /\ RequestsInv
  /\ Counters

-----------------------------------------------------------------------------
(* What the operations make of well-formed rows *)

LEMMA EmptyIsGood == Good(NoRow) /\ Good(NewRow) /\ Good(Greeting(NewRow))
  BY DEF Good, Mirrors, Row, NoRow, NewRow, Greeting, State

LEMMA ColumnsAreTyped ==
  ASSUME NEW r \in Row
  PROVE  /\ \A v \in State \cup {"absent", "gone"} : [r EXCEPT !.state = v] \in Row
         /\ \A v \in {"wake_word", "active"} : [r EXCEPT !.mode = v] \in Row
         /\ \A v \in Nat : [r EXCEPT !.exp = v] \in Row
         /\ \A v \in BOOLEAN : [r EXCEPT !.ended = v] \in Row
         /\ \A v \in BOOLEAN : [r EXCEPT !.mic = v] \in Row
         /\ \A v \in Nat : [r EXCEPT !.synth = v] \in Row
  BY DEF Row

LEMMA WakedIsGood ==
  ASSUME NEW r, Good(r)
  PROVE  /\ Good(Waked(r))
         /\ Waked(r).state = "wake_word_listening"
<1> DEFINE a == [r EXCEPT !.state = "wake_word_listening"]
           b == [a EXCEPT !.mode = "wake_word"]
<1>1. a \in Row /\ a.state = "wake_word_listening"
  BY DEF Good, Row, State
<1>2. b \in Row /\ b.state = "wake_word_listening" /\ b.mode = "wake_word"
  <2> HIDE DEF a
  <2> QED BY <1>1 DEF Row
<1>3. Waked(r) = [b EXCEPT !.exp = 0]
  BY DEF Waked
<1> HIDE DEF b
<1>4. Waked(r) \in Row /\ Waked(r).state = "wake_word_listening" /\ Waked(r).mode = "wake_word"
  BY <1>2, <1>3 DEF Row
<1>5. QED
  BY <1>4 DEF Good, Mirrors

LEMMA ActivatedIsGood ==
  ASSUME NEW r, Good(r), clock \in Nat, Timeout \in Nat
  PROVE  /\ Good(Activated(r))
         /\ Activated(r).state = "active_session"
<1> DEFINE a == [r EXCEPT !.state = "active_session"]
           b == [a EXCEPT !.mode = "active"]
           d == [b EXCEPT !.exp = clock + Timeout]
<1>1. a \in Row /\ a.state = "active_session"
  BY DEF Good, Row, State
<1>2. b \in Row /\ b.state = "active_session" /\ b.mode = "active"
  <2> HIDE DEF a
  <2> QED BY <1>1 DEF Row
<1>3. d \in Row /\ d.state = "active_session" /\ d.mode = "active"
  <2> HIDE DEF b
  <2>1. clock + Timeout \in Nat
    OBVIOUS
  <2> QED BY <1>2, <2>1 DEF Row
<1>4. Activated(r) = [d EXCEPT !.ended = FALSE]
  BY DEF Activated
<1> HIDE DEF d
<1>5. Activated(r) \in Row /\ Activated(r).state = "active_session" /\ Activated(r).mode = "active"
  BY <1>3, <1>4 DEF Row
<1>6. QED
  BY <1>5 DEF Good, Mirrors

LEMMA TransitionedIsGood ==
  ASSUME NEW r, Good(r), NEW t \in State \cup {"absent"}, clock \in Nat, Timeout \in Nat
  PROVE  Good(Transitioned(r, t))
<1>1. CASE t = "active_session"
  <2> DEFINE a == [r EXCEPT !.state = "active_session"]
             b == [a EXCEPT !.mode = "active"]
             e == IF r.exp = 0 THEN clock + Timeout ELSE r.exp
  <2>1. a \in Row /\ a.state = "active_session" /\ a.exp = r.exp
    BY DEF Good, Row, State
  <2>2. b \in Row /\ b.state = "active_session" /\ b.mode = "active" /\ b.exp = r.exp
    <3> HIDE DEF a
    <3> QED BY <2>1 DEF Row
  <2>3. e \in Nat
    BY DEF Good, Row
  <2>4. Transitioned(r, t) = [b EXCEPT !.exp = e]
    BY <1>1 DEF Transitioned
  <2> HIDE DEF b, e
  <2>5. QED
    BY <2>2, <2>3, <2>4 DEF Good, Mirrors, Row
<1>2. CASE t = "wake_word_listening"
  BY <1>2, WakedIsGood DEF Transitioned
<1>3. CASE t = "shutdown"
  <2> DEFINE w == Waked(r)
             a == [w EXCEPT !.state = "shutdown"]
             b == [a EXCEPT !.ended = TRUE]
  <2>1. w \in Row /\ w.mode = "wake_word"
    BY WakedIsGood DEF Good, Mirrors
  <2>2. a \in Row /\ a.state = "shutdown" /\ a.mode = "wake_word"
    <3> HIDE DEF w
    <3> QED BY <2>1 DEF Row, State
  <2>3. b \in Row /\ b.state = "shutdown" /\ b.mode = "wake_word" /\ b.ended
    <3> HIDE DEF a
    <3> QED BY <2>2 DEF Row
  <2>4. Transitioned(r, t) = [b EXCEPT !.mic = FALSE]
    BY <1>3 DEF Transitioned
  <2> HIDE DEF b
  <2>5. QED
    BY <2>3, <2>4 DEF Good, Mirrors, Row
<1>4. CASE t \notin {"active_session", "wake_word_listening", "shutdown"}
  BY <1>4 DEF Good, Mirrors, Row, Transitioned, State
<1>5. QED
  BY <1>1, <1>2, <1>3, <1>4

\* Columns of one row written over another.
LEMMA ColumnsAreGood ==
  ASSUME NEW to, Good(to), NEW from, Good(from)
  PROVE  /\ from.state # "shutdown" => Good(StateAndMode(to, from))
         /\ from.state # "shutdown" => Good(Lifecycle(to, from))
         /\ from.state = "active_session" => Good([Lifecycle(to, from) EXCEPT !.ended = FALSE])
         /\ Good(Configuration(to, from))
         /\ Good([to EXCEPT !.exp = from.exp])
  BY ZenonT(60) DEF Good, Mirrors, Row, State, StateAndMode, Lifecycle, Configuration

LEMMA CaptureIsState ==
  ASSUME NEW r
  PROVE  Capture(r) \in {"active_session", "wake_word_listening"}
  BY DEF Capture

-----------------------------------------------------------------------------
(* Steps of a handler *)

Kept == UNCHANGED row

\* At most one row is replaced, by a well-formed one.
RowStep ==
  \/ Kept
  \/ \E s \in Sessions, r \in Row : Mirrors(r) /\ Write(s, r)

\* One handler's request is replaced by a well-formed one.
ReqStep(c) ==
  /\ \E q : GoodRequest(q) /\ Becomes(c, q)
  /\ after' \in [Clients -> BOOLEAN]

LEMMA StepKeeps ==
  ASSUME VoiceInv, Counters', NEW c \in Clients, ReqStep(c), RowStep
  PROVE  VoiceInv'
<1>1. RequestsInv'
  <2>1. PICK q : GoodRequest(q) /\ req' = [req EXCEPT ![c] = q]
    BY DEF ReqStep, Becomes
  <2>2. req' \in [Clients -> Request] /\ after' \in [Clients -> BOOLEAN]
    BY <2>1 DEF ReqStep, VoiceInv, RequestsInv, GoodRequest
  <2>3. ASSUME NEW x \in Clients
        PROVE  GoodRequest(req'[x])
    BY <2>1 DEF VoiceInv, RequestsInv
  <2>4. QED
    BY <2>2, <2>3 DEF RequestsInv, GoodRequest
<1>2. CASE Kept
  BY <1>1, <1>2 DEF VoiceInv, Kept, Mirrors
<1>3. ASSUME NEW s \in Sessions, NEW r \in Row, Mirrors(r), Write(s, r)
      PROVE  VoiceInv'
  <2>1. row' = [row EXCEPT ![s] = r]
    BY <1>3 DEF Write
  <2>2. row' \in [Sessions -> Row] /\ \A x \in Sessions : Mirrors(row'[x])
    BY <2>1, <1>3 DEF VoiceInv
  <2>3. QED
    BY <1>1, <2>2 DEF VoiceInv, Mirrors
<1>4. QED
  BY <1>2, <1>3 DEF RowStep

LEMMA GoodRow ==
  ASSUME VoiceInv, NEW s \in Sessions
  PROVE  Good(row[s])
  BY DEF VoiceInv, Good

LEMMA GoodCopy ==
  ASSUME VoiceInv, NEW c \in Clients
  PROVE  /\ req[c] \in Request
         /\ Good(req[c].copy)
         /\ req[c].next \in Step \ {"greet"}
         /\ req[c].to \in State \cup {"absent"}
         /\ req[c].at \notin Sessionless => req[c].sid \in Sessions
         /\ req[c].at = "greet" => req[c].copy.state # "shutdown"
  BY DEF VoiceInv, RequestsInv, GoodRequest, Good, Request

LEMMA ServeIsGood ==
  ASSUME NEW at \in Step, NEW s \in Sessions \cup {None}, NEW next \in Step \ {"greet"}, NEW r,
         Good(r), at \notin Sessionless => s \in Sessions, at = "greet" => r.state # "shutdown"
  PROVE  /\ GoodRequest(Serve(at, s, next, r))
         /\ \A t \in State \cup {"absent"} : GoodRequest(Moving(at, s, t, next, r))
         /\ \A id \in Nat : GoodRequest([Serve(at, s, next, r) EXCEPT !.id = id])
         /\ \A b \in BOOLEAN : GoodRequest([Serve(at, s, next, r) EXCEPT !.seen = b])
<1> DEFINE q == Serve(at, s, next, r)
<1>1. q \in Request /\ q.at = at /\ q.sid = s /\ q.next = next /\ q.copy = r
  BY DEF Serve, Request, Good
<1>2. \A t \in State \cup {"absent"} : Moving(at, s, t, next, r) = [q EXCEPT !.to = t]
  BY DEF Moving
<1> HIDE DEF q
<1>3. GoodRequest(q)
  BY <1>1 DEF GoodRequest, Good
<1>4. \A t \in State \cup {"absent"} : GoodRequest([q EXCEPT !.to = t])
  BY <1>1 DEF GoodRequest, Good, Request
<1>5. \A id \in Nat : GoodRequest([q EXCEPT !.id = id])
  BY <1>1 DEF GoodRequest, Good, Request
<1>6. \A b \in BOOLEAN : GoodRequest([q EXCEPT !.seen = b])
  BY <1>1 DEF GoodRequest, Good, Request
<1>7. QED
  BY <1>2, <1>3, <1>4, <1>5, <1>6 DEF q

LEMMA IdleIsGood == GoodRequest(Idle)
<1>1. "idle" \in Step \ {"greet"} /\ "idle" \in Sessionless
  BY DEF Step, Sessionless
<1>2. QED
  BY <1>1, EmptyIsGood, ServeIsGood DEF Idle

LEMMA BecomeIsReqStep ==
  ASSUME VoiceInv, NEW c, NEW q, GoodRequest(q), Become(c, q)
  PROVE  ReqStep(c)
  BY DEF Become, ReqStep, VoiceInv, RequestsInv

LEMMA AcceptIsReqStep ==
  ASSUME VoiceInv, NEW c \in Clients, NEW q, GoodRequest(q), Accept(c, q)
  PROVE  ReqStep(c)
<1>1. after' \in [Clients -> BOOLEAN]
  BY DEF Accept, VoiceInv, RequestsInv
<1>2. QED
  BY <1>1 DEF Accept, ReqStep

\* The ways a handler goes on.
LEMMA FailIsReqStep ==
  ASSUME VoiceInv, NEW c, Fail(c)
  PROVE  ReqStep(c)
  BY IdleIsGood, BecomeIsReqStep DEF Fail

LEMMA GoIsReqStep ==
  ASSUME VoiceInv, NEW c \in Clients, req[c].sid \in Sessions,
         NEW at \in Step \ {"greet"}, NEW next \in Step \ {"greet"}, NEW r, Good(r),
         Go(c, at, next, r)
  PROVE  ReqStep(c)
  BY ServeIsGood, BecomeIsReqStep DEF Go

LEMMA GoMoveIsReqStep ==
  ASSUME VoiceInv, NEW c \in Clients, req[c].sid \in Sessions,
         NEW t \in State \cup {"absent"}, NEW next \in Step \ {"greet"}, GoMove(c, t, next)
  PROVE  ReqStep(c)
<1>1. "moveread" \in Step \ {"greet"}
  BY DEF Step
<1>2. GoodRequest(Moving("moveread", req[c].sid, t, next, NoRow))
  BY <1>1, EmptyIsGood, ServeIsGood
<1>3. QED
  BY <1>2, BecomeIsReqStep DEF GoMove

LEMMA FinishIsReqStep ==
  ASSUME VoiceInv, NEW c \in Clients, req[c].sid \in Sessions, NEW r, Good(r), Finish(c, r)
  PROVE  ReqStep(c)
<1>1. "respond" \in Step \ {"greet"} /\ "idle" \in Step \ {"greet"}
  BY DEF Step
<1>2. QED
  BY <1>1, FailIsReqStep, GoIsReqStep DEF Finish

LEMMA WriteIsRowStep ==
  ASSUME NEW s \in Sessions, NEW r, Good(r), Write(s, r)
  PROVE  RowStep
  BY DEF RowStep, Good

LEMMA BeginIsReqStep ==
  ASSUME VoiceInv, NEW c \in Clients, NEW s \in Sessions, NEW at \in Step,
         NEW next \in Step \ {"greet"}, at = "greet" => row[s].state # "shutdown",
         Begin(c, s, at, next, row[s])
  PROVE  ReqStep(c)
  BY GoodRow, ServeIsGood, AcceptIsReqStep DEF Begin

-----------------------------------------------------------------------------
(* The actions *)

LEMMA Kinds ==
  /\ Step \ {"greet"} = {"idle", "create", "resume", "moveread", "move", "activate", "disable",
       "shutdown", "respond", "window", "heard", "wakeconfig", "touch", "agent", "act",
       "reply", "speech", "provider", "speechclear", "complete", "profile", "stt", "process"}
  /\ {"greet"} \subseteq Step
  BY DEF Step

\* A request arrives: it reads a session, the table or the profile.
LEMMA ArriveKeeps ==
  ASSUME VoiceAssumption, VoiceInv, NEW c \in Clients, Arrive(c)
  PROVE  VoiceInv'
<1> USE Kinds
<1>1. CASE Start(c)
  <2>1. req' = req /\ after' = after /\ Counters'
    <3>1. starts' = starts + 1 /\ starts < MaxStarts /\ starts \in 0..MaxStarts
      BY <1>1 DEF Start, VoiceInv, Counters
    <3>2. starts' \in 0..MaxStarts
      BY <3>1, VoiceAssumption
    <3>3. QED
      BY <1>1, <3>2 DEF Start, served, VoiceInv, Counters
  <2>2. RowStep
    BY <1>1, EmptyIsGood, WriteIsRowStep DEF Start, State
  <2>3. ReqStep(c)
    <3>1. GoodRequest(req[c]) /\ req = [req EXCEPT ![c] = req[c]]
      BY DEF VoiceInv, RequestsInv
    <3>2. QED
      BY <2>1, <3>1 DEF ReqStep, Becomes, VoiceInv, RequestsInv
  <2>4. QED
    BY <2>1, <2>2, <2>3, StepKeeps
<1>2. CASE RuntimeRead(c)
  <2>1. Counters' /\ RowStep
    BY <1>2 DEF RuntimeRead, Others, counters, VoiceInv, Counters, RowStep, Kept
  <2>2. GoodRequest(Serve("create", None, "idle", NoRow))
    <3>1. "create" \in Sessionless
      BY DEF Sessionless
    <3>2. QED
      BY <3>1, EmptyIsGood, ServeIsGood
  <2>3. ReqStep(c)
    <3>1. CASE Begin(c, None, "create", "idle", NoRow)
      BY <3>1, <2>2, AcceptIsReqStep DEF Begin
    <3>2. CASE \E s \in Open : Begin(c, s, "resume", "idle", row[s])
      BY <3>2, BeginIsReqStep DEF Open
    <3>3. QED
      BY <1>2, <3>1, <3>2 DEF RuntimeRead
  <2>4. QED
    BY <2>1, <2>3, StepKeeps
<1>3. CASE ProfileRead(c)
  <2>1. Counters' /\ RowStep /\ choice \in BOOLEAN
    BY <1>3 DEF ProfileRead, Others, counters, VoiceInv, Counters, RowStep, Kept
  <2>2. GoodRequest([Serve("profile", None, "idle", NoRow) EXCEPT !.seen = choice])
    <3>1. "profile" \in Sessionless
      BY DEF Sessionless
    <3>2. QED
      BY <2>1, <3>1, EmptyIsGood, ServeIsGood
  <2>3. QED
    BY <1>3, <2>1, <2>2, AcceptIsReqStep, StepKeeps DEF ProfileRead
<1>4. ASSUME NEW s \in Sessions,
             \/ GreetRead(c, s) \/ ActivateRead(c, s) \/ DisableRead(c, s)
             \/ ShutdownRead(c, s) \/ View(c, s) \/ IngestRead(c, s)
      PROVE  VoiceInv'
  <2>1. Counters' /\ RowStep
    BY <1>4 DEF GreetRead, ActivateRead, DisableRead, ShutdownRead, View, IngestRead,
                Others, counters, VoiceInv, Counters, RowStep, Kept
  <2>2. ReqStep(c)
    BY <1>4, BeginIsReqStep
       DEF GreetRead, ActivateRead, DisableRead, ShutdownRead, View, IngestRead, Running
  <2>3. QED
    BY <2>1, <2>2, StepKeeps
<1>5. ASSUME NEW s \in Sessions, SpeakRead(c, s) \/ UploadRead(c, s)
      PROVE  VoiceInv'
  <2>1. Counters' /\ RowStep
    BY <1>5 DEF SpeakRead, UploadRead, Others, counters, VoiceInv, Counters, RowStep, Kept
  <2>2. GoodRequest(Moving("moveread", s, "speaking", "speech", NoRow))
    BY EmptyIsGood, ServeIsGood DEF State
  <2>3. GoodRequest(Moving("moveread", s, "processing", "stt", NoRow))
    BY EmptyIsGood, ServeIsGood DEF State
  <2>4. QED
    BY <1>5, <2>1, <2>2, <2>3, AcceptIsReqStep, StepKeeps DEF SpeakRead, UploadRead
<1>6. ASSUME NEW s \in Sessions, CompleteRead(c, s)
      PROVE  VoiceInv'
  <2>1. Counters' /\ RowStep /\ spoken \in Nat
    BY <1>6, VoiceAssumption DEF CompleteRead, Others, counters, VoiceInv, Counters, RowStep, Kept
  <2>2. \A id \in Nat : GoodRequest([Serve("complete", s, "idle", row[s]) EXCEPT !.id = id])
    BY GoodRow, ServeIsGood
  <2>3. PICK id \in Nat : Accept(c, [Serve("complete", s, "idle", row[s]) EXCEPT !.id = id])
    BY <1>6, <2>1 DEF CompleteRead
  <2>4. QED
    BY <2>1, <2>2, <2>3, AcceptIsReqStep, StepKeeps
<1>7. ASSUME NEW s \in Sessions, ReportRead(c, s)
      PROVE  VoiceInv'
  <2>1. Counters' /\ RowStep
    BY <1>7 DEF ReportRead, Others, counters, VoiceInv, Counters, RowStep, Kept
  <2>2. PICK t \in Reports \cup {row[s].state}, mic \in {row[s].mic, TRUE, FALSE} :
          Accept(c, Moving("move", s, t, "respond", [row[s] EXCEPT !.mic = mic]))
    BY <1>7 DEF ReportRead
  <2>3. t \in State \cup {"absent"} /\ mic \in BOOLEAN
    BY <1>7, GoodRow, VoiceAssumption, ZenonT(60) DEF Good, Row, ReportRead, Exists
  <2>4. Good([row[s] EXCEPT !.mic = mic])
    BY <2>3, GoodRow DEF Good, Row, Mirrors
  <2>5. GoodRequest(Moving("move", s, t, "respond", [row[s] EXCEPT !.mic = mic]))
    BY <2>3, <2>4, ServeIsGood
  <2>6. QED
    BY <2>1, <2>2, <2>5, AcceptIsReqStep, StepKeeps
<1>8. QED
  BY <1>1, <1>2, <1>3, <1>4, <1>5, <1>6, <1>7 DEF Arrive, MoveArrives, SpeechArrives

\* A handler goes on with the request it serves.
LEMMA HandlerKeeps ==
  ASSUME VoiceAssumption, VoiceInv, NEW c \in Clients, Handler(c)
  PROVE  VoiceInv'
<1> DEFINE s == req[c].sid
           copy == req[c].copy
<1> USE Kinds
<1>0. /\ Good(copy)
      /\ req[c].at \notin Sessionless => s \in Sessions /\ Good(row[s])
      /\ clock \in Nat /\ Timeout \in Nat
  BY GoodCopy, GoodRow, VoiceAssumption DEF VoiceInv, Counters
<1>1. ASSUME UNCHANGED Others
      PROVE  Counters'
  BY <1>1 DEF Others, counters, VoiceInv, Counters
<1>2. UNCHANGED row => RowStep
  BY DEF RowStep, Kept
<1>3. CASE RuntimeCreate(c)
  <2>1. Counters'
    BY <1>3 DEF RuntimeCreate, counters, VoiceInv, Counters
  <2>2. RowStep
    BY <1>3, EmptyIsGood, WriteIsRowStep DEF RuntimeCreate, State
  <2>3. QED
    BY <1>3, <2>1, <2>2, FailIsReqStep, StepKeeps DEF RuntimeCreate
<1>4. CASE RuntimeResume(c)
  <2>1. s \in Sessions /\ Counters' /\ ReqStep(c)
    BY <1>0, <1>1, <1>4, FailIsReqStep DEF RuntimeResume, Sessionless
  <2>2. Good(Lifecycle(row[s], Waked(copy)))
    BY <1>0, <2>1, GoodRow, WakedIsGood, ColumnsAreGood
  <2>3. Good(StateAndMode(row[s], Greeting(copy)))
    <3>1. Greeting(copy).state = "greeting" /\ Good(Greeting(copy))
      BY <1>0 DEF Good, Mirrors, Row, Greeting, State
    <3>2. QED
      BY <2>1, <3>1, GoodRow, ColumnsAreGood
  <2>4. RowStep
    BY <1>4, <2>1, <2>2, <2>3, WriteIsRowStep DEF RuntimeResume, State
  <2>5. QED
    BY <2>1, <2>4, StepKeeps
<1>5. CASE GreetSave(c)
  <2> DEFINE r == IF copy.state \in {"starting", "greeting"}
                  THEN [copy EXCEPT !.state = "wake_word_listening", !.mode = "wake_word"]
                  ELSE copy
  <2>1. s \in Sessions /\ Counters' /\ copy.state # "shutdown"
    BY <1>0, <1>1, <1>5, GoodCopy DEF GreetSave, Sessionless
  <2>2. Good(r) /\ r.state # "shutdown" /\ r.state \in State \cup {"absent", "gone"}
    BY <1>0, <2>1 DEF Good, Mirrors, Row, State
  <2> HIDE DEF r
  <2>3. Good(StateAndMode(row[s], r))
    BY <2>1, <2>2, GoodRow, ColumnsAreGood
  <2>4. Write(s, StateAndMode(row[s], r)) /\ Finish(c, r)
    BY <1>5 DEF GreetSave, r
  <2>5. RowStep /\ ReqStep(c)
    BY <2>1, <2>2, <2>3, <2>4, WriteIsRowStep, FinishIsReqStep
  <2>6. QED
    BY <2>1, <2>5, StepKeeps
<1>6. CASE MoveRead(c)
  <2>1. s \in Sessions /\ Counters' /\ RowStep /\ Good(row[s])
    BY <1>0, <1>1, <1>2, <1>6 DEF MoveRead, Sessionless
  <2>2. GoodRequest(Moving("move", s, req[c].to, req[c].next, row[s]))
    BY <2>1, GoodCopy, ServeIsGood
  <2>3. QED
    BY <1>6, <2>1, <2>2, BecomeIsReqStep, StepKeeps DEF MoveRead
<1>7. CASE MoveSave(c)
  <2> DEFINE r == Transitioned(copy, req[c].to)
  <2>1. s \in Sessions /\ Counters' /\ req[c].to \in State \cup {"absent"}
    BY <1>0, <1>1, <1>7, GoodCopy DEF MoveSave, Sessionless
  <2>2. Good(r)
    BY <1>0, <2>1, TransitionedIsGood
  <2>3. /\ Write(s, r)
        /\ Finish(c, r) \/ Fail(c) \/ Go(c, req[c].next, "idle", r)
    BY <1>7 DEF MoveSave
  <2> HIDE DEF r
  <2>4. RowStep
    BY <2>1, <2>2, <2>3, WriteIsRowStep
  <2>5. ReqStep(c)
    BY <2>1, <2>2, <2>3, GoodCopy, FinishIsReqStep, FailIsReqStep, GoIsReqStep
  <2>6. QED
    BY <2>1, <2>4, <2>5, StepKeeps
<1>8. CASE ActivateSave(c)
  <2> DEFINE r == Activated(copy)
  <2>1. s \in Sessions /\ Counters'
    BY <1>0, <1>1, <1>8 DEF ActivateSave, Sessionless
  <2>2. Good(r) /\ r.state = "active_session"
    BY <1>0, ActivatedIsGood
  <2>3. /\ Write(s, [Lifecycle(row[s], r) EXCEPT !.ended = FALSE])
        /\ Finish(c, r) \/ Go(c, req[c].next, "idle", r)
    BY <1>8 DEF ActivateSave
  <2> HIDE DEF r
  <2>4. RowStep
    BY <2>1, <2>2, <2>3, GoodRow, ColumnsAreGood, WriteIsRowStep DEF State
  <2>5. ReqStep(c)
    BY <2>1, <2>2, <2>3, GoodCopy, FinishIsReqStep, GoIsReqStep
  <2>6. QED
    BY <2>1, <2>4, <2>5, StepKeeps
<1>9. CASE DisableSave(c)
  <2> DEFINE r == Waked(copy)
  <2>1. s \in Sessions /\ Counters'
    BY <1>0, <1>1, <1>9 DEF DisableSave, Sessionless
  <2>2. Good(r) /\ r.state = "wake_word_listening"
    BY <1>0, WakedIsGood
  <2>3. /\ Write(s, Lifecycle(row[s], r))
        /\ Fail(c) \/ Go(c, "reply", "idle", r)
    BY <1>9 DEF DisableSave
  <2> HIDE DEF r
  <2>4. RowStep
    BY <2>1, <2>2, <2>3, GoodRow, ColumnsAreGood, WriteIsRowStep DEF State
  <2>5. ReqStep(c)
    BY <2>1, <2>2, <2>3, FailIsReqStep, GoIsReqStep
  <2>6. QED
    BY <2>1, <2>4, <2>5, StepKeeps
<1>10. CASE ShutdownSave(c)
  <2>1. s \in Sessions /\ Counters'
    BY <1>0, <1>10 DEF ShutdownSave, Sessionless, counters, VoiceInv, Counters
  <2>2. Good(Transitioned(copy, "shutdown"))
    BY <1>0, TransitionedIsGood DEF State
  <2>3. RowStep
    BY <1>2, <1>10, <2>1, <2>2, WriteIsRowStep DEF ShutdownSave, State
  <2>4. QED
    BY <1>10, <2>1, <2>3, FailIsReqStep, StepKeeps DEF ShutdownSave
<1>11. CASE ProfileSave(c)
  <2>1. req[c].seen \in BOOLEAN
    BY GoodCopy DEF Request
  <2>2. Counters'
    BY <1>11, <2>1 DEF ProfileSave, counters, VoiceInv, Counters
  <2>3. QED
    BY <1>2, <1>11, <2>2, FailIsReqStep, StepKeeps DEF ProfileSave
<1>12. CASE Respond(c) \/ Window(c)
  <2> DEFINE r == Waked(copy)
  <2>1. s \in Sessions /\ Counters'
    BY <1>0, <1>1, <1>12 DEF Respond, Window, Sessionless
  <2>2. Good(r) /\ r.state = "wake_word_listening"
    BY <1>0, WakedIsGood
  <2>3. /\ Write(s, Lifecycle(row[s], r)) \/ UNCHANGED row
        /\ Fail(c) \/ Go(c, "heard", "idle", r) \/ Go(c, "heard", "idle", copy)
    BY <1>12 DEF Respond, Window
  <2> HIDE DEF r
  <2>4. RowStep
    BY <1>2, <2>1, <2>2, <2>3, GoodRow, ColumnsAreGood, WriteIsRowStep DEF State
  <2>5. ReqStep(c)
    BY <1>0, <2>1, <2>2, <2>3, FailIsReqStep, GoIsReqStep
  <2>6. QED
    BY <2>1, <2>4, <2>5, StepKeeps
<1>13. CASE Refuse(c) \/ SpeechReady(c) \/ NotFound(c)
  BY <1>1, <1>2, <1>13, FailIsReqStep, StepKeeps DEF Refuse, SpeechReady, NotFound
<1>14. CASE Ignore(c) \/ ActCapture(c) \/ AgentFails(c) \/ SttFails(c)
  <2>1. s \in Sessions /\ Counters' /\ RowStep
    BY <1>0, <1>1, <1>2, <1>14 DEF Ignore, Heard, ActCapture, AgentFails, SttFails, Sessionless
  <2>2. \/ Fail(c)
        \/ \E t \in State, next \in Step \ {"greet"} : GoMove(c, t, next)
    BY <1>14, CaptureIsState DEF Ignore, ActCapture, AgentFails, SttFails, State
  <2>3. QED
    BY <2>1, <2>2, FailIsReqStep, GoMoveIsReqStep, StepKeeps
<1>15. CASE HearWake(c) \/ HearCommand(c) \/ AgentAnswers(c) \/ Act(c) \/ SpeechFails(c) \/ SttHears(c)
  <2>1. s \in Sessions /\ Good(row[s]) /\ Counters' /\ RowStep
    BY <1>0, <1>1, <1>2, <1>15
       DEF HearWake, HearCommand, Heard, AgentAnswers, Act, SpeechFails, SttHears, Sessionless
  <2>2. \/ Fail(c)
        \/ \E at, next \in Step \ {"greet"} : Go(c, at, next, row[s]) \/ Go(c, at, next, copy)
    BY <1>15 DEF HearWake, HearCommand, AgentAnswers, Act, SpeechFails, SttHears
  <2>3. QED
    BY <1>0, <2>1, <2>2, FailIsReqStep, GoIsReqStep, StepKeeps
<1>16. CASE WakeConfig(c)
  <2>1. s \in Sessions /\ Counters'
    BY <1>0, <1>1, <1>16 DEF WakeConfig, Sessionless
  <2>2. Good(Configuration(row[s], copy))
    BY <1>0, <2>1, GoodRow, ColumnsAreGood
  <2>3. RowStep
    BY <1>16, <2>1, <2>2, WriteIsRowStep DEF WakeConfig
  <2>4. ReqStep(c)
    BY <1>0, <1>16, <2>1, FinishIsReqStep, GoIsReqStep DEF WakeConfig
  <2>5. QED
    BY <2>1, <2>3, <2>4, StepKeeps
<1>17. CASE Touch(c)
  <2> DEFINE r == IF copy.mode = "active" /\ copy.state # "shutdown"
                  THEN [copy EXCEPT !.exp = clock + Timeout] ELSE copy
  <2>1. s \in Sessions /\ Counters'
    BY <1>0, <1>1, <1>17 DEF Touch, Sessionless
  <2>2. Good(r)
    <3>1. clock + Timeout \in Nat
      BY <1>0
    <3>2. QED
      BY <1>0, <3>1 DEF Good, Mirrors, Row
  <2>3. /\ Write(s, [row[s] EXCEPT !.exp = r.exp])
        /\ GoMove(c, "processing", "agent") \/ Go(c, "act", "idle", r)
    BY <1>17 DEF Touch
  <2> HIDE DEF r
  <2>4. RowStep
    BY <2>1, <2>2, <2>3, GoodRow, ColumnsAreGood, WriteIsRowStep
  <2>5. ReqStep(c)
    BY <2>1, <2>2, <2>3, GoMoveIsReqStep, GoIsReqStep DEF State
  <2>6. QED
    BY <2>1, <2>4, <2>5, StepKeeps
<1>18. CASE Reply(c)
  <2>1. s \in Sessions /\ Counters' /\ RowStep
    BY <1>0, <1>1, <1>2, <1>18 DEF Reply, Sessionless
  <2>2. Fail(c) \/ GoMove(c, "speaking", "speech")
    BY <1>18 DEF Reply
  <2>3. QED
    BY <2>1, <2>2, FailIsReqStep, GoMoveIsReqStep, StepKeeps DEF State
<1>19. CASE SpeechConfig(c)
  <2> DEFINE r == [copy EXCEPT !.synth = spoken']
  <2>1. s \in Sessions
    BY <1>0, <1>19 DEF SpeechConfig, Sessionless
  <2>2. spoken' \in 0..MaxSpeech /\ spoken' \in Nat
    BY <1>19, VoiceAssumption DEF SpeechConfig, VoiceInv, Counters
  <2>3. Counters'
    BY <1>19, <2>2 DEF SpeechConfig, VoiceInv, Counters
  <2>4. Good(r)
    BY <1>0, <2>2 DEF Good, Mirrors, Row
  <2>5. Write(s, Configuration(row[s], r)) /\ Go(c, "provider", "idle", NoRow)
    BY <1>19 DEF SpeechConfig
  <2> HIDE DEF r
  <2>6. RowStep /\ ReqStep(c)
    BY <2>1, <2>4, <2>5, GoodRow, EmptyIsGood, ColumnsAreGood, WriteIsRowStep, GoIsReqStep
  <2>7. QED
    BY <2>3, <2>6, StepKeeps
<1>20. CASE SpeechClear(c)
  <2> DEFINE r == [copy EXCEPT !.synth = 0]
  <2>1. s \in Sessions /\ Counters'
    BY <1>0, <1>1, <1>20 DEF SpeechClear, Sessionless
  <2>2. Good(r)
    BY <1>0 DEF Good, Mirrors, Row
  <2>3. Write(s, Configuration(row[s], r)) /\ GoMove(c, Capture(copy), "idle")
    BY <1>20 DEF SpeechClear
  <2> HIDE DEF r
  <2>4. Capture(copy) \in State
    BY CaptureIsState DEF State
  <2>5. RowStep /\ ReqStep(c)
    BY <2>1, <2>2, <2>3, <2>4, GoodRow, ColumnsAreGood, WriteIsRowStep, GoMoveIsReqStep
  <2>6. QED
    BY <2>1, <2>5, StepKeeps
<1>21. CASE CompleteSave(c)
  <2> DEFINE q == [copy EXCEPT !.synth = 0]
             base == Configuration(row[s], q)
             r == Transitioned(base, Capture(copy))
  <2>1. s \in Sessions /\ Counters'
    BY <1>0, <1>1, <1>21 DEF CompleteSave, Sessionless
  <2>2. Good(q)
    BY <1>0 DEF Good, Mirrors, Row
  <2>3. Good(base)
    <3> HIDE DEF q
    <3> QED BY <2>1, <2>2, GoodRow, ColumnsAreGood
  <2>4. Capture(copy) \in State
    BY CaptureIsState DEF State
  <2>5. Good(r) /\ r.state \in State \cup {"absent", "gone"}
    <3> HIDE DEF base
    <3>1. Good(r)
      BY <1>0, <2>3, <2>4, TransitionedIsGood
    <3> HIDE DEF r
    <3> QED BY <3>1 DEF Good, Row
  <2>6. \/ Write(s, r) /\ Finish(c, r)
        \/ Write(s, base) /\ Finish(c, copy)
    BY <1>21 DEF CompleteSave
  <2> HIDE DEF r, base
  <2>7. RowStep /\ ReqStep(c)
    BY <1>0, <2>1, <2>3, <2>5, <2>6, WriteIsRowStep, FinishIsReqStep
  <2>8. QED
    BY <2>1, <2>7, StepKeeps
<1>22. CASE AnswerRaises(c)
  <2>1. s \in Sessions
    BY <1>0, <1>22 DEF AnswerRaises, Sessionless
  <2>2. Counters'
    BY <1>22, <2>1 DEF AnswerRaises, counters, VoiceInv, Counters
  <2>3. QED
    BY <1>2, <1>22, <2>2, FailIsReqStep, StepKeeps DEF AnswerRaises
<1>23. QED
  BY <1>3, <1>4, <1>5, <1>6, <1>7, <1>8, <1>9, <1>10, <1>11, <1>12, <1>13, <1>14, <1>15, <1>16,
     <1>17, <1>18, <1>19, <1>20, <1>21, <1>22 DEF Handler, PartStep

LEMMA CrashKeeps ==
  ASSUME VoiceAssumption, VoiceInv, NEW c \in Clients, Crash(c)
  PROVE  VoiceInv'
<1>1. crashes' \in 0..MaxCrashes
  BY VoiceAssumption DEF Crash, VoiceInv, Counters
<1>2. Counters' /\ RowStep
  BY <1>1 DEF Crash, VoiceInv, Counters, RowStep, Kept
<1>3. ReqStep(c)
  BY FailIsReqStep DEF Crash
<1>4. QED
  BY <1>2, <1>3, StepKeeps

\* The periodic task: due sessions leave the active window in one statement.
LEMMA InactivityKeeps ==
  ASSUME VoiceInv, Inactivity
  PROVE  VoiceInv'
<1>1. \A s \in Sessions : Good(row'[s])
  BY GoodRow, WakedIsGood DEF Inactivity
<1>2. row' \in [Sessions -> Row] /\ \A s \in Sessions : Mirrors(row'[s])
  <2>1. PICK f : row' = [s \in Sessions |-> f[s]]
    BY DEF Inactivity
  <2>2. QED
    BY <1>1, <2>1 DEF Good
<1>3. RequestsInv' /\ Counters'
  BY DEF Inactivity, Others, served, counters, VoiceInv, RequestsInv, Counters
<1>4. QED
  BY <1>2, <1>3 DEF VoiceInv, Mirrors

\* Clearing the voice data: what is left of a session is well formed.
LEMMA ClearKeeps ==
  ASSUME VoiceAssumption, VoiceInv, ClearVoiceData
  PROVE  VoiceInv'
<1> DEFINE gone == [NoRow EXCEPT !.state = "gone"]
<1>1. gone \in Row /\ Mirrors(gone)
  BY DEF Row, NoRow, Mirrors
<1>2. \A s \in Sessions : row'[s] = gone \/ row'[s] = row[s]
  BY DEF ClearVoiceData
<1>3. row' = [s \in Sessions |-> row'[s]]
  BY DEF ClearVoiceData
<1> HIDE DEF gone
<1>4. row' \in [Sessions -> Row] /\ \A s \in Sessions : Mirrors(row'[s])
  BY <1>1, <1>2, <1>3 DEF VoiceInv
<1>5. clears' \in 0..MaxClears
  BY VoiceAssumption DEF ClearVoiceData, VoiceInv, Counters
<1>6. RequestsInv' /\ Counters'
  BY <1>5 DEF ClearVoiceData, served, VoiceInv, RequestsInv, Counters
<1>7. QED
  BY <1>4, <1>6 DEF VoiceInv, Mirrors

LEMMA TickKeeps ==
  ASSUME VoiceInv, Tick \/ UNCHANGED vars
  PROVE  VoiceInv'
<1>1. clock' \in Nat
  BY DEF Tick, vars, VoiceInv, Counters
<1>2. QED
  <2>1. row' = row /\ Counters'
    BY <1>1 DEF Tick, vars, counters, VoiceInv, Counters
  <2>2. RequestsInv'
    BY DEF Tick, vars, served, VoiceInv, RequestsInv
  <2>3. QED
    BY <2>1, <2>2 DEF VoiceInv, Mirrors

LEMMA InitIsGood ==
  ASSUME VoiceAssumption, Init
  PROVE  VoiceInv
<1>1. RequestsInv
  BY IdleIsGood DEF Init, RequestsInv, GoodRequest
<1>2. Counters
  <2>1. 0 \in 0..MaxStarts /\ 0 \in 0..MaxSpeech /\ 0 \in 0..MaxCrashes /\ 0 \in 0..MaxClears /\ 0 \in Nat
    BY VoiceAssumption DEF VoiceAssumption
  <2>2. QED
    BY <2>1 DEF Init, Counters
<1>3. row \in [Sessions -> Row] /\ \A s \in Sessions : Mirrors(row[s])
  BY EmptyIsGood DEF Init, Good
<1>4. QED
  BY <1>1, <1>2, <1>3 DEF Init, VoiceInv

LEMMA NextKeeps ==
  ASSUME VoiceAssumption, VoiceInv, [Next]_vars
  PROVE  VoiceInv'
  BY ArriveKeeps, HandlerKeeps, CrashKeeps, InactivityKeeps, ClearKeeps, TickKeeps DEF Next

-----------------------------------------------------------------------------

\* Every variable keeps its type: in particular transition() only ever stores a
\* declared state, whatever copies the overlapping requests hold.
THEOREM VoiceTypeCorrect == Spec => []TypeOK
<1>1. Init => VoiceInv
  BY VoiceAssumption, InitIsGood
<1>2. VoiceInv /\ [Next]_vars => VoiceInv'
  BY VoiceAssumption, NextKeeps
<1>3. VoiceInv => TypeOK
  BY DEF VoiceInv, RequestsInv, Counters, TypeOK
<1>4. QED
  BY <1>1, <1>2, <1>3, PTL DEF Spec

\* No overlap of requests, of the periodic task and of crashes makes the mode
\* column contradict the state, or leaves a shut-down runtime not completed.
THEOREM ModeMirrorsState == Spec => []Coherent
<1>1. Init => VoiceInv
  BY VoiceAssumption, InitIsGood
<1>2. VoiceInv /\ [Next]_vars => VoiceInv'
  BY VoiceAssumption, NextKeeps
<1>3. VoiceInv => Coherent
  BY DEF VoiceInv, Coherent
<1>4. QED
  BY <1>1, <1>2, <1>3, PTL DEF Spec

-----------------------------------------------------------------------------
(* What arrives after a shutdown.  A request knows what it read: such a    *)
(* request, unless it carries a recording, either holds a copy that is     *)
(* shut down and refuses, or writes a row that is shut down.               *)

Late(q) ==
  \/ q.at = "idle"
  \/ q.at \in {"window", "heard", "shutdown"} /\ q.copy.state = "shutdown"
  \/ q.at = "move" /\ q.to = "shutdown" /\ q.next = "respond"

LateInv == VoiceInv /\ \A c \in Clients : after[c] => Late(req[c])

LEMMA ShutdownIsKept ==
  ASSUME NEW r, Good(r)
  PROVE  /\ Transitioned(r, "shutdown").state = "shutdown"
         /\ Transitioned(r, "shutdown").mode = "wake_word"
  BY DEF Transitioned, Waked, Good, Row

\* A request that arrives for a runtime that is shut down.
LEMMA LateArrival ==
  ASSUME VoiceInv, NEW c \in Clients, Arrive(c), after'[c], after[c] => Late(req[c])
  PROVE  Late(req'[c])
<1> DEFINE over(s) == row[s].state = "shutdown"
<1>1. req \in [Clients -> Request] /\ after \in [Clients -> BOOLEAN]
  BY DEF VoiceInv, RequestsInv
<1>2. \A q : Accept(c, q) => /\ req'[c] = q
                             /\ q.sid # None
                             /\ q.next # "stt"
                             /\ over(q.sid)
  BY <1>1 DEF Accept, Becomes
<1>3. \A at, s, next, r : Begin(c, s, at, next, r) =>
        /\ req'[c].at = at /\ req'[c].copy = r
        /\ s # None /\ over(s)
  BY <1>2 DEF Begin, Serve
<1>4. CASE Start(c)
  BY <1>4 DEF Start, served
<1>5. CASE RuntimeRead(c)
  <2>1. ~Begin(c, None, "create", "idle", NoRow)
    BY <1>3
  <2>2. ASSUME NEW s \in Open, Begin(c, s, "resume", "idle", row[s])
        PROVE  FALSE
    BY <1>3, <2>2 DEF Open, Running
  <2>3. QED
    BY <1>5, <2>1, <2>2 DEF RuntimeRead
<1>6. CASE ProfileRead(c)
  <2> DEFINE q == [Serve("profile", None, "idle", NoRow) EXCEPT !.seen = choice]
  <2>1. q.sid = None
    BY DEF Serve
  <2>2. QED
    BY <1>2, <1>6, <2>1 DEF ProfileRead
<1>7. ASSUME NEW s \in Sessions,
             GreetRead(c, s) \/ DisableRead(c, s) \/ ActivateRead(c, s)
      PROVE  FALSE
  BY <1>3, <1>7 DEF GreetRead, DisableRead, ActivateRead, Running
<1>8. ASSUME NEW s \in Sessions, ShutdownRead(c, s) \/ IngestRead(c, s)
      PROVE  Late(req'[c])
  BY <1>3, <1>8 DEF ShutdownRead, IngestRead, Late
<1>9. ASSUME NEW s \in Sessions, View(c, s)
      PROVE  FALSE
  BY <1>3, <1>9 DEF View, VoiceInv, Mirrors
<1>10. ASSUME NEW s \in Sessions, UploadRead(c, s) \/ SpeakRead(c, s)
       PROVE  FALSE
  <2>1. Moving("moveread", s, "processing", "stt", NoRow).next = "stt"
    BY DEF Moving, Serve
  <2>2. Moving("moveread", s, "speaking", "speech", NoRow).sid = s
    BY DEF Moving, Serve
  <2>3. QED
    BY <1>2, <1>10, <2>1, <2>2 DEF UploadRead, SpeakRead, Running
<1>11. ASSUME NEW s \in Sessions, CompleteRead(c, s)
       PROVE  FALSE
  <2>1. \A id : [Serve("complete", s, "idle", row[s]) EXCEPT !.id = id].sid = s
    BY DEF Serve
  <2>2. QED
    BY <1>2, <1>11, <2>1 DEF CompleteRead, Running
<1>12. ASSUME NEW s \in Sessions, ReportRead(c, s)
       PROVE  Late(req'[c])
  <2>1. PICK t \in Reports \cup {row[s].state}, mic \in {row[s].mic, TRUE, FALSE} :
          /\ t = row[s].state \/ t \in Allowed(row[s].state)
          /\ Accept(c, Moving("move", s, t, "respond", [row[s] EXCEPT !.mic = mic]))
    BY <1>12 DEF ReportRead
  <2> DEFINE q == Moving("move", s, t, "respond", [row[s] EXCEPT !.mic = mic])
  <2>2. q.at = "move" /\ q.sid = s /\ q.to = t /\ q.next = "respond"
    BY DEF Moving, Serve
  <2>3. req'[c] = q /\ over(s)
    BY <1>2, <2>1, <2>2
  <2>4. t = "shutdown"
    BY <2>1, <2>3 DEF Allowed
  <2>5. QED
    BY <2>2, <2>3, <2>4 DEF Late
<1>13. QED
  BY <1>4, <1>5, <1>6, <1>7, <1>8, <1>9, <1>10, <1>11, <1>12 DEF Arrive, MoveArrives, SpeechArrives

\* What such a request does next: it refuses, or writes a row that is shut down.
LEMMA LateStep ==
  ASSUME VoiceInv, NEW c \in Clients, Handler(c), Late(req[c])
  PROVE  /\ Late(req'[c])
         /\ \A s \in Sessions : row[s].state = "shutdown" => row'[s].state = "shutdown"
<1> DEFINE q == req[c]
<1>0. /\ Good(q.copy)
      /\ req \in [Clients -> Request]
      /\ row \in [Sessions -> Row]
      /\ q.at \notin Sessionless => q.sid \in Sessions
  BY GoodCopy DEF VoiceInv, RequestsInv
<1>1. Fail(c) => Late(req'[c])
  BY <1>0 DEF Fail, Become, Becomes, Idle, Serve, Late
<1>2. ~Heard(c)
  BY DEF Late, Heard
<1>3. Window(c) \/ Refuse(c) \/ MoveSave(c) \/ ShutdownSave(c) \/ NotFound(c)
  BY <1>2 DEF Late, Handler, PartStep, RuntimeCreate, RuntimeResume, GreetSave, MoveRead,
     ActivateSave, DisableSave, ProfileSave, Respond, Ignore, HearWake, WakeConfig, HearCommand,
     Touch, AgentAnswers, AnswerRaises, AgentFails, Act, ActCapture, Reply, SpeechConfig,
     SpeechReady, SpeechFails, SpeechClear, CompleteSave, SttFails, SttHears
<1>4. CASE Refuse(c) \/ NotFound(c)
  BY <1>1, <1>4 DEF Refuse, NotFound
<1>5. CASE Window(c)
  <2>1. q.copy.state = "shutdown" /\ q.copy.mode = "wake_word"
    BY <1>0, <1>5 DEF Window, Late, Good, Mirrors
  <2>2. ~Expired(q.copy)
    BY <2>1 DEF Expired
  <2>3. row' = row /\ Go(c, "heard", "idle", q.copy)
    BY <1>5, <2>2 DEF Window
  <2>4. req'[c].at = "heard" /\ req'[c].copy = q.copy
    BY <1>0, <2>3 DEF Go, Become, Becomes, Serve
  <2>5. QED
    BY <2>1, <2>3, <2>4 DEF Late
<1>6. CASE MoveSave(c)
  <2> DEFINE r == Transitioned(q.copy, "shutdown")
  <2>1. q.to = "shutdown" /\ q.next = "respond" /\ q.sid \in Sessions
    BY <1>0, <1>6 DEF MoveSave, Late, Sessionless
  <2>2. r.state = "shutdown" /\ r.mode = "wake_word"
    BY <1>0, ShutdownIsKept
  <2>3. Write(q.sid, r) /\ Finish(c, r)
    BY <1>6, <2>1 DEF MoveSave
  <2> HIDE DEF r
  <2>4. Fail(c)
    BY <2>2, <2>3 DEF Finish
  <2>5. QED
    BY <1>0, <1>1, <2>1, <2>2, <2>3, <2>4 DEF Write
<1>7. CASE ShutdownSave(c)
  <2>1. row' = row /\ Fail(c)
    BY <1>7 DEF ShutdownSave, Late
  <2>2. QED
    BY <1>1, <2>1
<1>8. QED
  BY <1>3, <1>4, <1>5, <1>6, <1>7

\* A step of one client leaves the requests of the others alone.
LEMMA OthersWait ==
  ASSUME VoiceInv, NEW c \in Clients, NEW d \in Clients, d # c,
         Arrive(d) \/ Handler(d) \/ Crash(d)
  PROVE  req'[c] = req[c] /\ after'[c] = after[c]
<1>1. req \in [Clients -> Request] /\ after \in [Clients -> BOOLEAN]
  BY DEF VoiceInv, RequestsInv
<1>2. \A q : Become(d, q) \/ Accept(d, q) => req'[c] = req[c] /\ after'[c] = after[c]
  BY <1>1 DEF Become, Becomes, Accept
<1>3. \A at, s, next, r : Begin(d, s, at, next, r) => req'[c] = req[c] /\ after'[c] = after[c]
  BY <1>2 DEF Begin
<1>4. /\ Fail(d) => req'[c] = req[c] /\ after'[c] = after[c]
      /\ \A at, next, r : Go(d, at, next, r) => req'[c] = req[c] /\ after'[c] = after[c]
      /\ \A t, next : GoMove(d, t, next) => req'[c] = req[c] /\ after'[c] = after[c]
  BY <1>2 DEF Fail, Go, GoMove
<1>5. \A r : Finish(d, r) => req'[c] = req[c] /\ after'[c] = after[c]
  BY <1>4 DEF Finish
<1>6. CASE Crash(d)
  BY <1>4, <1>6 DEF Crash
<1>7. CASE Start(d) \/ RuntimeRead(d) \/ ProfileRead(d)
  BY <1>2, <1>3, <1>7 DEF Start, served, RuntimeRead, ProfileRead
<1>8. ASSUME NEW s \in Sessions, MoveArrives(d, s) \/ SpeechArrives(d, s)
      PROVE  req'[c] = req[c] /\ after'[c] = after[c]
  BY <1>2, <1>3, <1>8 DEF MoveArrives, SpeechArrives, GreetRead, ReportRead, DisableRead,
     ShutdownRead, View, IngestRead, UploadRead, SpeakRead, CompleteRead, ActivateRead
<1>9. CASE Handler(d)
  BY <1>2, <1>4, <1>5, <1>9 DEF Handler, PartStep, NotFound, RuntimeCreate, RuntimeResume, GreetSave,
     MoveRead, MoveSave, ActivateSave, DisableSave, ShutdownSave, ProfileSave, Respond, Window,
     Refuse, Ignore, HearWake, WakeConfig, HearCommand, Touch, AgentAnswers, AnswerRaises,
     AgentFails, Act, ActCapture, Reply, SpeechConfig, SpeechReady, SpeechFails, SpeechClear,
     CompleteSave, SttFails, SttHears
<1>10. QED
  BY <1>6, <1>7, <1>8, <1>9 DEF Arrive

\* A handler does not change what is remembered of its request.
LEMMA HandlerRemembers ==
  ASSUME VoiceInv, NEW c \in Clients, Handler(c)
  PROVE  after' = after
<1>1. /\ \A q : Become(c, q) => after' = after
      /\ Fail(c) => after' = after
      /\ \A at, next, r : Go(c, at, next, r) => after' = after
      /\ \A t, next : GoMove(c, t, next) => after' = after
  BY DEF Become, Fail, Go, GoMove
<1>2. \A r : Finish(c, r) => after' = after
  BY <1>1 DEF Finish
<1>3. QED
  BY <1>1, <1>2 DEF Handler, PartStep, NotFound, RuntimeCreate, RuntimeResume, GreetSave,
     MoveRead, MoveSave, ActivateSave, DisableSave, ShutdownSave, ProfileSave, Respond, Window,
     Refuse, Ignore, HearWake, WakeConfig, HearCommand, Touch, AgentAnswers, AnswerRaises,
     AgentFails, Act, ActCapture, Reply, SpeechConfig, SpeechReady, SpeechFails, SpeechClear,
     CompleteSave, SttFails, SttHears

LEMMA LateKeeps ==
  ASSUME VoiceAssumption, LateInv, [Next]_vars
  PROVE  LateInv'
<1>1. VoiceInv'
  BY NextKeeps DEF LateInv
<1>2. ASSUME NEW c \in Clients, after'[c]
      PROVE  Late(req'[c])
  <2>1. VoiceInv /\ (after[c] => Late(req[c]))
    BY DEF LateInv
  <2>2. CASE req' = req /\ after' = after
    BY <1>2, <2>1, <2>2
  <2>3. ASSUME NEW d \in Clients, d # c, Arrive(d) \/ Handler(d) \/ Crash(d)
        PROVE  Late(req'[c])
    BY <1>2, <2>1, <2>3, OthersWait
  <2>4. CASE Arrive(c)
    BY <1>2, <2>1, <2>4, LateArrival
  <2>5. CASE Crash(c)
    BY <2>1, <2>5 DEF Crash, Fail, Become, Becomes, Idle, Serve, Late, VoiceInv, RequestsInv
  <2>6. CASE Handler(c)
    <3>1. after[c]
      BY <1>2, <2>1, <2>6, HandlerRemembers
    <3>2. QED
      BY <2>1, <2>6, <3>1, LateStep
  <2>7. CASE Inactivity \/ ClearVoiceData \/ Tick \/ UNCHANGED vars
    BY <2>2, <2>7 DEF Inactivity, ClearVoiceData, Tick, vars, served
  <2>8. QED
    BY <2>3, <2>4, <2>5, <2>6, <2>7 DEF Next
<1>3. QED
  BY <1>1, <1>2 DEF LateInv

\* Whatever requests overlap, the periodic task, crashes and the clearing of the voice
\* data: a request that arrives for a runtime that is shut down, unless it uploads a
\* recording, leaves it shut down.
THEOREM ShutdownIsHonoured == Spec => LaterRequestsLeaveShutdown
<1>1. Init => LateInv
  BY VoiceAssumption, InitIsGood DEF Init, LateInv
<1>2. LateInv /\ [Next]_vars => LateInv'
  BY VoiceAssumption, LateKeeps
<1>3. ASSUME LateInv, [Next]_vars, NEW c \in Clients, NEW s \in Sessions, after[c],
             req'[c] # req[c], row[s].state = "shutdown"
      PROVE  row'[s].state = "shutdown"
  <2>1. VoiceInv /\ Late(req[c])
    BY <1>3 DEF LateInv
  <2>2. CASE Handler(c)
    BY <1>3, <2>1, <2>2, LateStep
  <2>3. CASE Arrive(c)
    <3>1. ~Start(c)
      BY <1>3 DEF Start, served
    <3>2. row' = row
      BY <2>3, <3>1 DEF Arrive, MoveArrives, SpeechArrives, RuntimeRead, ProfileRead, GreetRead,
         ReportRead, DisableRead, ShutdownRead, View, IngestRead, UploadRead, SpeakRead,
         CompleteRead, ActivateRead
    <3>3. QED
      BY <1>3, <3>2
  <2>4. CASE Crash(c)
    BY <1>3, <2>4 DEF Crash
  <2>5. ASSUME NEW d \in Clients, d # c, Arrive(d) \/ Handler(d) \/ Crash(d)
        PROVE  FALSE
    BY <1>3, <2>1, <2>5, OthersWait
  <2>6. CASE Inactivity \/ ClearVoiceData \/ Tick \/ UNCHANGED vars
    BY <1>3, <2>6 DEF Inactivity, ClearVoiceData, Tick, vars, served
  <2>7. QED
    BY <1>3, <2>2, <2>3, <2>4, <2>5, <2>6 DEF Next
<1>4. LateInv /\ [Next]_vars =>
        [\A c \in Clients, s \in Sessions :
           /\ after[c]
           /\ req[c].sid = s
           /\ req'[c] # req[c]
           /\ row[s].state = "shutdown"
           => row'[s].state = "shutdown"]_vars
  BY <1>3
<1>5. QED
  BY <1>1, <1>2, <1>4, PTL DEF Spec, LaterRequestsLeaveShutdown
=============================================================================
