------------------------- MODULE VoiceClientProofs -------------------------
(***************************************************************************)
(* Theorems about VoiceClient, for any captures, profiles and bounds: any  *)
(* number of turns, clicks, polls, losses, reloads and sessions.           *)
(*                                                                         *)
(* The greeting is spoken once because the marker is stored before a word  *)
(* is spoken: a job that has the answer to its marker knows that the       *)
(* server's session is greeted, and nobody has greeted in it before.  Echo *)
(* is deaf while it answers because what begins an answer stops the one    *)
(* capture that is heard, and a microphone granted later looks again.      *)
(***************************************************************************)
EXTENDS VoiceClient, FiniteSetTheorems, TLAPS

\* What a request may be about when it is sent.
Asked == {"init", "greeted", "speaking", "report", "ask", "complete", "recover", "refresh",
          "create", "activate", "disable", "shutdown"}

\* A request knows no session beyond the newest one of the server.
GoodRequest(q, top) ==
  /\ q \in Request
  /\ q.id <= top
  /\ q.phase = "back" => q.snap.id <= top
  /\ q.phase = "sent" => q.at \in Asked

\* What nobody waits for any longer has been sent.
GoodStray(q, top) == GoodRequest(q, top) /\ q.phase = "sent"

\* Session i is not the newest of the server any more, or it is marked as greeted.
Past(i, s) == s.id > i \/ (s.id = i /\ s.greeted)

\* What the job that greets knows at each of its steps.
Greeter(q, s, spoken) ==
  /\ q.at = "init" =>
       /\ q.phase # "none"
       /\ q.phase = "back" => q.snap.id > 0 /\ (~q.snap.greeted => spoken[q.snap.id] = 0)
  /\ q.at = "greeted" =>
       /\ q.id > 0 /\ spoken[q.id] = 0 /\ q.phase # "none"
       /\ q.phase = "back" => q.snap.id = q.id /\ Past(q.id, s)
  /\ q.at = "speaking" => q.id > 0 /\ spoken[q.id] = 0 /\ Past(q.id, s)

GreetingsInv(spoken, s) ==
  \A i \in 1..MaxSessions : spoken[i] \in {0, 1} /\ (spoken[i] = 1 => Past(i, s))

Silent(p) == \A k \in Captures : p.mic[k] # "on"

\* The capture that is heard is the one the page remembers; unless two were started
\* at once it is the only one, and none is heard while Echo answers or greets.
CaptureInv(p, twice) ==
  /\ p.rec # None => p.mic[p.rec] \in {"on", "ending"}
  /\ ~twice => /\ \A k, l \in Captures : p.mic[k] # "off" /\ p.mic[l] # "off" => k = l
               /\ \A k \in Captures : p.mic[k] = "on" => p.rec = k
               /\ p.processing \/ p.greeting => Silent(p)

\* Until it knows its session, the page does nothing but ask for it.
Loading ==
  /\ ~page.ready =>
       /\ page.state = "starting" /\ ~page.clock
       /\ \A k \in Captures : page.mic[k] = "off"
       /\ \A j \in Jobs \ {"start"} : job[j] = Idle
       /\ job["start"].at \in {"idle", "init"}
  /\ job["start"].at = "init" => ~page.ready

ClientTypes ==
  /\ page \in Page
  /\ job \in [Jobs -> Request]
  /\ server \in Session /\ server.id > 0
  /\ profile \in Profiles
  /\ now \in Nat
  /\ left \in [turns : Nat, events : Nat]
  /\ greetings \in [1..MaxSessions -> Nat]
  /\ doubled \in BOOLEAN

ClientInv ==
  /\ ClientTypes
  /\ page.id <= server.id
  /\ \A j \in Jobs : GoodRequest(job[j], server.id)
  /\ \A q \in stray : GoodStray(q, server.id)
  /\ GreetingsInv(greetings, server)
  /\ Greeter(job["start"], server, greetings)
  /\ CaptureInv(page, doubled)
  /\ Loading

-----------------------------------------------------------------------------
(* The server's session *)

\* What an answer makes of a session: the same one, greeted if it was.
Like(r, s) == s \in Session /\ s.id = r.id /\ (r.greeted => s.greeted)

LEMMA LikeColumns ==
  ASSUME NEW r \in Session
  PROVE  /\ Like(r, r)
         /\ \A v \in State : Like(r, [r EXCEPT !.state = v]) /\ [r EXCEPT !.state = v].state = v
         /\ \A v \in {"wake_word", "active"} :
              Like(r, [r EXCEPT !.mode = v]) /\ [r EXCEPT !.mode = v].state = r.state
         /\ \A v \in Nat : Like(r, [r EXCEPT !.exp = v]) /\ [r EXCEPT !.exp = v].state = r.state
         /\ \A v \in {"unknown", "granted", "denied"} : Like(r, [r EXCEPT !.perm = v])
         /\ Like(r, [r EXCEPT !.greeted = TRUE]) /\ [r EXCEPT !.greeted = TRUE].greeted
         /\ [r EXCEPT !.greeted = TRUE].state = r.state
  BY DEF Session, Like

LEMMA LikeIsTyped ==
  ASSUME NEW r, NEW s, Like(r, s)
  PROVE  s \in Session
  BY DEF Like

LEMMA LikeTransitive ==
  ASSUME NEW r, NEW s, NEW t, Like(r, s), Like(s, t)
  PROVE  Like(r, t)
  BY DEF Like

LEMMA NewSessionIsTyped ==
  ASSUME NEW i \in 0..MaxSessions
  PROVE  NewSession(i) \in Session /\ NewSession(i).id = i /\ NewSession(i).mode = "wake_word"
  BY DEF NewSession, Session, State

LEMMA WakedIsLike ==
  ASSUME NEW r \in Session
  PROVE  Like(r, Waked(r)) /\ Waked(r).state = "wake_word_listening"
<1> DEFINE a == [r EXCEPT !.state = "wake_word_listening"]
           b == [a EXCEPT !.mode = "wake_word"]
<1>1. Like(r, a) /\ a.state = "wake_word_listening"
  BY LikeColumns DEF State, Session
<1>2. Like(a, b) /\ b.state = "wake_word_listening"
  <2> HIDE DEF a
  <2> QED BY <1>1, LikeColumns, LikeIsTyped
<1>3. Waked(r) = [b EXCEPT !.exp = 0]
  BY DEF Waked
<1> HIDE DEF a, b
<1>4. Like(b, Waked(r)) /\ Waked(r).state = "wake_word_listening"
  <2>1. b \in Session /\ 0 \in Nat
    BY <1>2, LikeIsTyped
  <2>2. Like(b, [b EXCEPT !.exp = 0]) /\ [b EXCEPT !.exp = 0].state = b.state
    BY <2>1, LikeColumns
  <2>3. QED
    BY <1>2, <1>3, <2>2
<1>5. QED
  BY <1>1, <1>2, <1>4, LikeTransitive

LEMMA ActiveIsLike ==
  ASSUME NEW r \in Session, now \in Nat
  PROVE  Like(r, Active(r)) /\ Active(r).state = "active_session"
<1> DEFINE a == [r EXCEPT !.state = "active_session"]
           b == [a EXCEPT !.mode = "active"]
           d == [b EXCEPT !.exp = now + 1]
<1>1. Like(r, a) /\ a.state = "active_session"
  BY LikeColumns DEF State, Session
<1>2. Like(a, b) /\ b.state = "active_session"
  <2> HIDE DEF a
  <2> QED BY <1>1, LikeColumns, LikeIsTyped
<1>3. Like(b, d) /\ d.state = "active_session"
  <2> HIDE DEF b
  <2>1. now + 1 \in Nat
    OBVIOUS
  <2> QED BY <1>2, <2>1, LikeColumns, LikeIsTyped
<1>4. Active(r) = [d EXCEPT !.greeted = TRUE]
  BY DEF Active
<1> HIDE DEF a, b, d
<1>5. Like(d, Active(r)) /\ Active(r).state = "active_session"
  BY <1>3, <1>4, LikeColumns, LikeIsTyped
<1>6. QED
  BY <1>1, <1>2, <1>3, <1>5, LikeTransitive

LEMMA DownIsLike ==
  ASSUME NEW r \in Session
  PROVE  Like(r, Down(r)) /\ Down(r).state = "shutdown"
<1>1. Like(r, Waked(r))
  BY WakedIsLike
<1>2. Like(Waked(r), Down(r)) /\ Down(r).state = "shutdown"
  <2>1. "shutdown" \in State /\ Waked(r) \in Session
    BY <1>1, LikeIsTyped DEF State
  <2>2. QED
    BY <2>1, LikeColumns DEF Down
<1>3. QED
  BY <1>1, <1>2, LikeTransitive

LEMMA KeptIsLike ==
  ASSUME NEW r \in Session
  PROVE  Like(r, Kept(r)) /\ Like(r, Kept(r)) /\ (Kept(r) = r \/ r.mode = "active")
  BY WakedIsLike, LikeColumns DEF Kept

LEMMA TouchedIsLike ==
  ASSUME NEW r \in Session, now \in Nat
  PROVE  Like(r, Touched(r)) /\ Touched(r).state = r.state
<1>1. now + 1 \in Nat
  OBVIOUS
<1>2. QED
  BY <1>1, LikeColumns DEF Touched, Session

LEMMA MovedIsLike ==
  ASSUME NEW r \in Session, now \in Nat, NEW t \in State
  PROVE  Like(r, Moved(r, t))
<1>1. CASE t = "active_session"
  <2> DEFINE a == [r EXCEPT !.state = "active_session"]
             b == [a EXCEPT !.mode = "active"]
             e == IF r.exp = 0 THEN now + 1 ELSE r.exp
  <2>1. Like(r, a) /\ a.exp = r.exp
    BY LikeColumns DEF State, Session
  <2>2. Like(a, b) /\ b.exp = r.exp
    <3> HIDE DEF a
    <3>1. a \in Session
      BY <2>1, LikeIsTyped
    <3>2. [a EXCEPT !.mode = "active"].exp = a.exp
      BY <3>1 DEF Session
    <3> QED BY <2>1, <3>1, <3>2, LikeColumns
  <2>3. e \in Nat
    BY DEF Session
  <2>4. Moved(r, t) = [b EXCEPT !.exp = e]
    BY <1>1 DEF Moved
  <2> HIDE DEF a, b, e
  <2>5. Like(b, Moved(r, t))
    <3>1. b \in Session
      BY <2>2, LikeIsTyped
    <3>2. Like(b, [b EXCEPT !.exp = e])
      BY <2>3, <3>1, LikeColumns
    <3>3. QED
      BY <2>4, <3>2
  <2>6. QED
    BY <2>1, <2>2, <2>5, LikeTransitive
<1>2. CASE t = "wake_word_listening"
  BY <1>2, WakedIsLike DEF Moved
<1>3. CASE t \notin {"active_session", "wake_word_listening"}
  BY <1>3, LikeColumns DEF Moved
<1>4. QED
  BY <1>1, <1>2, <1>3

\* An answer about session r.
GoodAnswer(a, r) == a.ok \in BOOLEAN /\ a.say \in Says /\ Like(r, a.session)

LEMMA AnswerIsGood ==
  ASSUME NEW r \in Session, NEW s, Like(r, s)
  PROVE  /\ GoodAnswer(Refused(s), r)
         /\ GoodAnswer(Answer(s), r)
         /\ \A w \in Says : GoodAnswer(Says_(s, w), r)
<1>1. Like(r, Kept(s))
  BY KeptIsLike, LikeTransitive DEF Like
<1>2. QED
  BY <1>1 DEF GoodAnswer, Refused, Answer, Says_, Says

LEMMA CaptureIsState ==
  ASSUME NEW r
  PROVE  Capture(r) \in State
  BY DEF Capture, State

LEMMA TurnedIsGood ==
  ASSUME NEW r \in Session, now \in Nat, NEW a \in Turned(r)
  PROVE  GoodAnswer(a, r)
<1> DEFINE t == Touched(r)
           after == {[t EXCEPT !.state = Capture(t)], Waked(t), Active(t), Down(t)}
<1>1. Like(r, t) /\ t \in Session
  BY TouchedIsLike DEF Like
<1>2. \A s \in after : Like(r, s) /\ s \in Session
  <2> HIDE DEF t
  <2>1. Like(t, [t EXCEPT !.state = Capture(t)])
    BY <1>1, LikeColumns, CaptureIsState
  <2>2. Like(t, Waked(t)) /\ Like(t, Active(t)) /\ Like(t, Down(t))
    BY <1>1, WakedIsLike, ActiveIsLike, DownIsLike
  <2>3. QED
    BY <1>1, <2>1, <2>2, LikeTransitive, LikeIsTyped
<1>3. \A s \in after : Like(r, [s EXCEPT !.state = "speaking"])
  <2> HIDE DEF after
  <2>1. \A s \in Session : Like(s, [s EXCEPT !.state = "speaking"])
    BY LikeColumns DEF State
  <2>2. QED
    BY <1>2, <2>1, LikeTransitive
<1>4. \/ a \in {Refused(r), Refused([r EXCEPT !.state = "error"]),
                Says_([r EXCEPT !.state = Capture(r)], "ignored"), Says_(Active(r), "ignored")}
      \/ \E s \in after, w \in {"silent", "mute"} : a = Says_(s, w)
      \/ \E s \in after : a = Says_([s EXCEPT !.state = "speaking"], "speaks")
  <2>1. CASE r.state = "shutdown"
    BY <2>1 DEF Turned
  <2>2. CASE r.state # "shutdown"
    <3> DEFINE few == {Refused([r EXCEPT !.state = "error"]),
                       Says_([r EXCEPT !.state = Capture(r)], "ignored"), Says_(Active(r), "ignored")}
    <3>1. a \in few \cup {Says_(s, w) : s \in after, w \in {"silent", "mute"}}
                  \cup {Says_([s EXCEPT !.state = "speaking"], "speaks") : s \in after \ {Down(t)}}
      BY <2>2 DEF Turned
    <3> HIDE DEF after
    <3>2. QED
      BY <3>1
  <2>3. QED
    BY <2>1, <2>2
<1> HIDE DEF after
<1>5. \A w \in {"silent", "mute", "ignored", "speaks"} : w \in Says
  BY DEF Says
<1>6. CASE a \in {Refused(r), Refused([r EXCEPT !.state = "error"]),
                  Says_([r EXCEPT !.state = Capture(r)], "ignored"), Says_(Active(r), "ignored")}
  <2>1. /\ Like(r, r) /\ Like(r, [r EXCEPT !.state = "error"])
        /\ Like(r, [r EXCEPT !.state = Capture(r)]) /\ Like(r, Active(r))
    <3>1. Capture(r) \in State /\ "error" \in State
      BY CaptureIsState DEF State
    <3>2. QED
      BY <3>1, LikeColumns, ActiveIsLike
  <2>2. QED
    BY <1>5, <1>6, <2>1, AnswerIsGood
<1>7. QED
  BY <1>2, <1>3, <1>4, <1>5, <1>6, AnswerIsGood

LEMMA AnswersAreGood ==
  ASSUME NEW q \in Request, q.at \in Asked \ {"create"}, NEW r \in Session, now \in Nat,
         NEW a \in Answers(q, r)
  PROVE  /\ GoodAnswer(a, r)
         /\ q.at = "greeted" /\ a.ok => a.session.greeted /\ r.state # "shutdown"
<1>0. Like(r, r) /\ q.to \in State /\ q.perm \in {"", "granted", "denied"}
  BY LikeColumns DEF Request
<1>1. CASE q.at \in {"report", "speaking", "recover"}
  <2> DEFINE m == Moved(r, q.to)
             v == IF q.perm = "" THEN m.perm ELSE q.perm
  <2>1. Like(r, m) /\ m \in Session
    BY <1>0, MovedIsLike, LikeIsTyped
  <2>2. v \in {"unknown", "granted", "denied"}
    <3> HIDE DEF m
    <3> QED BY <1>0, <2>1 DEF Session
  <2>3. a = Refused(r) \/ a = Answer([m EXCEPT !.perm = v])
    BY <1>1 DEF Answers
  <2> HIDE DEF m, v
  <2>4. Like(r, [m EXCEPT !.perm = v])
    <3>1. Like(m, [m EXCEPT !.perm = v])
      BY <2>1, <2>2, LikeColumns
    <3>2. QED
      BY <2>1, <3>1, LikeTransitive
  <2>5. QED
    BY <1>0, <1>1, <2>3, <2>4, AnswerIsGood
<1>2. CASE q.at \in {"init", "refresh"}
  <2> DEFINE g == IF r.state = "starting" THEN [r EXCEPT !.state = "greeting"] ELSE r
  <2>1. "greeting" \in State
    BY DEF State
  <2>2. Like(r, g)
    BY <1>0, <2>1, LikeColumns
  <2>3. a = Answer(g)
    BY <1>2 DEF Answers
  <2> HIDE DEF g
  <2>4. QED
    BY <1>2, <2>2, <2>3, AnswerIsGood
<1>3. CASE q.at = "greeted"
  <2>1. CASE r.state = "shutdown"
    <3>1. a = Refused(r)
      BY <1>3, <2>1 DEF Answers
    <3>2. QED
      BY <1>0, <3>1, AnswerIsGood DEF Refused
  <2>2. CASE r.state # "shutdown"
    <3> DEFINE d == [r EXCEPT !.greeted = TRUE]
               v == IF r.state \in {"starting", "greeting"} THEN "wake_word_listening" ELSE r.state
               e == [d EXCEPT !.state = v]
    <3>1. Like(r, d) /\ d.greeted /\ d.state = r.state /\ d \in Session
      BY LikeColumns, LikeIsTyped
    <3>2. v \in State
      BY DEF State, Session
    <3>3. a = Answer([r EXCEPT !.greeted = TRUE,
                        !.state = IF @ \in {"starting", "greeting"} THEN "wake_word_listening" ELSE @])
      BY <1>3, <2>2 DEF Answers
    <3>4. e = [r EXCEPT !.greeted = TRUE, !.state = v]
      OBVIOUS
    <3>5. a = Answer(e)
      BY <3>3, <3>4
    <3> HIDE DEF d, v
    <3>6. Like(d, e)
      BY <3>1, <3>2, LikeColumns
    <3> HIDE DEF e
    <3>7. Like(r, e) /\ e.greeted /\ e \in Session
      BY <3>1, <3>6, LikeTransitive, LikeIsTyped DEF Like
    <3>8. Answer(e).session = Kept(e) /\ Kept(e).greeted
      BY <3>7, KeptIsLike DEF Answer, Like
    <3>9. QED
      BY <2>2, <3>5, <3>7, <3>8, AnswerIsGood
  <2>3. QED
    BY <2>1, <2>2
<1>4. CASE q.at = "ask"
  BY <1>4, TurnedIsGood DEF Answers
<1>5. CASE q.at = "complete"
  <2>1. Like(r, Moved(r, Capture(r)))
    BY CaptureIsState, MovedIsLike
  <2>2. a = Answer(IF r.state = "speaking" THEN Moved(r, Capture(r)) ELSE r)
    BY <1>5 DEF Answers
  <2>3. QED
    BY <1>0, <1>5, <2>1, <2>2, AnswerIsGood
<1>6. CASE q.at = "activate"
  <2>1. a = Refused(r) \/ a = Answer(Active(r))
    BY <1>6 DEF Answers
  <2>2. QED
    BY <1>0, <1>6, <2>1, ActiveIsLike, AnswerIsGood
<1>7. CASE q.at = "disable"
  <2>1. a = Answer(r) \/ a = Answer(Waked(r))
    BY <1>7 DEF Answers
  <2>2. QED
    BY <1>0, <1>7, <2>1, WakedIsLike, AnswerIsGood
<1>8. CASE q.at = "shutdown"
  <2>1. a = Answer(Down(r))
    BY <1>8 DEF Answers
  <2>2. QED
    BY <1>8, <2>1, DownIsLike, AnswerIsGood
<1>9. QED
  BY <1>1, <1>2, <1>3, <1>4, <1>5, <1>6, <1>7, <1>8 DEF Asked

\* The newest session s is as new as r, and greeted if r was.
Newer(r, s) ==
  s \in Session /\ s.id >= r.id /\ (s.id = r.id /\ r.greeted => s.greeted)

\* What an answer to q does to the server's session, and what the page learns by it.
LEMMA OutcomeIsStored ==
  ASSUME ClientTypes, NEW q, GoodRequest(q, server.id), q.at \in Asked,
         NEW a \in Outcomes(q), Stored(a)
  PROVE  /\ a.ok \in BOOLEAN /\ a.say \in Says /\ a.session \in Session
         /\ Newer(server, server') /\ server' \in Session
         /\ a.session.id <= server'.id
         /\ q.at = "greeted" /\ a.ok => a.session.id = q.id /\ Past(q.id, server')
         /\ q.at = "init" => a.session.id = server.id /\ (server.greeted => a.session.greeted)
<1>0. /\ server \in Session /\ now \in Nat /\ server.id \in Nat /\ q \in Request
      /\ q.id \in 0..MaxSessions /\ q.id <= server.id /\ MaxSessions \in Nat
  <2>1. MaxSessions \in Nat
    BY ClientAssumption
  <2>2. server \in Session /\ now \in Nat /\ q \in Request /\ q.id <= server.id
    BY DEF ClientTypes, GoodRequest
  <2>3. server.id \in 0..MaxSessions /\ q.id \in 0..MaxSessions
    BY <2>2 DEF Session, Request
  <2>4. QED
    BY <2>1, <2>2, <2>3
<1>1. CASE q.at = "create"
  <2>1. CASE server.id < MaxSessions
    <3> DEFINE n == NewSession(server.id + 1)
    <3>1. server.id + 1 \in 0..MaxSessions
      BY <1>0, <2>1
    <3>2. n \in Session /\ n.id = server.id + 1
      BY <3>1, NewSessionIsTyped
    <3> HIDE DEF n
    <3>3. a = Answer(n)
      BY <1>1, <2>1 DEF Outcomes, n
    <3>4. GoodAnswer(a, n)
      BY <3>2, <3>3, AnswerIsGood, LikeColumns
    <3>5. a.session \in Session /\ a.session.id = server.id + 1
      BY <3>2, <3>4 DEF GoodAnswer, Like
    <3>6. server' = a.session
      BY <1>0, <3>5 DEF Stored
    <3>7. QED
      BY <1>0, <1>1, <3>4, <3>5, <3>6 DEF GoodAnswer, Newer
  <2>2. CASE ~(server.id < MaxSessions)
    <3>1. a = Refused(server)
      BY <1>1, <2>2 DEF Outcomes
    <3>2. GoodAnswer(a, server)
      BY <1>0, <3>1, AnswerIsGood, LikeColumns
    <3>3. server' = a.session
      BY <3>2 DEF GoodAnswer, Like, Stored
    <3>4. QED
      BY <1>0, <1>1, <3>2, <3>3 DEF GoodAnswer, Like, Newer
  <2>3. QED
    BY <2>1, <2>2
<1>2. CASE q.at # "create"
  <2> DEFINE r == Named(q)
  <2>1. a \in Answers(q, r)
    BY <1>2 DEF Outcomes
  <2>2. CASE r = server
    <3>1. GoodAnswer(a, server)
      BY <1>0, <1>2, <2>1, <2>2, AnswersAreGood
    <3>2. server' = a.session
      BY <3>1 DEF GoodAnswer, Like, Stored
    <3>3. q.at = "greeted" /\ a.ok => a.session.greeted /\ server.state # "shutdown"
      BY <1>0, <1>2, <2>1, <2>2, AnswersAreGood
    <3>4. q.at = "greeted" /\ a.ok => q.id = server.id
      <4>1. SUFFICES ASSUME q.at = "greeted", a.ok, q.id # server.id
                     PROVE  FALSE
        OBVIOUS
      <4>2. server = Down(NewSession(q.id))
        BY <2>2, <4>1 DEF Named
      <4>3. server.state = "shutdown"
        BY <1>0, <4>2, NewSessionIsTyped, DownIsLike
      <4>4. QED
        BY <3>3, <4>1, <4>3
    <3>5. QED
      BY <1>0, <3>1, <3>2, <3>3, <3>4 DEF GoodAnswer, Like, Newer, Past
  <2>3. CASE r # server
    <3>1. /\ q.at \notin {"init", "refresh"} /\ q.id # server.id
          /\ r = Down(NewSession(q.id))
      BY <2>3 DEF Named
    <3>2. r \in Session /\ r.id = q.id /\ r.state = "shutdown"
      BY <1>0, <3>1, NewSessionIsTyped, DownIsLike DEF Like
    <3> HIDE DEF r
    <3>3. GoodAnswer(a, r) /\ ~(q.at = "greeted" /\ a.ok)
      BY <1>0, <1>2, <2>1, <3>2, AnswersAreGood
    <3>4. a.session \in Session /\ a.session.id = q.id
      BY <3>2, <3>3 DEF GoodAnswer, Like
    <3>5. server' = server
      BY <1>0, <3>1, <3>4 DEF Stored
    <3>6. QED
      BY <1>0, <3>1, <3>3, <3>4, <3>5 DEF GoodAnswer, Newer
  <2>4. QED
    BY <2>2, <2>3
<1>3. QED
  BY <1>1, <1>2

-----------------------------------------------------------------------------
(* The page *)

\* A page that knows its session, none beyond the newest, and keeps its captures apart.
Fits(p, top, twice) ==
  p \in Page /\ p.ready /\ p.id <= top /\ CaptureInv(p, twice)

LEMMA PageColumns ==
  ASSUME NEW p \in Page
  PROVE  /\ \A v \in BOOLEAN : [p EXCEPT !.clock = v] \in Page
         /\ \A v \in BOOLEAN : [p EXCEPT !.ready = v] \in Page
         /\ \A v \in BOOLEAN : [p EXCEPT !.hidden = v] \in Page
         /\ \A v \in BOOLEAN : [p EXCEPT !.timer = v] \in Page
         /\ \A v \in BOOLEAN : [p EXCEPT !.processing = v] \in Page
         /\ \A v \in BOOLEAN : [p EXCEPT !.greeting = v] \in Page
         /\ \A v \in {"unknown", "granted", "denied"} : [p EXCEPT !.perm = v] \in Page
         /\ \A v \in Captures \cup {None} : [p EXCEPT !.rec = v] \in Page
         /\ \A v \in Captures \cup {None} : [p EXCEPT !.stream = v] \in Page
         /\ \A v \in SUBSET Captures : [p EXCEPT !.live = v] \in Page
         /\ \A v \in [Captures -> {"off", "asking", "activating", "on", "ending"}] :
              [p EXCEPT !.mic = v] \in Page
         /\ \A v \in [Speakers -> {"quiet", "sounds", "over", "cut"}] : [p EXCEPT !.voice = v] \in Page
  BY SMTT(30) DEF Page

\* Columns that no capture depends on.
LEMMA FitsWhatever ==
  ASSUME NEW p, NEW top, NEW twice, Fits(p, top, twice)
  PROVE  /\ \A v \in BOOLEAN : Fits([p EXCEPT !.clock = v], top, twice)
         /\ \A v \in BOOLEAN : Fits([p EXCEPT !.hidden = v], top, twice)
         /\ \A v \in BOOLEAN : Fits([p EXCEPT !.timer = v], top, twice)
         /\ \A v \in {"unknown", "granted", "denied"} : Fits([p EXCEPT !.perm = v], top, twice)
         /\ \A v \in Captures \cup {None} : Fits([p EXCEPT !.stream = v], top, twice)
         /\ \A v \in SUBSET Captures : Fits([p EXCEPT !.live = v], top, twice)
         /\ \A v \in [Speakers -> {"quiet", "sounds", "over", "cut"}] :
              Fits([p EXCEPT !.voice = v], top, twice)
<1>1. p \in Page /\ p.ready /\ p.id <= top /\ CaptureInv(p, twice)
  BY DEF Fits
<1>2. ASSUME NEW q \in Page, q.ready = p.ready, q.id = p.id, q.mic = p.mic, q.rec = p.rec,
             q.processing = p.processing, q.greeting = p.greeting
      PROVE  Fits(q, top, twice)
  BY <1>1, <1>2 DEF Fits, CaptureInv, Silent
<1>3. ASSUME NEW v \in BOOLEAN
      PROVE  Fits([p EXCEPT !.clock = v], top, twice)
  <2> DEFINE q == [p EXCEPT !.clock = v]
  <2>1. q \in Page
    BY <1>1, PageColumns
  <2>2. /\ q.ready = p.ready /\ q.id = p.id /\ q.mic = p.mic /\ q.rec = p.rec
        /\ q.processing = p.processing /\ q.greeting = p.greeting
    BY <1>1 DEF Page
  <2> HIDE DEF q
  <2>3. Fits(q, top, twice)
    BY <1>2, <2>1, <2>2
  <2>4. QED
    BY <2>3 DEF q
<1>4. ASSUME NEW v \in BOOLEAN
      PROVE  Fits([p EXCEPT !.hidden = v], top, twice)
  <2> DEFINE q == [p EXCEPT !.hidden = v]
  <2>1. q \in Page
    BY <1>1, PageColumns
  <2>2. /\ q.ready = p.ready /\ q.id = p.id /\ q.mic = p.mic /\ q.rec = p.rec
        /\ q.processing = p.processing /\ q.greeting = p.greeting
    BY <1>1 DEF Page
  <2> HIDE DEF q
  <2>3. Fits(q, top, twice)
    BY <1>2, <2>1, <2>2
  <2>4. QED
    BY <2>3 DEF q
<1>5. ASSUME NEW v \in BOOLEAN
      PROVE  Fits([p EXCEPT !.timer = v], top, twice)
  <2> DEFINE q == [p EXCEPT !.timer = v]
  <2>1. q \in Page
    BY <1>1, PageColumns
  <2>2. /\ q.ready = p.ready /\ q.id = p.id /\ q.mic = p.mic /\ q.rec = p.rec
        /\ q.processing = p.processing /\ q.greeting = p.greeting
    BY <1>1 DEF Page
  <2> HIDE DEF q
  <2>3. Fits(q, top, twice)
    BY <1>2, <2>1, <2>2
  <2>4. QED
    BY <2>3 DEF q
<1>6. ASSUME NEW v \in {"unknown", "granted", "denied"}
      PROVE  Fits([p EXCEPT !.perm = v], top, twice)
  <2> DEFINE q == [p EXCEPT !.perm = v]
  <2>1. q \in Page
    BY <1>1, PageColumns
  <2>2. /\ q.ready = p.ready /\ q.id = p.id /\ q.mic = p.mic /\ q.rec = p.rec
        /\ q.processing = p.processing /\ q.greeting = p.greeting
    BY <1>1 DEF Page
  <2> HIDE DEF q
  <2>3. Fits(q, top, twice)
    BY <1>2, <2>1, <2>2
  <2>4. QED
    BY <2>3 DEF q
<1>7. ASSUME NEW v \in Captures \cup {None}
      PROVE  Fits([p EXCEPT !.stream = v], top, twice)
  <2> DEFINE q == [p EXCEPT !.stream = v]
  <2>1. q \in Page
    BY <1>1, PageColumns
  <2>2. /\ q.ready = p.ready /\ q.id = p.id /\ q.mic = p.mic /\ q.rec = p.rec
        /\ q.processing = p.processing /\ q.greeting = p.greeting
    BY <1>1 DEF Page
  <2> HIDE DEF q
  <2>3. Fits(q, top, twice)
    BY <1>2, <2>1, <2>2
  <2>4. QED
    BY <2>3 DEF q
<1>8. ASSUME NEW v \in SUBSET Captures
      PROVE  Fits([p EXCEPT !.live = v], top, twice)
  <2> DEFINE q == [p EXCEPT !.live = v]
  <2>1. q \in Page
    BY <1>1, PageColumns
  <2>2. /\ q.ready = p.ready /\ q.id = p.id /\ q.mic = p.mic /\ q.rec = p.rec
        /\ q.processing = p.processing /\ q.greeting = p.greeting
    BY <1>1 DEF Page
  <2> HIDE DEF q
  <2>3. Fits(q, top, twice)
    BY <1>2, <2>1, <2>2
  <2>4. QED
    BY <2>3 DEF q
<1>9. ASSUME NEW v \in [Speakers -> {"quiet", "sounds", "over", "cut"}]
      PROVE  Fits([p EXCEPT !.voice = v], top, twice)
  <2> DEFINE q == [p EXCEPT !.voice = v]
  <2>1. q \in Page
    BY <1>1, PageColumns
  <2>2. /\ q.ready = p.ready /\ q.id = p.id /\ q.mic = p.mic /\ q.rec = p.rec
        /\ q.processing = p.processing /\ q.greeting = p.greeting
    BY <1>1 DEF Page
  <2> HIDE DEF q
  <2>3. Fits(q, top, twice)
    BY <1>2, <2>1, <2>2
  <2>4. QED
    BY <2>3 DEF q
<1>10. QED
  BY <1>3, <1>4, <1>5, <1>6, <1>7, <1>8, <1>9

LEMMA FitsIsPage ==
  ASSUME NEW p, NEW top, NEW twice, Fits(p, top, twice)
  PROVE  p \in Page
  BY DEF Fits

LEMMA FitsVoice ==
  ASSUME NEW p, NEW top, NEW twice, Fits(p, top, twice)
  PROVE  \A j \in Speakers, v \in {"quiet", "sounds", "over", "cut"} :
           Fits([p EXCEPT !.voice[j] = v], top, twice)
<1> TAKE j \in Speakers, v \in {"quiet", "sounds", "over", "cut"}
<1> DEFINE f == [p.voice EXCEPT ![j] = v]
<1>1. f \in [Speakers -> {"quiet", "sounds", "over", "cut"}]
  BY FitsIsPage DEF Page
<1>2. [p EXCEPT !.voice[j] = v] = [p EXCEPT !.voice = f]
  OBVIOUS
<1> HIDE DEF f
<1>3. QED
  BY <1>1, <1>2, FitsWhatever

\* The end of processing or of the greeting; their beginning, when nothing is heard.
LEMMA FitsWhenDone ==
  ASSUME NEW p, NEW top, NEW twice, Fits(p, top, twice), NEW v \in BOOLEAN,
         v => twice \/ Silent(p)
  PROVE  /\ Fits([p EXCEPT !.processing = v], top, twice)
         /\ Fits([p EXCEPT !.greeting = v], top, twice)
<1>1. p \in Page /\ p.ready /\ p.id <= top /\ CaptureInv(p, twice)
  BY DEF Fits
<1>2. ASSUME NEW q \in Page, q.ready = p.ready, q.id = p.id, q.mic = p.mic, q.rec = p.rec,
             q.processing \/ q.greeting => p.processing \/ p.greeting \/ v
      PROVE  Fits(q, top, twice)
  BY <1>1, <1>2 DEF Fits, CaptureInv, Silent
<1>3. Fits([p EXCEPT !.processing = v], top, twice)
  <2> DEFINE q == [p EXCEPT !.processing = v]
  <2>1. q \in Page
    BY <1>1, PageColumns
  <2>2. /\ q.ready = p.ready /\ q.id = p.id /\ q.mic = p.mic /\ q.rec = p.rec
        /\ q.processing = v /\ q.greeting = p.greeting
    BY <1>1 DEF Page
  <2> HIDE DEF q
  <2>3. Fits(q, top, twice)
    BY <1>2, <2>1, <2>2
  <2>4. QED
    BY <2>3 DEF q
<1>4. Fits([p EXCEPT !.greeting = v], top, twice)
  <2> DEFINE q == [p EXCEPT !.greeting = v]
  <2>1. q \in Page
    BY <1>1, PageColumns
  <2>2. /\ q.ready = p.ready /\ q.id = p.id /\ q.mic = p.mic /\ q.rec = p.rec
        /\ q.processing = p.processing /\ q.greeting = v
    BY <1>1 DEF Page
  <2> HIDE DEF q
  <2>3. Fits(q, top, twice)
    BY <1>2, <2>1, <2>2
  <2>4. QED
    BY <2>3 DEF q
<1>5. QED
  BY <1>3, <1>4

LEMMA ScheduledFits ==
  ASSUME NEW p, NEW top, NEW twice, Fits(p, top, twice)
  PROVE  Fits(Scheduled(p), top, twice) /\ \A b : Fits(ScheduledIf(b, p), top, twice)
<1>1. (CanCapture(p) /\ ~p.hidden) \in BOOLEAN
  BY DEF CanCapture
<1>2. Fits(Scheduled(p), top, twice)
  BY <1>1, FitsWhatever DEF Scheduled
<1>3. QED
  BY <1>2 DEF ScheduledIf

LEMMA ReleasedFits ==
  ASSUME NEW p, NEW top, NEW twice, Fits(p, top, twice)
  PROVE  /\ Fits(Released(p), top, twice)
         /\ Released(p).mic = p.mic /\ Released(p).rec = p.rec /\ Released(p).state = p.state
         /\ Released(p).processing = p.processing /\ Released(p).id = p.id
<1> DEFINE a == [p EXCEPT !.live = p.live \ {p.stream}]
<1>1. p \in Page /\ p.live \ {p.stream} \in SUBSET Captures
  BY FitsIsPage DEF Page
<1>2. Fits(a, top, twice) /\ a \in Page
  BY <1>1, FitsWhatever, FitsIsPage
<1>3. /\ a.mic = p.mic /\ a.rec = p.rec /\ a.state = p.state /\ a.processing = p.processing
      /\ a.stream = p.stream /\ a.id = p.id
  BY <1>1 DEF Page
<1>4. Released(p) = [a EXCEPT !.stream = None]
  BY DEF Released
<1> HIDE DEF a
<1>5. Fits(Released(p), top, twice)
  <2>1. Fits([a EXCEPT !.stream = None], top, twice)
    BY <1>2, FitsWhatever
  <2>2. QED
    BY <1>4, <2>1
<1>6. QED
  BY <1>2, <1>3, <1>4, <1>5 DEF Page

\* Stopping the capture the page remembers silences it.
LEMMA StopCaptureFits ==
  ASSUME NEW p, NEW top, NEW twice, Fits(p, top, twice)
  PROVE  /\ Fits(StopCapture(p), top, twice)
         /\ twice \/ Silent(StopCapture(p))
         /\ StopCapture(p).state = p.state /\ StopCapture(p).processing = p.processing
         /\ StopCapture(p).id = p.id
<1> DEFINE f == [k \in Captures |-> IF k = p.rec THEN "ending" ELSE p.mic[k]]
           a == [p EXCEPT !.timer = FALSE]
           b == [a EXCEPT !.rec = None]
           e == [b EXCEPT !.mic = f]
<1>1. p \in Page /\ CaptureInv(p, twice) /\ p.ready /\ p.id <= top
  BY DEF Fits
<1>2. f \in [Captures -> {"off", "asking", "activating", "on", "ending"}]
  BY <1>1 DEF Page
<1>3. e \in Page
  <2>1. a \in Page
    BY <1>1, PageColumns
  <2>2. b \in Page
    <3> HIDE DEF a
    <3> QED BY <2>1, PageColumns
  <2>3. QED
    <3> HIDE DEF b, f
    <3> QED BY <1>2, <2>2, PageColumns
<1>4. /\ e.mic = f /\ e.rec = None /\ e.ready = p.ready /\ e.id = p.id /\ e.state = p.state
      /\ e.processing = p.processing /\ e.greeting = p.greeting
  <2> HIDE DEF f
  <2> QED BY <1>1 DEF Page
<1>5. StopCapture(p) = Released(e)
  BY <1>1 DEF StopCapture, Page
<1> HIDE DEF e
<1>6. \A k \in Captures : f[k] # "off" => p.mic[k] # "off"
  <2> TAKE k \in Captures
  <2>1. f[k] = IF k = p.rec THEN "ending" ELSE p.mic[k]
    OBVIOUS
  <2>2. k = p.rec => p.mic[k] \in {"on", "ending"}
    BY <1>1, ClientAssumption DEF CaptureInv
  <2> HIDE DEF f
  <2>3. QED
    BY <2>1, <2>2
<1>7. twice \/ \A k \in Captures : f[k] # "on"
  BY <1>1 DEF CaptureInv
<1>8. CaptureInv(e, twice) /\ (twice \/ Silent(e))
  <2> HIDE DEF f
  <2> QED BY <1>1, <1>4, <1>6, <1>7 DEF CaptureInv, Silent
<1>9. Fits(e, top, twice)
  BY <1>1, <1>3, <1>4, <1>8 DEF Fits
<1>10. QED
  BY <1>4, <1>5, <1>8, <1>9, ReleasedFits DEF Silent

LEMMA StopSpeechFits ==
  ASSUME NEW p, NEW top, NEW twice, Fits(p, top, twice)
  PROVE  Fits(StopSpeech(p), top, twice)
<1> DEFINE f == [s \in Speakers |->
                   IF p.voice[s] # "sounds" THEN p.voice[s]
                   ELSE IF s = "turn" /\ profile.files THEN "cut" ELSE "over"]
<1>1. f \in [Speakers -> {"quiet", "sounds", "over", "cut"}]
  BY FitsIsPage DEF Page
<1>2. StopSpeech(p) = [p EXCEPT !.voice = f]
  BY DEF StopSpeech
<1> HIDE DEF f
<1>3. Fits([p EXCEPT !.voice = f], top, twice)
  BY <1>1, FitsWhatever
<1>4. QED
  BY <1>2, <1>3

LEMMA SpeakingFits ==
  ASSUME NEW p, NEW top, NEW twice, Fits(p, top, twice), NEW s \in Speakers
  PROVE  Fits(Speaking(p, s), top, twice)
  BY StopCaptureFits, StopSpeechFits, FitsVoice DEF Speaking

LEMMA AppliedFits ==
  ASSUME NEW p, NEW top, NEW twice, NEW s \in Session, s.id <= top,
         p \in Page, p.id <= top, CaptureInv(p, twice)
  PROVE  /\ Applied(p, s) \in Page /\ Applied(p, s).id = s.id /\ Applied(p, s).ready = p.ready
         /\ CaptureInv(Applied(p, s), twice)
         /\ Applied(p, s).mic = p.mic
         /\ p.ready => Fits(Applied(p, s), top, twice)
<1>1. Applied(p, s) \in Page
  BY DEF Applied, Page, Session
<1>2. /\ Applied(p, s).id = s.id /\ Applied(p, s).ready = p.ready
      /\ Applied(p, s).mic = p.mic /\ Applied(p, s).rec = p.rec
      /\ Applied(p, s).processing = p.processing /\ Applied(p, s).greeting = p.greeting
  BY DEF Applied, Page
<1>3. CaptureInv(Applied(p, s), twice)
  BY <1>2 DEF CaptureInv, Silent
<1>4. QED
  BY <1>1, <1>2, <1>3 DEF Fits

LEMMA SeenFits ==
  ASSUME NEW p, NEW top, NEW twice, Fits(p, top, twice), NEW q, GoodRequest(q, top)
  PROVE  Fits(Seen(p, q), top, twice)
<1>1. CASE q.phase = "back"
  <2>1. q.snap \in Session /\ q.snap.id <= top
    BY <1>1 DEF GoodRequest, Request
  <2>2. QED
    BY <1>1, <2>1, AppliedFits DEF Fits, Seen
<1>2. CASE q.phase # "back"
  BY <1>2 DEF Seen
<1>3. QED
  BY <1>1, <1>2

LEMMA EndedFits ==
  ASSUME NEW p, NEW top, NEW twice, Fits(p, top, twice), NEW j
  PROVE  Fits(Ended(j, p), top, twice)
<1> DEFINE b == IF profile.uploads THEN Released(p) ELSE p
<1>1. Fits(b, top, twice)
  BY ReleasedFits
<1>2. Ended(j, p) = IF j # "turn" THEN p ELSE [b EXCEPT !.processing = FALSE]
  BY DEF Ended
<1> HIDE DEF b
<1>3. Fits([b EXCEPT !.processing = FALSE], top, twice)
  BY <1>1, FitsWhenDone
<1>4. QED
  BY <1>2, <1>3

-----------------------------------------------------------------------------
(* Requests *)

Ats == {"idle", "init", "greeted", "speaking", "report", "ask", "sound", "complete",
        "recover", "refresh", "create", "activate", "disable", "shutdown", "wait"}

LEMMA RestingIsGood ==
  ASSUME NEW at \in Ats, NEW top \in Nat
  PROVE  /\ GoodRequest(Resting(at), top)
         /\ Resting(at).at = at /\ Resting(at).phase = "none"
         /\ Resting(at).id = 0
<1>1. NewSession(0) \in Session
  BY ClientAssumption, NewSessionIsTyped
<1>2. Resting(at) \in Request
  <2>1. 0 \in 0..MaxSessions /\ "starting" \in State /\ "none" \in Says
    BY ClientAssumption DEF State, Says
  <2>2. QED
    BY <1>1, <2>1 DEF Resting, Request, Ats
<1>3. Resting(at).at = at /\ Resting(at).phase = "none" /\ Resting(at).id = 0
  BY DEF Resting
<1>4. QED
  BY <1>2, <1>3 DEF GoodRequest

LEMMA NamedIsGood ==
  ASSUME NEW q, NEW top, GoodRequest(q, top), q.phase = "none", NEW i \in 0..MaxSessions, i <= top
  PROVE  /\ GoodRequest([q EXCEPT !.id = i], top)
         /\ [q EXCEPT !.id = i].at = q.at /\ [q EXCEPT !.id = i].id = i
  BY DEF GoodRequest, Request

LEMMA SentIsGood ==
  ASSUME NEW at \in Asked, NEW top \in Nat, NEW p \in Page, p.id <= top
  PROVE  /\ GoodRequest(Sent(at, p), top)
         /\ Sent(at, p).at = at /\ Sent(at, p).id = p.id /\ Sent(at, p).phase = "sent"
<1>1. at \in Ats /\ p.id \in 0..MaxSessions
  BY DEF Asked, Ats, Page
<1> DEFINE q == Resting(at)
<1>2. GoodRequest(q, top) /\ q.at = at /\ q.phase = "none"
  BY <1>1, RestingIsGood
<1>3. Sent(at, p) = [q EXCEPT !.phase = "sent", !.id = p.id]
  BY DEF Sent
<1> HIDE DEF q
<1>4. /\ GoodRequest([q EXCEPT !.phase = "sent", !.id = p.id], top)
      /\ [q EXCEPT !.phase = "sent", !.id = p.id].at = at
      /\ [q EXCEPT !.phase = "sent", !.id = p.id].id = p.id
      /\ [q EXCEPT !.phase = "sent", !.id = p.id].phase = "sent"
  BY <1>1, <1>2 DEF GoodRequest, Request
<1>5. QED
  BY <1>3, <1>4

LEMMA ReportIsGood ==
  ASSUME NEW at \in Asked, NEW top \in Nat, NEW p \in Page, p.id <= top, NEW t \in State
  PROVE  /\ GoodRequest(Report(at, p, t), top)
         /\ Report(at, p, t).at = at /\ Report(at, p, t).id = p.id
<1>1. at \in Ats /\ p.id \in 0..MaxSessions
  BY DEF Asked, Ats, Page
<1> DEFINE z == Resting(at)
           y == Sent(at, p)
           q == Report(at, p, t)
<1>2. q = IF p.state = "shutdown" THEN [z EXCEPT !.id = p.id] ELSE [y EXCEPT !.to = t]
  BY DEF Report
<1>3. GoodRequest(z, top) /\ z.at = at /\ z.phase = "none"
  BY <1>1, RestingIsGood
<1>4. GoodRequest(y, top) /\ y.at = at /\ y.id = p.id
  BY SentIsGood
<1> HIDE DEF q, y, z
<1>5. /\ GoodRequest([z EXCEPT !.id = p.id], top)
      /\ [z EXCEPT !.id = p.id].at = at /\ [z EXCEPT !.id = p.id].id = p.id
  BY <1>1, <1>3, NamedIsGood
<1>6. /\ GoodRequest([y EXCEPT !.to = t], top)
      /\ [y EXCEPT !.to = t].at = at /\ [y EXCEPT !.to = t].id = p.id
  BY <1>4 DEF GoodRequest, Request
<1>7. GoodRequest(q, top) /\ q.at = at /\ q.id = p.id
  BY <1>2, <1>5, <1>6
<1>8. QED
  BY <1>7 DEF q

LEMMA PermissionIsGood ==
  ASSUME NEW q, NEW top, GoodRequest(q, top), NEW v \in {"granted", "denied"}
  PROVE  GoodRequest([q EXCEPT !.perm = v], top) /\ [q EXCEPT !.perm = v].at = q.at
  BY DEF GoodRequest, Request

-----------------------------------------------------------------------------
(* Steps *)

ServerKept == UNCHANGED <<server, profile, now>>
Bounded == left' \in [turns : Nat, events : Nat]

\* A step of the page, which knows its session or learns it now.
PageStep ==
  /\ ServerKept /\ Bounded
  /\ Fits(page', server.id, doubled') /\ doubled' \in BOOLEAN
  /\ job' \in [Jobs -> Request]
  /\ \A j \in Jobs : GoodRequest(job'[j], server.id)
  /\ job'["start"].at # "init" /\ Greeter(job'["start"], server, greetings')
  /\ \A q \in stray' : GoodStray(q, server.id)
  /\ greetings' \in [1..MaxSessions -> Nat] /\ GreetingsInv(greetings', server)

LEMMA PageStepKeeps ==
  ASSUME ClientInv, PageStep
  PROVE  ClientInv'
<1>1. ClientTypes'
  BY DEF ClientInv, ClientTypes, PageStep, ServerKept, Bounded, Fits
<1>2. page'.id <= server'.id /\ CaptureInv(page, doubled)' /\ Loading'
  BY DEF PageStep, ServerKept, Fits, CaptureInv, Silent, Loading
<1>3. GreetingsInv(greetings, server)' /\ Greeter(job["start"], server, greetings)'
  BY DEF PageStep, ServerKept, GreetingsInv, Greeter, Past
<1>4. /\ \A j \in Jobs : GoodRequest(job'[j], server'.id)
      /\ \A q \in stray' : GoodStray(q, server'.id)
  BY DEF PageStep, ServerKept
<1>5. QED
  BY <1>1, <1>2, <1>3, <1>4 DEF ClientInv, GoodRequest, GoodStray

LEMMA Types ==
  ASSUME ClientInv
  PROVE  /\ server.id \in Nat /\ server \in Session /\ doubled \in BOOLEAN
         /\ left \in [turns : Nat, events : Nat]
         /\ \A j \in Jobs : GoodRequest(job[j], server.id)
  BY ClientAssumption DEF ClientInv, ClientTypes, Session

\* A job that is under way is one of a page that knows its session.
LEMMA BusyIsReady ==
  ASSUME ClientInv,
         \/ page.ready
         \/ page.clock
         \/ \E j \in Jobs \ {"start"} : job[j].at # "idle"
         \/ job["start"].at \notin {"idle", "init"}
         \/ \E k \in Captures : page.mic[k] # "off"
  PROVE  Fits(page, server.id, doubled) /\ job["start"].at # "init"
<1>1. Idle.at = "idle"
  BY DEF Idle, Resting
<1>2. QED
  BY <1>1 DEF ClientInv, ClientTypes, Loading, Fits

\* The jobs that do not greet have nothing to know about greetings.
Plain(q) == q.at \notin {"init", "greeted", "speaking"}

LEMMA PlainIsGreeter ==
  ASSUME NEW q, Plain(q), NEW s, NEW spoken
  PROVE  Greeter(q, s, spoken) /\ q.at # "init"
  BY DEF Plain, Greeter

\* One job goes on with request q, and the page becomes p.
LEMMA FollowKeeps ==
  ASSUME ClientInv, NEW j \in Jobs, NEW q, GoodRequest(q, server.id),
         page.ready \/ j = "start", job["start"].at # "init" \/ j = "start",
         j = "start" => q.at # "init" /\ Greeter(q, server, greetings),
         NEW p, Fits(p, server.id, doubled), Follow(j, q, p),
         UNCHANGED <<stray, server, profile, now, greetings, doubled>>, Bounded
  PROVE  ClientInv'
<1>1. job' \in [Jobs -> Request] /\ \A i \in Jobs : job'[i] = IF i = j THEN q ELSE job[i]
  BY DEF Follow, ClientInv, ClientTypes, GoodRequest
<1>2. \A i \in Jobs : GoodRequest(job'[i], server.id)
  BY <1>1, Types
<1>3. job'["start"].at # "init" /\ Greeter(job'["start"], server, greetings)
  BY <1>1 DEF ClientInv, Jobs
<1>4. PageStep
  BY <1>1, <1>2, <1>3, Types DEF ClientInv, ClientTypes, PageStep, Follow, ServerKept
<1>5. QED
  BY <1>4, PageStepKeeps

\* A step of the page alone.
LEMMA PageAloneKeeps ==
  ASSUME ClientInv, page.ready, Fits(page', server.id, doubled'), doubled' \in BOOLEAN,
         UNCHANGED <<job, stray, server, profile, now, greetings>>, Bounded
  PROVE  ClientInv'
<1>1. job["start"].at # "init"
  BY DEF ClientInv, Loading
<1>2. PageStep
  BY <1>1, Types DEF ClientInv, ClientTypes, PageStep, ServerKept
<1>3. QED
  BY <1>2, PageStepKeeps

LEMMA CountedIsBounded ==
  ASSUME ClientInv, Counted \/ UNCHANGED left
  PROVE  Bounded
  BY Types DEF Counted, Bounded

LEMMA RecoverKeeps ==
  ASSUME ClientInv, NEW j \in Jobs, page.ready, job["start"].at # "init",
         NEW p, Fits(p, server.id, doubled), Recover(j, p),
         UNCHANGED <<stray, server, profile, now, greetings, doubled>>, Bounded
  PROVE  ClientInv'
<1>1. Fits(Ended(j, p), server.id, doubled) /\ p \in Page /\ p.id <= server.id
  BY EndedFits DEF Fits
<1>2. ResumeState(p) \in State
  BY DEF ResumeState, State
<1>3. "recover" \in Asked /\ "idle" \in Ats
  BY DEF Asked, Ats
<1>4. GoodRequest(Idle, server.id) /\ Plain(Idle)
  BY <1>3, Types, RestingIsGood DEF Idle, Plain
<1>5. /\ GoodRequest(Report("recover", p, ResumeState(p)), server.id)
      /\ Plain(Report("recover", p, ResumeState(p)))
  BY <1>1, <1>2, <1>3, Types, ReportIsGood DEF Plain
<1>6. CASE p.state = "shutdown"
  <2>1. Follow(j, Idle, Ended(j, p))
    BY <1>6 DEF Recover
  <2>2. QED
    BY <1>1, <1>4, <2>1, PlainIsGreeter, FollowKeeps
<1>7. CASE p.state # "shutdown"
  <2>1. Follow(j, Report("recover", p, ResumeState(p)), p)
    BY <1>7 DEF Recover
  <2>2. QED
    BY <1>5, <2>1, PlainIsGreeter, FollowKeeps
<1>8. QED
  BY <1>6, <1>7

-----------------------------------------------------------------------------
(* The jobs of the page *)

Known ==
  /\ Fits(page, server.id, doubled) /\ page \in Page /\ page.ready /\ page.id <= server.id
  /\ job["start"].at # "init"

LEMMA IdleIsGood ==
  ASSUME ClientInv
  PROVE  GoodRequest(Idle, server.id) /\ Plain(Idle)
  BY Types, RestingIsGood DEF Idle, Plain, Ats

LEMMA BusyIsKnown ==
  ASSUME ClientInv, NEW j \in Jobs, job[j].at \notin {"idle", "init"}
  PROVE  Known /\ Fits(Seen(page, job[j]), server.id, doubled)
<1>1. Known
  BY BusyIsReady DEF Known, Fits
<1>2. QED
  BY <1>1, Types, SeenFits DEF Known

\* A job of a page that knows its session goes on with a request without greeting.
LEMMA PlainFollowKeeps ==
  ASSUME ClientInv, Known, NEW j \in Jobs, NEW q, GoodRequest(q, server.id), Plain(q) \/ j # "start",
         NEW p, Fits(p, server.id, doubled), Follow(j, q, p),
         UNCHANGED <<stray, Rest, history>>, Counted \/ UNCHANGED left
  PROVE  ClientInv'
<1>1. UNCHANGED <<stray, server, profile, now, greetings, doubled>>
  BY DEF Rest, history
<1>2. j = "start" => q.at # "init" /\ Greeter(q, server, greetings)
  BY PlainIsGreeter
<1>3. QED
  BY <1>1, <1>2, CountedIsBounded, FollowKeeps DEF Known

LEMMA PlainRecoverKeeps ==
  ASSUME ClientInv, Known, NEW j \in Jobs, NEW p, Fits(p, server.id, doubled), Recover(j, p),
         UNCHANGED <<stray, Rest, history>>, Counted \/ UNCHANGED left
  PROVE  ClientInv'
<1>1. UNCHANGED <<stray, server, profile, now, greetings, doubled>>
  BY DEF Rest, history
<1>2. QED
  BY <1>1, CountedIsBounded, RecoverKeeps DEF Known

\* Requests a job goes on with.
LEMMA NextRequests ==
  ASSUME ClientInv, NEW p, Fits(p, server.id, doubled)
  PROVE  /\ \A at \in Asked : GoodRequest(Sent(at, p), server.id) /\ Sent(at, p).at = at
         /\ \A at \in Asked, t \in State :
              GoodRequest(Report(at, p, t), server.id) /\ Report(at, p, t).at = at
         /\ \A at \in {"sound", "wait", "speaking"} :
              GoodRequest(Resting(at), server.id) /\ Resting(at).at = at
<1>1. p \in Page /\ p.id <= server.id /\ server.id \in Nat
  BY Types DEF Fits
<1>2. {"sound", "wait", "speaking"} \subseteq Ats
  BY DEF Ats
<1>3. ASSUME NEW at \in Asked
      PROVE  GoodRequest(Sent(at, p), server.id) /\ Sent(at, p).at = at
  BY <1>1, SentIsGood
<1>4. ASSUME NEW at \in Asked, NEW t \in State
      PROVE  GoodRequest(Report(at, p, t), server.id) /\ Report(at, p, t).at = at
  BY <1>1, ReportIsGood
<1>5. ASSUME NEW at \in {"sound", "wait", "speaking"}
      PROVE  GoodRequest(Resting(at), server.id) /\ Resting(at).at = at
  BY <1>1, <1>2, RestingIsGood
<1>6. QED
  BY <1>3, <1>4, <1>5

LEMMA JobNames ==
  /\ Speakers \subseteq Jobs
  /\ {"start", "turn", "expire", "watch", "poll", "report", "activate", "disable", "shutdown"} = Jobs
  /\ {"start", "turn", "expire", "watch"} = Speakers
  BY DEF Speakers, Jobs

LEMMA SpeakerKeeps ==
  ASSUME ClientInv, NEW j \in Speakers, Recovered(j) \/ SpeechOver(j) \/ Completed(j)
  PROVE  ClientInv'
<1>0. j \in Jobs
  BY JobNames
<1>1. Known /\ Fits(Seen(page, job[j]), server.id, doubled)
  BY <1>0, BusyIsKnown DEF Recovered, SpeechOver, Completed, Answered
<1>2. CASE Recovered(j)
  <2>1. Fits(Ended(j, Scheduled(Seen(page, job[j]))), server.id, doubled)
    BY <1>1, ScheduledFits, EndedFits
  <2>2. QED
    BY <1>0, <1>1, <1>2, <2>1, IdleIsGood, PlainFollowKeeps DEF Recovered
<1>3. CASE SpeechOver(j)
  <2> DEFINE v == [page EXCEPT !.voice[j] = "quiet"]
             p == [page EXCEPT !.voice[j] = "quiet", !.greeting = IF j = "start" THEN FALSE ELSE @]
  <2>1. Fits(v, server.id, doubled) /\ v \in Page
    BY <1>1, FitsVoice, FitsIsPage DEF Known
  <2>2. Fits(p, server.id, doubled)
    <3>1. p = [v EXCEPT !.greeting = IF j = "start" THEN FALSE ELSE v.greeting]
      BY <1>1 DEF Known, Page
    <3> HIDE DEF v
    <3>2. Fits([v EXCEPT !.greeting = FALSE], server.id, doubled)
      BY <2>1, FitsWhenDone
    <3>3. [v EXCEPT !.greeting = v.greeting] = v
      BY <2>1 DEF Page
    <3>4. QED
      BY <2>1, <3>1, <3>2, <3>3
  <2>3. Follow(j, Idle, Ended(j, p)) \/ Follow(j, Sent("complete", p), p)
    BY <1>3 DEF SpeechOver
  <2>4. UNCHANGED <<stray, Rest, left, history>>
    BY <1>3 DEF SpeechOver
  <2> HIDE DEF p
  <2>5. Fits(Ended(j, p), server.id, doubled)
    BY <2>2, EndedFits
  <2>6. GoodRequest(Sent("complete", p), server.id) /\ Plain(Sent("complete", p))
    BY <2>2, NextRequests DEF Plain, Asked
  <2>7. QED
    BY <1>0, <1>1, <2>2, <2>3, <2>4, <2>5, <2>6, IdleIsGood, PlainFollowKeeps
<1>4. CASE Completed(j)
  <2> DEFINE p == Seen(page, job[j])
  <2>1. \/ Recover(j, page)
        \/ Follow(j, Idle, Ended(j, ScheduledIf(p.perm = "granted" /\ CanCapture(p), p)))
    BY <1>4 DEF Completed
  <2>2. Fits(Ended(j, ScheduledIf(p.perm = "granted" /\ CanCapture(p), p)), server.id, doubled)
    BY <1>1, ScheduledFits, EndedFits
  <2>3. UNCHANGED <<stray, Rest, left, history>>
    BY <1>4 DEF Completed
  <2> HIDE DEF p
  <2>4. QED
    BY <1>0, <1>1, <2>1, <2>2, <2>3, IdleIsGood, PlainFollowKeeps, PlainRecoverKeeps DEF Known
<1>5. QED
  BY <1>2, <1>3, <1>4

-----------------------------------------------------------------------------
(* The greeting *)

LEMMA InitAnsweredKeeps ==
  ASSUME ClientInv, InitAnswered
  PROVE  ClientInv'
<1> DEFINE q == job["start"]
           r == q.snap
           a == Applied(page, r)
           p == [a EXCEPT !.ready = TRUE]
<1>0. "start" \in Jobs /\ UNCHANGED <<stray, server, profile, now, greetings, doubled>> /\ Bounded
  BY JobNames, CountedIsBounded DEF InitAnswered, Rest, history
<1>1. /\ q.at = "init" /\ q.phase # "sent" /\ ~page.ready
      /\ \A k \in Captures : page.mic[k] = "off"
  BY DEF InitAnswered, Answered, ClientInv, Loading
<1>2. CASE q.phase = "failed"
  <2>1. page' = page /\ job' = [job EXCEPT !["start"] = Idle]
    BY <1>2 DEF InitAnswered, Failed, Follow
  <2>2. job' \in [Jobs -> Request] /\ \A j \in Jobs : job'[j] = IF j = "start" THEN Idle ELSE job[j]
    BY <2>1, IdleIsGood DEF ClientInv, ClientTypes, GoodRequest
  <2>3. Idle.at = "idle"
    BY DEF Idle, Resting
  <2>4. Loading' /\ Greeter(job["start"], server, greetings)'
    BY <1>0, <1>1, <2>1, <2>2, <2>3 DEF ClientInv, Loading, Greeter
  <2>5. /\ ClientTypes' /\ page'.id <= server'.id /\ CaptureInv(page, doubled)'
        /\ GreetingsInv(greetings, server)'
    BY <1>0, <2>1, <2>2 DEF ClientInv, ClientTypes, CaptureInv, Silent, GreetingsInv, Past, Bounded
  <2>6. /\ \A j \in Jobs : GoodRequest(job'[j], server'.id)
        /\ \A x \in stray' : GoodStray(x, server'.id)
    BY <1>0, <2>2, IdleIsGood DEF ClientInv
  <2>7. QED
    BY <2>4, <2>5, <2>6 DEF ClientInv, GoodRequest, GoodStray
<1>3. CASE q.phase # "failed"
  <2>1. q.phase = "back" /\ r \in Session /\ r.id <= server.id /\ r.id > 0
        /\ (~r.greeted => greetings[r.id] = 0)
    BY <1>0, <1>1, <1>3, Types DEF ClientInv, Greeter, GoodRequest, Request
  <2>2. /\ a \in Page /\ a.id = r.id /\ CaptureInv(a, doubled)
        /\ \A k \in Captures : a.mic[k] = "off"
    <3>1. page \in Page /\ page.id <= server.id /\ CaptureInv(page, doubled)
      BY DEF ClientInv, ClientTypes
    <3> HIDE DEF r
    <3>2. a \in Page /\ a.id = r.id /\ CaptureInv(a, doubled) /\ a.mic = page.mic
      BY <2>1, <3>1, AppliedFits
    <3>3. QED
      BY <1>1, <3>2
  <2> HIDE DEF a
  <2>3. Fits(p, server.id, doubled) /\ Silent(p) /\ p.id = r.id
    <3>1. p \in Page /\ p.ready /\ p.id = a.id /\ p.mic = a.mic /\ p.rec = a.rec
          /\ p.processing = a.processing /\ p.greeting = a.greeting
      BY <2>2 DEF Page
    <3> HIDE DEF p
    <3>2. QED
      BY <2>1, <2>2, <3>1 DEF Fits, CaptureInv, Silent
  <2>4. \/ Follow("start", Sent("greeted", p), [p EXCEPT !.greeting = TRUE]) /\ ~r.greeted
        \/ Follow("start", Idle, [ScheduledIf(p.perm = "granted" /\ CanCapture(p), p) EXCEPT !.clock = TRUE])
    BY <1>3 DEF InitAnswered, Failed, a
  <2> HIDE DEF p
  <2>5. Fits([p EXCEPT !.greeting = TRUE], server.id, doubled)
    BY <2>3, FitsWhenDone
  <2>6. Fits([ScheduledIf(p.perm = "granted" /\ CanCapture(p), p) EXCEPT !.clock = TRUE], server.id, doubled)
    BY <2>3, ScheduledFits, FitsWhatever
  <2>7. /\ GoodRequest(Sent("greeted", p), server.id) /\ Sent("greeted", p).at = "greeted"
        /\ Sent("greeted", p).id = r.id /\ Sent("greeted", p).phase = "sent"
    BY <2>3, Types, SentIsGood DEF Fits, Asked
  <2>8. ~r.greeted => Greeter(Sent("greeted", p), server, greetings)
    BY <2>1, <2>7 DEF Greeter
  <2>9. CASE Follow("start", Sent("greeted", p), [p EXCEPT !.greeting = TRUE]) /\ ~r.greeted
    BY <1>0, <2>5, <2>7, <2>8, <2>9, FollowKeeps
  <2>10. CASE Follow("start", Idle, [ScheduledIf(p.perm = "granted" /\ CanCapture(p), p) EXCEPT !.clock = TRUE])
    BY <1>0, <2>6, <2>10, IdleIsGood, PlainIsGreeter, FollowKeeps
  <2>11. QED
    BY <2>4, <2>9, <2>10
<1>4. QED
  BY <1>2, <1>3

LEMMA GreetedAnsweredKeeps ==
  ASSUME ClientInv, GreetedAnswered
  PROVE  ClientInv'
<1> DEFINE q == job["start"]
           s == Seen(page, q)
           p == StopCapture(s)
<1>0. "start" \in Jobs /\ q.at = "greeted" /\ q.phase # "sent"
  BY JobNames DEF GreetedAnswered, Answered
<1>1. Known /\ Fits(s, server.id, doubled)
  BY <1>0, BusyIsKnown
<1>2. CASE q.phase = "failed"
  <2>1. Follow("start", Idle, [page EXCEPT !.greeting = FALSE]) /\ UNCHANGED <<stray, Rest, left, history>>
    BY <1>2 DEF GreetedAnswered, Failed
  <2>2. Fits([page EXCEPT !.greeting = FALSE], server.id, doubled)
    BY <1>1, FitsWhenDone DEF Known
  <2>3. QED
    BY <1>0, <1>1, <2>1, <2>2, IdleIsGood, PlainFollowKeeps
<1>3. CASE q.phase # "failed"
  <2>1. /\ q.phase = "back" /\ q.id > 0 /\ greetings[q.id] = 0
        /\ q.snap.id = q.id /\ Past(q.id, server) /\ q.snap \in Session /\ q.snap.id <= server.id
    BY <1>0, <1>3, Types DEF ClientInv, Greeter, GoodRequest, Request
  <2>2. s = Applied(page, q.snap) /\ s.id = q.id
    BY <1>1, <2>1, AppliedFits DEF Seen, Known, Fits
  <2>3. Fits(p, server.id, doubled) /\ p.id = s.id
    <3> HIDE DEF s
    <3> QED BY <1>1, StopCaptureFits
  <2>4. Follow("start", Report("speaking", p, "speaking"), p) /\ UNCHANGED <<stray, Rest, left, history>>
    BY <1>3 DEF GreetedAnswered, Failed
  <2> HIDE DEF p, s
  <2>5. /\ GoodRequest(Report("speaking", p, "speaking"), server.id)
        /\ Report("speaking", p, "speaking").at = "speaking"
        /\ Report("speaking", p, "speaking").id = q.id
    <3>1. p \in Page /\ p.id <= server.id /\ p.id = q.id /\ server.id \in Nat
      BY <2>2, <2>3, Types DEF Fits
    <3>2. "speaking" \in Asked /\ "speaking" \in State
      BY DEF Asked, State
    <3> HIDE DEF q
    <3>3. QED
      BY <3>1, <3>2, ReportIsGood
  <2>6. Greeter(Report("speaking", p, "speaking"), server, greetings)
    BY <2>1, <2>5 DEF Greeter
  <2>7. UNCHANGED <<stray, server, profile, now, greetings, doubled>> /\ Bounded
    BY <2>4, CountedIsBounded DEF Rest, history
  <2>8. QED
    BY <1>0, <2>3, <2>4, <2>5, <2>6, <2>7, FollowKeeps
<1>4. QED
  BY <1>2, <1>3

LEMMA GreetKeeps ==
  ASSUME ClientInv, Greet
  PROVE  ClientInv'
<1> DEFINE q == job["start"]
           s == Seen(page, q)
           v == [s EXCEPT !.voice["start"] = "sounds"]
<1>0. "start" \in Jobs /\ q.at = "speaking" /\ q \in Request
  BY JobNames DEF Greet, Answered, ClientInv, ClientTypes
<1>1. Known /\ Fits(s, server.id, doubled)
  BY <1>0, BusyIsKnown
<1>2. q.id \in 1..MaxSessions /\ greetings[q.id] = 0 /\ Past(q.id, server)
  <2>1. q.id \in 0..MaxSessions /\ MaxSessions \in Nat
    BY <1>0, ClientAssumption DEF Request
  <2>2. QED
    BY <1>0, <2>1 DEF ClientInv, Greeter
<1>3. greetings' = [greetings EXCEPT ![q.id] = greetings[q.id] + 1]
  BY DEF Greet
<1>4. greetings' \in [1..MaxSessions -> Nat] /\ GreetingsInv(greetings', server)
  <2>1. \A i \in 1..MaxSessions : greetings'[i] = IF i = q.id THEN 1 ELSE greetings[i]
    BY <1>2, <1>3 DEF ClientInv, ClientTypes
  <2>2. greetings' \in [1..MaxSessions -> Nat]
    BY <1>2, <1>3 DEF ClientInv, ClientTypes
  <2>3. QED
    BY <1>2, <2>1, <2>2 DEF ClientInv, GreetingsInv
<1>5. Fits(page', server.id, doubled')
  <2>1. page' = [s EXCEPT !.voice["start"] = "sounds", !.clock = TRUE] /\ doubled' = doubled
    BY DEF Greet, Follow
  <2>2. page' = [v EXCEPT !.clock = TRUE]
    BY <2>1
  <2>3. Fits(v, server.id, doubled)
    <3> HIDE DEF s
    <3> QED BY <1>1, JobNames, FitsVoice
  <2> HIDE DEF v
  <2>4. Fits([v EXCEPT !.clock = TRUE], server.id, doubled)
    BY <2>3, FitsWhatever
  <2>5. QED
    BY <2>1, <2>2, <2>4
<1>6. job' = [job EXCEPT !["start"] = Resting("sound")]
  BY DEF Greet, Follow
<1>7. /\ GoodRequest(Resting("sound"), server.id) /\ Plain(Resting("sound"))
  BY Types, RestingIsGood DEF Ats, Plain
<1>8. job' \in [Jobs -> Request] /\ \A j \in Jobs : job'[j] = IF j = "start" THEN Resting("sound") ELSE job[j]
  BY <1>6, <1>7 DEF ClientInv, ClientTypes, GoodRequest
<1>9. /\ \A j \in Jobs : GoodRequest(job'[j], server.id)
      /\ job'["start"].at # "init" /\ Greeter(job'["start"], server, greetings')
  BY <1>0, <1>7, <1>8, Types, PlainIsGreeter
<1>10. ServerKept /\ Bounded /\ stray' = stray /\ doubled' = doubled
  BY CountedIsBounded DEF Greet, Rest, ServerKept
<1>11. PageStep
  BY <1>4, <1>5, <1>8, <1>9, <1>10, Types DEF PageStep, ClientInv
<1>12. QED
  BY <1>11, PageStepKeeps

-----------------------------------------------------------------------------
(* Captures *)

WithMic(p, k, v) == [p EXCEPT !.mic[k] = v]
WithRec(p, v)    == [p EXCEPT !.rec = v]

MicOnly(p, q, k, v) ==
  /\ q \in Page /\ q.rec = p.rec /\ q.ready = p.ready /\ q.id = p.id
  /\ q.processing = p.processing /\ q.greeting = p.greeting /\ q.state = p.state
  /\ q.mic[k] = v /\ \A l \in Captures \ {k} : q.mic[l] = p.mic[l]

LEMMA MicColumn ==
  ASSUME NEW p \in Page, NEW k \in Captures,
         NEW v \in {"off", "asking", "activating", "on", "ending"}
  PROVE  MicOnly(p, WithMic(p, k, v), k, v)
<1> DEFINE f == [p.mic EXCEPT ![k] = v]
           q == [p EXCEPT !.mic = f]
<1>1. f \in [Captures -> {"off", "asking", "activating", "on", "ending"}]
  BY DEF Page
<1>2. f[k] = v /\ \A l \in Captures \ {k} : f[l] = p.mic[l]
  BY DEF Page
<1>3. WithMic(p, k, v) = q
  BY DEF WithMic
<1> HIDE DEF f
<1>4. q \in Page
  BY <1>1, PageColumns
<1>5. /\ q.rec = p.rec /\ q.ready = p.ready /\ q.id = p.id /\ q.mic = f
      /\ q.processing = p.processing /\ q.greeting = p.greeting /\ q.state = p.state
  BY DEF Page
<1> HIDE DEF q
<1>6. QED
  BY <1>2, <1>3, <1>4, <1>5 DEF MicOnly

LEMMA RecColumn ==
  ASSUME NEW p \in Page, NEW v \in Captures \cup {None}
  PROVE  /\ WithRec(p, v) \in Page /\ WithRec(p, v).rec = v
         /\ WithRec(p, v).ready = p.ready /\ WithRec(p, v).id = p.id
         /\ WithRec(p, v).mic = p.mic /\ WithRec(p, v).processing = p.processing
         /\ WithRec(p, v).greeting = p.greeting /\ WithRec(p, v).state = p.state
<1>1. WithRec(p, v) \in Page
  BY PageColumns DEF WithRec
<1>2. QED
  BY DEF Page, WithRec

\* A capture that ends or waits leaves the others apart.
LEMMA QuietMicFits ==
  ASSUME NEW p, NEW top, NEW twice, Fits(p, top, twice), NEW k \in Captures,
         NEW v \in {"off", "ending"}, p.mic[k] # "off", p.rec = k => v = "ending"
  PROVE  Fits(WithMic(p, k, v), top, twice)
<1> DEFINE q == WithMic(p, k, v)
<1>1. p \in Page /\ p.ready /\ p.id <= top /\ CaptureInv(p, twice)
  BY DEF Fits
<1>2. MicOnly(p, q, k, v)
  BY <1>1, MicColumn
<1> HIDE DEF q
<1>3. q.rec # None => q.mic[q.rec] \in {"on", "ending"}
  <2>1. p.rec \in Captures \cup {None}
    BY <1>1 DEF Page
  <2>2. QED
    BY <1>1, <1>2, <2>1 DEF CaptureInv, MicOnly
<1>4. CaptureInv(q, twice)
  BY <1>1, <1>2, <1>3 DEF CaptureInv, Silent, MicOnly
<1>5. QED
  BY <1>1, <1>2, <1>4 DEF Fits, q, MicOnly

\* Forgetting the capture that is over.
LEMMA OverFits ==
  ASSUME NEW p, NEW top, NEW twice, Fits(p, top, twice), NEW k \in Captures, p.mic[k] # "off",
         NEW r \in {None, p.rec}, r # k
  PROVE  /\ Fits(WithMic(WithRec(p, r), k, "off"), top, twice)
         /\ WithMic(WithRec(p, r), k, "off").processing = p.processing
         /\ WithMic(WithRec(p, r), k, "off").state = p.state
         /\ twice \/ Silent(WithMic(WithRec(p, r), k, "off"))
<1> DEFINE a == WithRec(p, r)
           q == WithMic(a, k, "off")
<1>1. p \in Page /\ p.ready /\ p.id <= top /\ CaptureInv(p, twice)
  BY DEF Fits
<1>2. /\ a \in Page /\ a.rec = r /\ a.ready = p.ready /\ a.id = p.id /\ a.mic = p.mic
      /\ a.processing = p.processing /\ a.greeting = p.greeting /\ a.state = p.state
  <2>1. r \in Captures \cup {None}
    BY <1>1 DEF Page
  <2>2. QED
    BY <1>1, <2>1, RecColumn
<1> HIDE DEF a
<1>4. MicOnly(a, q, k, "off")
  BY <1>2, MicColumn
<1> HIDE DEF q
<1>5. r # None => r = p.rec /\ r \in Captures \ {k}
  BY <1>1 DEF Page
<1>6. CaptureInv(q, twice)
  BY <1>1, <1>2, <1>4, <1>5 DEF CaptureInv, Silent, MicOnly
<1>7. twice \/ Silent(q)
  BY <1>1, <1>2, <1>4 DEF CaptureInv, Silent, MicOnly
<1>8. Fits(q, top, twice) /\ q.processing = p.processing /\ q.state = p.state
  BY <1>1, <1>2, <1>4, <1>6 DEF Fits, MicOnly
<1>9. QED
  BY <1>7, <1>8 DEF a, q

LEMMA StartedFits ==
  ASSUME NEW p, NEW top, NEW twice, Fits(p, top, twice), NEW how \in {"asking", "activating"},
         NEW q \in Started(p, how), NEW both,
         twice => both,
         ~both => \A k, l \in Captures : q.mic[k] # "off" /\ q.mic[l] # "off" => k = l
  PROVE  Fits(q, top, both)
<1>1. p \in Page /\ p.ready /\ p.id <= top /\ CaptureInv(p, twice)
  BY DEF Fits
<1>2. CASE q = p
  <2>1. CaptureInv(p, both)
    BY <1>1, <1>2 DEF CaptureInv
  <2>2. QED
    BY <1>1, <1>2, <2>1 DEF Fits
<1>3. CASE q # p
  <2>1. PICK k \in Fresh(p) : q = WithMic(p, k, how)
    BY <1>3 DEF Started, WithMic
  <2>2. CanCapture(p) /\ p.rec = None
    BY <1>3 DEF Started
  <2>3. k \in Captures /\ p.mic[k] = "off"
    BY <2>1 DEF Fresh, Free
  <2>4. MicOnly(p, q, k, how)
    BY <1>1, <2>1, <2>3, MicColumn
  <2>5. ~q.processing /\ ~q.greeting /\ q.rec = None
    BY <2>2, <2>4 DEF CanCapture, MicOnly
  <2>6. ~both => \A l \in Captures : q.mic[l] # "on"
    <3>1. SUFFICES ASSUME ~both, NEW l \in Captures, q.mic[l] = "on" PROVE FALSE
      OBVIOUS
    <3>2. p.mic[l] = "on"
      BY <2>4, <3>1 DEF MicOnly
    <3>3. p.rec = l
      BY <1>1, <3>1, <3>2 DEF CaptureInv
    <3>4. QED
      BY <2>2, <3>3, ClientAssumption
  <2>7. CaptureInv(q, both)
    BY <2>5, <2>6 DEF CaptureInv
  <2>8. QED
    BY <1>1, <2>4, <2>7 DEF Fits, MicOnly
<1>4. QED
  BY <1>2, <1>3

\* Two captures at once are noticed when the second begins.
LEMMA BegunMeans ==
  ASSUME doubled \in BOOLEAN, NEW p, Begun(p)
  PROVE  /\ doubled' \in BOOLEAN /\ (doubled => doubled')
         /\ ~doubled' => \A k, l \in Captures : p.mic[k] # "off" /\ p.mic[l] # "off" => k = l
         /\ (\A k \in Captures : p.mic[k] = "off") => doubled' = doubled
<1> DEFINE S == {k \in Captures : p.mic[k] # "off"}
<1>1. doubled' = (doubled \/ Cardinality(S) > 1)
  BY DEF Begun
<1>2. IsFiniteSet(S) /\ S \subseteq Captures
  BY ClientAssumption, FS_Subset
<1>3. ASSUME Cardinality(S) <= 1, NEW k \in S, NEW l \in S, k # l
      PROVE  FALSE
  <2>1. IsFiniteSet({k}) /\ Cardinality({k}) = 1
    BY FS_Singleton
  <2>2. IsFiniteSet({k, l}) /\ Cardinality({k, l}) = 2
    <3>1. {k} \cup {l} = {k, l} /\ l \notin {k}
      BY <1>3
    <3>2. IsFiniteSet({k} \cup {l}) /\ Cardinality({k} \cup {l}) = Cardinality({k}) + 1
      BY <2>1, <3>1, FS_AddElement
    <3>3. QED
      BY <2>1, <3>1, <3>2
  <2>3. Cardinality({k, l}) <= Cardinality(S)
    <3>1. {k, l} \subseteq S
      BY <1>3
    <3>2. QED
      BY <1>2, <3>1, FS_Subset
  <2>4. Cardinality(S) \in Nat
    BY <1>2, FS_CardinalityType
  <2>5. QED
    BY <1>3, <2>2, <2>3, <2>4
<1>4. Cardinality(S) \in Nat
  BY <1>2, FS_CardinalityType
<1>5. (\A k \in Captures : p.mic[k] = "off") => Cardinality(S) = 0
  <2>1. (\A k \in Captures : p.mic[k] = "off") => S = {}
    OBVIOUS
  <2>2. QED
    BY <2>1, FS_EmptySet
<1> DEFINE many == Cardinality(S) > 1
<1> HIDE DEF S
<1>10. (~many => Cardinality(S) <= 1) /\ (Cardinality(S) = 0 => ~many) /\ many \in BOOLEAN
  BY <1>4
<1>11. doubled' = (doubled \/ many)
  BY <1>1
<1> HIDE DEF many
<1>6. doubled' \in BOOLEAN /\ (doubled => doubled') /\ (~doubled' => Cardinality(S) <= 1)
  BY <1>10, <1>11
<1>7. Cardinality(S) = 0 => doubled' = doubled
  BY <1>10, <1>11
<1>8. ~doubled' => \A k, l \in S : k = l
  BY <1>3, <1>6
<1>9. QED
  BY <1>5, <1>6, <1>7, <1>8 DEF S

\* A page that still waits for its session can only be shown, hidden or idle.
LEMMA LoadingKeeps ==
  ASSUME ClientInv, ~page.ready, page' \in Page, page'.id = page.id, ~page'.ready,
         page'.state = "starting", ~page'.clock, page'.mic = page.mic,
         page'.rec \in {page.rec, None}, page'.processing = page.processing,
         page'.greeting = page.greeting,
         UNCHANGED <<job, stray, server, profile, now, greetings, doubled>>, Bounded
  PROVE  ClientInv'
<1>0. page.rec = None /\ \A k \in Captures : page.mic[k] = "off"
  BY DEF ClientInv, ClientTypes, Page, CaptureInv, Loading
<1>1. CaptureInv(page, doubled)'
  BY <1>0 DEF CaptureInv, Silent
<1>2. Loading'
  BY DEF ClientInv, Loading
<1>3. /\ ClientTypes' /\ page'.id <= server'.id
      /\ GreetingsInv(greetings, server)' /\ Greeter(job["start"], server, greetings)'
  BY DEF ClientInv, ClientTypes, GreetingsInv, Greeter, Past, Bounded
<1>4. /\ \A j \in Jobs : GoodRequest(job'[j], server'.id)
      /\ \A q \in stray' : GoodStray(q, server'.id)
  BY DEF ClientInv
<1>5. QED
  BY <1>1, <1>2, <1>3, <1>4 DEF ClientInv, GoodRequest, GoodStray

LEMMA TimerColumn ==
  ASSUME NEW p \in Page, NEW v \in BOOLEAN
  PROVE  LET q == [p EXCEPT !.timer = v]
         IN /\ q \in Page /\ q.id = p.id /\ q.ready = p.ready /\ q.state = p.state
            /\ q.clock = p.clock /\ q.mic = p.mic /\ q.rec = p.rec
            /\ q.processing = p.processing /\ q.greeting = p.greeting
<1>1. [p EXCEPT !.timer = v] \in Page
  BY PageColumns
<1>2. QED
  BY <1>1 DEF Page

LEMMA FireTimerKeeps ==
  ASSUME ClientInv, FireTimer
  PROVE  ClientInv'
<1> DEFINE p == [page EXCEPT !.timer = FALSE]
<1>0. /\ page' \in Started(p, "asking") /\ Begun(page')
      /\ UNCHANGED <<job, stray, server, profile, now, greetings>> /\ Bounded
  BY CountedIsBounded DEF FireTimer, Rest
<1>1. page \in Page /\ doubled \in BOOLEAN
  BY DEF ClientInv, ClientTypes
<1>2. /\ doubled' \in BOOLEAN /\ (doubled => doubled')
      /\ ~doubled' => \A k, l \in Captures : page'.mic[k] # "off" /\ page'.mic[l] # "off" => k = l
      /\ (\A k \in Captures : page'.mic[k] = "off") => doubled' = doubled
  BY <1>0, <1>1, BegunMeans
<1>3. CASE page.ready
  <2>1. Fits(p, server.id, doubled)
    BY <1>3, BusyIsReady, FitsWhatever
  <2> HIDE DEF p
  <2>2. Fits(page', server.id, doubled')
    BY <1>0, <1>2, <2>1, StartedFits
  <2>3. QED
    BY <1>0, <1>2, <1>3, <2>2, PageAloneKeeps
<1>4. CASE ~page.ready
  <2>1. /\ p \in Page /\ p.id = page.id /\ p.ready = page.ready /\ p.state = page.state
        /\ p.clock = page.clock /\ p.mic = page.mic /\ p.rec = page.rec
        /\ p.processing = page.processing /\ p.greeting = page.greeting
    BY <1>1, TimerColumn
  <2> HIDE DEF p
  <2>2. page.state = "starting" /\ ~page.clock /\ \A k \in Captures : page.mic[k] = "off"
    BY <1>4 DEF ClientInv, Loading
  <2>3. page' = p
    BY <1>0, <2>1, <2>2 DEF Started, CanCapture
  <2>4. doubled' = doubled
    BY <1>2, <2>1, <2>2, <2>3
  <2>5. QED
    BY <1>0, <1>4, <2>1, <2>2, <2>3, <2>4, LoadingKeeps
<1>5. QED
  BY <1>3, <1>4

\* The microphone that is waited for belongs to a page that knows its session.
LEMMA AskingIsKnown ==
  ASSUME ClientInv, NEW k \in Captures, page.mic[k] # "off"
  PROVE  Known
  BY BusyIsReady DEF Known, Fits

LEMMA GrantedKeeps ==
  ASSUME ClientInv, NEW k \in Captures, Granted(k)
  PROVE  ClientInv'
<1> DEFINE a == [page EXCEPT !.perm = "granted"]
           b == [a EXCEPT !.stream = k]
           p == [page EXCEPT !.perm = "granted", !.stream = k, !.live = @ \cup {k}]
           q == [Report("report", p, p.state) EXCEPT !.perm = "granted"]
           on == [p EXCEPT !.rec = k, !.mic[k] = "on"]
           off == [p EXCEPT !.mic[k] = "off"]
<1>0. "report" \in Jobs /\ page.mic[k] \in {"asking", "activating"} /\ Known
  BY JobNames, AskingIsKnown DEF Granted, Asking
<1>1. Fits(p, server.id, doubled) /\ p.mic = page.mic /\ p \in Page
  <2>1. p = [b EXCEPT !.live = page.live \cup {k}]
    BY <1>0 DEF Known, Page
  <2>2. Fits(a, server.id, doubled)
    BY <1>0, FitsWhatever DEF Known
  <2>3. Fits(b, server.id, doubled)
    <3> HIDE DEF a
    <3> QED BY <2>2, FitsWhatever
  <2>4. page.live \cup {k} \in SUBSET Captures
    BY <1>0 DEF Known, Page
  <2>5. Fits([b EXCEPT !.live = page.live \cup {k}], server.id, doubled)
    <3> HIDE DEF b
    <3> QED BY <2>3, <2>4, FitsWhatever
  <2>6. p.mic = page.mic
    BY <1>0 DEF Known, Page
  <2>7. QED
    <3> HIDE DEF p, b
    <3> QED BY <2>1, <2>5, <2>6, FitsIsPage
<1>2. /\ Follow("report", q, IF CanCapture(p) THEN on ELSE Released(off))
      /\ UNCHANGED <<stray, Rest, left, history>>
  BY DEF Granted
<1> HIDE DEF p
<1>3. GoodRequest(q, server.id)
  <2> DEFINE z == Report("report", p, p.state)
  <2>1. p.state \in State
    BY <1>1 DEF Page
  <2>2. GoodRequest(z, server.id)
    BY <1>1, <2>1, NextRequests DEF Asked
  <2> HIDE DEF z
  <2>3. GoodRequest([z EXCEPT !.perm = "granted"], server.id)
    BY <2>2, PermissionIsGood
  <2>4. QED
    BY <2>3 DEF z
<1>4. p.rec # k
  BY <1>0, <1>1, ClientAssumption DEF Fits, CaptureInv
<1>5. Fits(Released(off), server.id, doubled)
  <2>1. off = WithMic(p, k, "off")
    BY DEF WithMic
  <2>2. Fits(off, server.id, doubled)
    BY <1>0, <1>1, <1>4, <2>1, QuietMicFits
  <2> HIDE DEF off
  <2>3. QED
    BY <2>2, ReleasedFits
<1>6. CanCapture(p) => Fits(on, server.id, doubled)
  <2> DEFINE r == WithRec(p, k)
             o == WithMic(r, k, "on")
  <2>1. SUFFICES ASSUME CanCapture(p) PROVE Fits(on, server.id, doubled)
    OBVIOUS
  <2>2. on = o
    BY DEF WithMic, WithRec
  <2>3. /\ r \in Page /\ r.rec = k /\ r.ready = p.ready /\ r.id = p.id /\ r.mic = p.mic
        /\ r.processing = p.processing /\ r.greeting = p.greeting
    BY <1>1, RecColumn
  <2> HIDE DEF r
  <2>4. MicOnly(r, o, k, "on")
    BY <2>3, MicColumn
  <2> HIDE DEF o
  <2>5. ~o.processing /\ ~o.greeting
    BY <2>1, <2>3, <2>4 DEF CanCapture, MicOnly
  <2>6. CaptureInv(o, doubled)
    BY <1>0, <1>1, <2>3, <2>4, <2>5 DEF Fits, CaptureInv, MicOnly
  <2>7. QED
    <3> HIDE DEF on
    <3> QED BY <1>1, <2>2, <2>3, <2>4, <2>6 DEF Fits, MicOnly
<1> HIDE DEF q, on, off
<1>7. Fits(IF CanCapture(p) THEN on ELSE Released(off), server.id, doubled)
  BY <1>5, <1>6
<1>8. QED
  BY <1>0, <1>2, <1>3, <1>7, PlainFollowKeeps

LEMMA DeniedKeeps ==
  ASSUME ClientInv, NEW k \in Captures, Denied(k)
  PROVE  ClientInv'
<1> DEFINE a == [page EXCEPT !.perm = "denied"]
           p == [page EXCEPT !.perm = "denied", !.mic[k] = "off"]
           z == Report("report", p, "error")
           q == [z EXCEPT !.perm = "denied"]
           b == page.mic[k] = "asking" /\ CanCapture(p)
<1>0. "report" \in Jobs /\ page.mic[k] \in {"asking", "activating"} /\ Known
  BY JobNames, AskingIsKnown DEF Denied, Asking
<1>1. Fits(a, server.id, doubled) /\ a.mic = page.mic
  BY <1>0, FitsWhatever DEF Known, Page
<1>2. p = WithMic(a, k, "off")
  BY DEF WithMic
<1>3. Fits(p, server.id, doubled)
  <2> HIDE DEF a, p
  <2>1. a.rec # k
    BY <1>0, <1>1, ClientAssumption DEF Fits, CaptureInv
  <2>2. QED
    BY <1>0, <1>1, <1>2, <2>1, QuietMicFits
<1>4. Follow("report", q, ScheduledIf(b, p)) /\ UNCHANGED <<stray, Rest, history>> /\ Counted
  BY DEF Denied
<1> HIDE DEF p, b
<1>5. Fits(ScheduledIf(b, p), server.id, doubled)
  BY <1>3, ScheduledFits
<1>6. GoodRequest(q, server.id)
  <2>1. GoodRequest(z, server.id)
    BY <1>3, NextRequests DEF Asked, State
  <2> HIDE DEF z
  <2>2. GoodRequest([z EXCEPT !.perm = "denied"], server.id)
    BY <2>1, PermissionIsGood
  <2>3. QED
    BY <2>2
<1> HIDE DEF q
<1>7. QED
  BY <1>0, <1>4, <1>5, <1>6, PlainFollowKeeps

LEMMA RecognitionDeniedKeeps ==
  ASSUME ClientInv, NEW k \in Captures, RecognitionDenied(k)
  PROVE  ClientInv'
<1> DEFINE a == [page EXCEPT !.perm = "denied"]
           e == [page EXCEPT !.perm = "denied", !.mic[k] = "ending"]
           p == StopCapture(e)
           z == Report("report", p, "error")
           q == [z EXCEPT !.perm = "denied"]
<1>0. "report" \in Jobs /\ page.mic[k] # "off" /\ Known
  BY JobNames, AskingIsKnown DEF RecognitionDenied
<1>1. Fits(a, server.id, doubled) /\ a.mic = page.mic
  BY <1>0, FitsWhatever DEF Known, Page
<1>2. e = WithMic(a, k, "ending")
  BY DEF WithMic
<1>3. Fits(e, server.id, doubled)
  <2> HIDE DEF a, e
  <2>1. QED
    BY <1>0, <1>1, <1>2, QuietMicFits
<1>4. Follow("report", q, p) /\ UNCHANGED <<stray, Rest, history>> /\ Counted
  BY DEF RecognitionDenied
<1> HIDE DEF e
<1>5. Fits(p, server.id, doubled)
  BY <1>3, StopCaptureFits
<1> HIDE DEF p
<1>6. GoodRequest(q, server.id)
  <2>1. GoodRequest(z, server.id)
    BY <1>5, NextRequests DEF Asked, State
  <2> HIDE DEF z
  <2>2. GoodRequest([z EXCEPT !.perm = "denied"], server.id)
    BY <2>1, PermissionIsGood
  <2>3. QED
    BY <2>2
<1> HIDE DEF q
<1>7. QED
  BY <1>0, <1>4, <1>5, <1>6, PlainFollowKeeps

LEMMA ReportSeenKeeps ==
  ASSUME ClientInv, ReportSeen
  PROVE  ClientInv'
<1>1. "report" \in Jobs /\ job["report"].at = "report"
  BY JobNames DEF ReportSeen, Answered
<1>2. Known /\ Fits(Seen(page, job["report"]), server.id, doubled)
  BY <1>1, BusyIsKnown
<1>3. QED
  BY <1>1, <1>2, IdleIsGood, PlainFollowKeeps DEF ReportSeen

\* A turn begins while nothing is heard.
LEMMA BeginTurnKeeps ==
  ASSUME ClientInv, Known, NEW p, Fits(p, server.id, doubled), doubled \/ Silent(p),
         BeginTurn(p), UNCHANGED <<stray, Rest, history>>
  PROVE  ClientInv'
<1> DEFINE a == [p EXCEPT !.processing = TRUE]
           q == Report("report", p, "processing")
<1>1. Fits(a, server.id, doubled)
  BY FitsWhenDone
<1>2. GoodRequest(q, server.id)
  BY NextRequests DEF Asked, State
<1>3. Follow("turn", q, a) /\ Bounded
  BY Types DEF BeginTurn, Bounded
<1> HIDE DEF a, q
<1>4. UNCHANGED <<stray, server, profile, now, greetings, doubled>> /\ "turn" \in Jobs /\ "turn" # "start"
  BY JobNames DEF Rest, history
<1>5. QED
  BY <1>1, <1>2, <1>3, <1>4, FollowKeeps DEF Known

LEMMA NoTurnKeeps ==
  ASSUME ClientInv, Known, NEW p, Fits(p, server.id, doubled), NoTurn(p),
         UNCHANGED <<stray, Rest, history>>
  PROVE  ClientInv'
<1>1. UNCHANGED <<job, stray, server, profile, now, greetings, doubled, left>> /\ page' = p
  BY DEF NoTurn, Rest, history
<1>2. QED
  BY <1>1, Types, CountedIsBounded, PageAloneKeeps DEF Known

\* What is left of a capture that is over.
LEMMA CaptureOver ==
  ASSUME ClientInv, NEW k \in Captures, page.mic[k] \in {"on", "ending"},
         NEW r \in {None, page.rec}, r # k
  PROVE  /\ Known
         /\ Fits(Released([page EXCEPT !.rec = r, !.mic[k] = "off"]), server.id, doubled)
         /\ doubled \/ Silent(Released([page EXCEPT !.rec = r, !.mic[k] = "off"]))
<1> DEFINE w == [page EXCEPT !.rec = r, !.mic[k] = "off"]
<1>1. Known
  BY AskingIsKnown
<1>2. w = WithMic(WithRec(page, r), k, "off")
  BY DEF WithMic, WithRec
<1>3. /\ Fits(w, server.id, doubled)
      /\ doubled \/ Silent(w)
  <2> HIDE DEF w
  <2> QED BY <1>1, <1>2, OverFits DEF Known
<1> HIDE DEF w
<1>4. Fits(Released(w), server.id, doubled) /\ Released(w).mic = w.mic
  BY <1>3, ReleasedFits
<1>5. QED
  BY <1>1, <1>3, <1>4 DEF w, Silent

LEMMA HeardKeeps ==
  ASSUME ClientInv, NEW k \in Captures, Heard(k)
  PROVE  ClientInv'
<1> DEFINE p == Released([page EXCEPT !.rec = None, !.mic[k] = "off"])
<1>0. /\ page.mic[k] \in {"on", "ending"} /\ None # k /\ UNCHANGED <<stray, Rest, history>>
      /\ NoTurn(p) \/ NoTurn(Scheduled(p)) \/ BeginTurn(StopCapture(p))
  BY ClientAssumption DEF Heard
<1>1. Known /\ Fits(p, server.id, doubled)
  BY <1>0, CaptureOver
<1> HIDE DEF p
<1>2. /\ Fits(Scheduled(p), server.id, doubled)
      /\ Fits(StopCapture(p), server.id, doubled) /\ (doubled \/ Silent(StopCapture(p)))
  BY <1>1, ScheduledFits, StopCaptureFits
<1>3. CASE NoTurn(p)
  BY <1>0, <1>1, <1>3, NoTurnKeeps
<1>4. CASE NoTurn(Scheduled(p))
  BY <1>0, <1>1, <1>2, <1>4, NoTurnKeeps
<1>5. CASE BeginTurn(StopCapture(p))
  BY <1>0, <1>1, <1>2, <1>5, BeginTurnKeeps
<1>6. QED
  BY <1>0, <1>3, <1>4, <1>5

LEMMA RecordingOverKeeps ==
  ASSUME ClientInv, NEW k \in Captures, RecordingOver(k)
  PROVE  ClientInv'
<1> DEFINE p == Released([page EXCEPT !.rec = None, !.mic[k] = "off"])
<1>0. /\ page.mic[k] \in {"on", "ending"} /\ None # k /\ UNCHANGED <<stray, Rest, history>>
      /\ NoTurn(Scheduled(p)) \/ BeginTurn(p)
  BY ClientAssumption DEF RecordingOver
<1>1. Known /\ Fits(p, server.id, doubled) /\ (doubled \/ Silent(p))
  BY <1>0, CaptureOver
<1> HIDE DEF p
<1>2. Fits(Scheduled(p), server.id, doubled)
  BY <1>1, ScheduledFits
<1>3. CASE NoTurn(Scheduled(p))
  BY <1>0, <1>1, <1>2, <1>3, NoTurnKeeps
<1>4. CASE BeginTurn(p)
  BY <1>0, <1>1, <1>4, BeginTurnKeeps
<1>5. QED
  BY <1>0, <1>3, <1>4

LEMMA RecognitionOverKeeps ==
  ASSUME ClientInv, NEW k \in Captures, RecognitionOver(k)
  PROVE  ClientInv'
<1> DEFINE r == IF page.rec = k THEN None ELSE page.rec
           p == Released([page EXCEPT !.rec = r, !.mic[k] = "off"])
<1>0. /\ page.mic[k] \in {"on", "ending"} /\ r \in {None, page.rec} /\ r # k
      /\ page' = ScheduledIf(CanCapture(p), p)
      /\ UNCHANGED <<job, stray, server, profile, now, greetings, doubled>> /\ Bounded
  BY ClientAssumption, CountedIsBounded DEF RecognitionOver, Rest, history
<1> HIDE DEF r
<1>1. Known /\ Fits(p, server.id, doubled)
  BY <1>0, CaptureOver
<1> HIDE DEF p
<1>2. Fits(ScheduledIf(CanCapture(p), p), server.id, doubled)
  BY <1>1, ScheduledFits
<1>3. QED
  BY <1>0, <1>1, <1>2, Types, PageAloneKeeps DEF Known

LEMMA RecordingFailsKeeps ==
  ASSUME ClientInv, NEW k \in Captures, RecordingFails(k)
  PROVE  ClientInv'
<1> DEFINE e == [page EXCEPT !.mic[k] = "ending"]
<1>0. /\ page.mic[k] # "off" /\ page' = Scheduled(Released(e))
      /\ UNCHANGED <<job, stray, server, profile, now, greetings, doubled>> /\ Bounded
  BY CountedIsBounded DEF RecordingFails, Rest, history
<1>1. Known
  BY <1>0, AskingIsKnown
<1>2. e = WithMic(page, k, "ending")
  BY DEF WithMic
<1>3. Fits(e, server.id, doubled)
  <2> HIDE DEF e
  <2> QED BY <1>0, <1>1, <1>2, QuietMicFits DEF Known
<1> HIDE DEF e
<1>4. Fits(Scheduled(Released(e)), server.id, doubled)
  BY <1>3, ReleasedFits, ScheduledFits
<1>5. QED
  BY <1>0, <1>1, <1>4, Types, PageAloneKeeps DEF Known

-----------------------------------------------------------------------------
(* A turn, and the clocks *)

LEMMA TurnReportedKeeps ==
  ASSUME ClientInv, TurnReported
  PROVE  ClientInv'
<1> DEFINE p == Seen(page, job["turn"])
<1>0. /\ "turn" \in Jobs /\ job["turn"].at = "report" /\ UNCHANGED <<stray, Rest, left, history>>
      /\ \/ Recover("turn", page)
         \/ Follow("turn", Idle, Ended("turn", p))
         \/ Follow("turn", Sent("ask", p), p)
  BY JobNames DEF TurnReported, Answered
<1>1. Known /\ Fits(p, server.id, doubled)
  BY <1>0, BusyIsKnown
<1> HIDE DEF p
<1>2. Fits(Ended("turn", p), server.id, doubled) /\ Fits(page, server.id, doubled)
  BY <1>1, EndedFits DEF Known
<1>3. GoodRequest(Sent("ask", p), server.id) /\ Plain(Sent("ask", p))
  BY <1>1, NextRequests DEF Asked, Plain
<1>4. CASE Recover("turn", page)
  BY <1>0, <1>1, <1>2, <1>4, PlainRecoverKeeps
<1>5. CASE Follow("turn", Idle, Ended("turn", p))
  BY <1>0, <1>1, <1>2, <1>5, IdleIsGood, PlainFollowKeeps
<1>6. CASE Follow("turn", Sent("ask", p), p)
  BY <1>0, <1>1, <1>3, <1>6, PlainFollowKeeps
<1>7. QED
  BY <1>0, <1>4, <1>5, <1>6

\* Two jobs other than the one that greets go on at once.
LEMMA TwoFollowKeep ==
  ASSUME ClientInv, Known, NEW i \in Jobs \ {"start"}, NEW j \in Jobs \ {"start"}, i # j,
         NEW q, GoodRequest(q, server.id), NEW w, GoodRequest(w, server.id),
         job' = [job EXCEPT ![i] = q, ![j] = w], Fits(page', server.id, doubled),
         \A x \in stray' : GoodStray(x, server.id),
         UNCHANGED <<Rest, history>>, Bounded
  PROVE  ClientInv'
<1>1. /\ job' \in [Jobs -> Request]
      /\ \A l \in Jobs : job'[l] = IF l = j THEN w ELSE IF l = i THEN q ELSE job[l]
  BY DEF ClientInv, ClientTypes, GoodRequest
<1>2. \A l \in Jobs : GoodRequest(job'[l], server.id)
  BY <1>1, Types
<1>3. job'["start"] = job["start"]
  BY <1>1, JobNames
<1>4. ServerKept /\ greetings' = greetings /\ doubled' = doubled
  BY DEF Rest, history, ServerKept
<1>5. PageStep
  BY <1>1, <1>2, <1>3, <1>4, Types DEF ClientInv, ClientTypes, PageStep, Known
<1>6. QED
  BY <1>5, PageStepKeeps

LEMMA TurnAnsweredKeeps ==
  ASSUME ClientInv, TurnAnswered
  PROVE  ClientInv'
<1> DEFINE p == Seen(page, job["turn"])
           Go(next, pp, w) == page' = pp /\ job' = [job EXCEPT !["turn"] = next, !["watch"] = w]
<1>0. /\ {"turn", "watch"} \subseteq Jobs \ {"start"} /\ job["turn"].at = "ask"
      /\ UNCHANGED <<stray, Rest, left, history>>
      /\ \/ Recover("turn", page)
         \/ Recover("turn", p)
         \/ \E w \in {job["watch"], Resting("wait")} :
              Go(Idle, Ended("turn", Scheduled(p)), w) \/ Go(Resting("sound"), Speaking(p, "turn"), w)
  BY JobNames DEF TurnAnswered, Answered
<1>1. Known /\ Fits(p, server.id, doubled) /\ Fits(page, server.id, doubled)
  BY <1>0, BusyIsKnown DEF Known
<1> HIDE DEF p
<1>2. CASE Recover("turn", page)
  BY <1>0, <1>1, <1>2, PlainRecoverKeeps
<1>3. CASE Recover("turn", p)
  BY <1>0, <1>1, <1>3, PlainRecoverKeeps
<1>4. ASSUME NEW w \in {job["watch"], Resting("wait")},
             Go(Idle, Ended("turn", Scheduled(p)), w) \/ Go(Resting("sound"), Speaking(p, "turn"), w)
      PROVE  ClientInv'
  <2>1. /\ Fits(Ended("turn", Scheduled(p)), server.id, doubled)
        /\ Fits(Speaking(p, "turn"), server.id, doubled)
    BY <1>1, JobNames, ScheduledFits, EndedFits, SpeakingFits
  <2>2. /\ GoodRequest(w, server.id) /\ GoodRequest(Idle, server.id)
        /\ GoodRequest(Resting("sound"), server.id)
    BY <1>0, <1>1, Types, IdleIsGood, NextRequests
  <2>3. PICK q \in {Idle, Resting("sound")} :
          /\ job' = [job EXCEPT !["turn"] = q, !["watch"] = w]
          /\ Fits(page', server.id, doubled)
    BY <1>4, <2>1
  <2>4. /\ \A x \in stray' : GoodStray(x, server.id)
        /\ UNCHANGED <<Rest, history>> /\ Bounded
    BY <1>0, CountedIsBounded DEF ClientInv
  <2>5. QED
    BY <1>0, <1>1, <2>2, <2>3, <2>4, TwoFollowKeep
<1>5. QED
  BY <1>0, <1>2, <1>3, <1>4

LEMMA ReadyIsKnown ==
  ASSUME ClientInv, page.ready \/ page.clock
  PROVE  Known
  BY BusyIsReady DEF Known, Fits

LEMMA WatchEndsKeeps ==
  ASSUME ClientInv, WatchEnds
  PROVE  ClientInv'
<1>0. /\ "watch" \in Jobs /\ "watch" \in Speakers /\ job["watch"].at = "wait"
      /\ UNCHANGED <<stray, Rest, left, history>>
      /\ Follow("watch", Idle, page) \/ Follow("watch", Resting("sound"), Speaking(page, "watch"))
  BY JobNames DEF WatchEnds
<1>1. Known /\ Fits(page, server.id, doubled)
  BY <1>0, BusyIsKnown DEF Known
<1>2. Fits(Speaking(page, "watch"), server.id, doubled)
  BY <1>0, <1>1, SpeakingFits
<1>3. GoodRequest(Resting("sound"), server.id) /\ Plain(Resting("sound"))
  BY <1>1, NextRequests DEF Plain
<1>4. QED
  BY <1>0, <1>1, <1>2, <1>3, IdleIsGood, PlainFollowKeeps

LEMMA ExpireKeeps ==
  ASSUME ClientInv, Expire \/ Poll
  PROVE  ClientInv'
<1>1. Known /\ Fits(page, server.id, doubled) /\ {"expire", "poll"} \subseteq Jobs
  <2>1. CASE Expire
    BY <2>1, ReadyIsKnown, JobNames DEF Known, Expire
  <2>2. CASE Poll
    BY <2>2, ReadyIsKnown, JobNames DEF Known, Poll
  <2>3. QED
    BY <2>1, <2>2
<1> DEFINE q == Sent("refresh", page)
<1>2. GoodRequest(q, server.id) /\ Plain(q)
  BY <1>1, NextRequests DEF Asked, Plain
<1>3. /\ Follow("expire", q, page) \/ Follow("poll", q, page)
      /\ UNCHANGED <<stray, Rest, history>> /\ (Counted \/ UNCHANGED left)
  BY DEF Expire, Poll
<1> HIDE DEF q
<1>4. QED
  BY <1>1, <1>2, <1>3, PlainFollowKeeps

LEMMA ExpireSeenKeeps ==
  ASSUME ClientInv, ExpireSeen
  PROVE  ClientInv'
<1> DEFINE p == Seen(page, job["expire"])
           q == Report("speaking", p, "speaking")
<1>0. /\ "expire" \in Jobs /\ "expire" # "start" /\ job["expire"].at = "refresh"
      /\ UNCHANGED <<stray, Rest, left, history>>
      /\ \/ Follow("expire", Idle, page)
         \/ Follow("expire", q, p)
         \/ Follow("expire", Idle, Scheduled(p))
  BY JobNames DEF ExpireSeen, Answered
<1>1. Known /\ Fits(p, server.id, doubled) /\ Fits(page, server.id, doubled)
  BY <1>0, BusyIsKnown DEF Known
<1> HIDE DEF p
<1>2. Fits(Scheduled(p), server.id, doubled)
  BY <1>1, ScheduledFits
<1>3. GoodRequest(q, server.id)
  BY <1>1, NextRequests DEF Asked, State
<1> HIDE DEF q
<1>4. QED
  BY <1>0, <1>1, <1>2, <1>3, IdleIsGood, PlainFollowKeeps

LEMMA AnnounceKeeps ==
  ASSUME ClientInv, Announce
  PROVE  ClientInv'
<1> DEFINE p == Seen(page, job["expire"])
<1>0. /\ "expire" \in Jobs /\ "expire" \in Speakers /\ "expire" # "start"
      /\ job["expire"].at = "speaking"
      /\ UNCHANGED <<stray, Rest, left, history>>
      /\ Follow("expire", Resting("sound"), Speaking(p, "expire"))
  BY JobNames DEF Announce, Answered
<1>1. Known /\ Fits(p, server.id, doubled)
  BY <1>0, BusyIsKnown
<1> HIDE DEF p
<1>2. Fits(Speaking(p, "expire"), server.id, doubled)
  BY <1>0, <1>1, SpeakingFits
<1>3. GoodRequest(Resting("sound"), server.id)
  BY <1>1, NextRequests
<1>4. QED
  BY <1>0, <1>1, <1>2, <1>3, PlainFollowKeeps

LEMMA PollSeenKeeps ==
  ASSUME ClientInv, PollSeen
  PROVE  ClientInv'
<1>1. "poll" \in Jobs /\ job["poll"].at = "refresh"
  BY JobNames DEF PollSeen, Answered
<1>2. Known /\ Fits(Seen(page, job["poll"]), server.id, doubled)
  BY <1>1, BusyIsKnown
<1>3. QED
  BY <1>1, <1>2, IdleIsGood, PlainFollowKeeps DEF PollSeen

-----------------------------------------------------------------------------
(* The user *)

LEMMA OpenVoiceKeeps ==
  ASSUME ClientInv, OpenVoice
  PROVE  ClientInv'
<1> DEFINE q == Sent("init", page)
<1>0. /\ "start" \in Jobs /\ ~page.ready /\ page' = page /\ job' = [job EXCEPT !["start"] = q]
      /\ UNCHANGED <<stray, server, profile, now, greetings, doubled>> /\ Bounded
  BY JobNames, CountedIsBounded DEF OpenVoice, Follow, Rest, history
<1>1. GoodRequest(q, server.id) /\ q.at = "init" /\ q.phase = "sent"
  BY Types, SentIsGood DEF ClientInv, ClientTypes, Asked
<1> HIDE DEF q
<1>2. job' \in [Jobs -> Request] /\ \A j \in Jobs : job'[j] = IF j = "start" THEN q ELSE job[j]
  BY <1>0, <1>1 DEF ClientInv, ClientTypes, GoodRequest
<1>3. Loading' /\ Greeter(job["start"], server, greetings)'
  BY <1>0, <1>1, <1>2 DEF ClientInv, Loading, Greeter
<1>4. /\ ClientTypes' /\ page'.id <= server'.id /\ CaptureInv(page, doubled)'
      /\ GreetingsInv(greetings, server)'
  BY <1>0, <1>2 DEF ClientInv, ClientTypes, CaptureInv, Silent, GreetingsInv, Past, Bounded
<1>5. /\ \A j \in Jobs : GoodRequest(job'[j], server'.id)
      /\ \A x \in stray' : GoodStray(x, server'.id)
  BY <1>0, <1>1, <1>2 DEF ClientInv
<1>6. QED
  BY <1>3, <1>4, <1>5 DEF ClientInv, GoodRequest, GoodStray

LEMMA ActivatingKeeps ==
  ASSUME ClientInv, Known, NEW p, Fits(p, server.id, doubled), Activating(p),
         UNCHANGED <<stray, Rest, history>>, Counted \/ UNCHANGED left
  PROVE  ClientInv'
<1> DEFINE q == StopCapture(StopSpeech(p))
<1>1. Fits(q, server.id, doubled)
  BY StopSpeechFits, StopCaptureFits
<1>2. Follow("activate", Sent("activate", q), q)
  BY DEF Activating
<1> HIDE DEF q
<1>3. GoodRequest(Sent("activate", q), server.id)
  BY <1>1, NextRequests DEF Asked
<1>4. QED
  BY <1>1, <1>2, <1>3, JobNames, PlainFollowKeeps

LEMMA ActivateKeeps ==
  ASSUME ClientInv, Activate
  PROVE  ClientInv'
<1>1. Known /\ Fits(page, server.id, doubled) /\ "activate" \in Jobs /\ "activate" # "start"
  BY ReadyIsKnown, JobNames DEF Known, Activate
<1>2. /\ Follow("activate", Sent("refresh", page), page) \/ Activating(page)
      /\ UNCHANGED <<stray, Rest, history>> /\ Counted
  BY DEF Activate
<1>3. GoodRequest(Sent("refresh", page), server.id)
  BY <1>1, NextRequests DEF Asked
<1>4. CASE Follow("activate", Sent("refresh", page), page)
  BY <1>1, <1>2, <1>3, <1>4, PlainFollowKeeps
<1>5. CASE Activating(page)
  BY <1>1, <1>2, <1>5, ActivatingKeeps
<1>6. QED
  BY <1>2, <1>4, <1>5

LEMMA ActivateSeenKeeps ==
  ASSUME ClientInv, ActivateSeen
  PROVE  ClientInv'
<1> DEFINE p == Seen(page, job["activate"])
<1>0. /\ "activate" \in Jobs /\ "activate" # "start"
      /\ job["activate"].at \in {"refresh", "create"}
      /\ UNCHANGED <<stray, Rest, left, history>>
      /\ \/ Follow("activate", Idle, page)
         \/ Follow("activate", Sent("create", p), p)
         \/ Activating(p)
  BY JobNames DEF ActivateSeen, Answered
<1>1. Known /\ Fits(p, server.id, doubled) /\ Fits(page, server.id, doubled)
  BY <1>0, BusyIsKnown DEF Known
<1> HIDE DEF p
<1>2. GoodRequest(Sent("create", p), server.id)
  BY <1>1, NextRequests DEF Asked
<1>3. CASE Activating(p)
  BY <1>0, <1>1, <1>3, ActivatingKeeps
<1>4. QED
  BY <1>0, <1>1, <1>2, <1>3, IdleIsGood, PlainFollowKeeps

LEMMA ActivatedKeeps ==
  ASSUME ClientInv, Activated
  PROVE  ClientInv'
<1> DEFINE p == Seen(page, job["activate"])
<1>0. /\ "activate" \in Jobs /\ "activate" # "start" /\ job["activate"].at = "activate"
      /\ UNCHANGED <<stray, server, profile, now, greetings>> /\ Bounded
      /\ job' = [job EXCEPT !["activate"] = Idle]
  BY JobNames, CountedIsBounded DEF Activated, Answered, Follow, Rest
<1>1. Known /\ Fits(p, server.id, doubled) /\ Fits(page, server.id, doubled)
  BY <1>0, BusyIsKnown DEF Known
<1>2. \/ page' = page /\ doubled' = doubled
      \/ page' \in Started(p, "activating") /\ Begun(page')
  BY DEF Activated, Follow
<1> HIDE DEF p
<1>3. Fits(page', server.id, doubled') /\ doubled' \in BOOLEAN
  <2>1. CASE page' = page /\ doubled' = doubled
    BY <1>1, <2>1, Types
  <2>2. CASE page' \in Started(p, "activating") /\ Begun(page')
    <3>1. /\ doubled' \in BOOLEAN /\ (doubled => doubled')
          /\ ~doubled' => \A k, l \in Captures :
                            page'.mic[k] # "off" /\ page'.mic[l] # "off" => k = l
      BY <2>2, Types, BegunMeans
    <3>2. QED
      BY <1>1, <2>2, <3>1, StartedFits
  <2>3. QED
    BY <1>2, <2>1, <2>2
<1>4. /\ job' \in [Jobs -> Request]
      /\ \A j \in Jobs : job'[j] = IF j = "activate" THEN Idle ELSE job[j]
  BY <1>0, IdleIsGood DEF ClientInv, ClientTypes, GoodRequest
<1>5. (\A j \in Jobs : GoodRequest(job'[j], server.id)) /\ job'["start"] = job["start"]
  BY <1>0, <1>4, Types, IdleIsGood, JobNames
<1>6. PageStep
  BY <1>0, <1>1, <1>3, <1>4, <1>5 DEF ClientInv, ClientTypes, PageStep, ServerKept, Known
<1>7. QED
  BY <1>6, PageStepKeeps

\* Disabling and shutting down abort the turn that waits for its answer.
LEMMA InterruptKeeps ==
  ASSUME ClientInv, page.ready, NEW j \in {"disable", "shutdown"}, Interrupt(j),
         UNCHANGED <<Rest, history>>, Counted
  PROVE  ClientInv'
<1> DEFINE q    == job["turn"]
           p    == StopCapture(StopSpeech(page))
           next == CASE q.at = "ask" -> Idle
                     [] q.at = "report" -> [q EXCEPT !.aborted = TRUE]
                     [] OTHER -> q
<1>0. {"turn", j} \subseteq Jobs \ {"start"} /\ j # "turn" /\ j \in Asked /\ Known /\ Bounded
  BY JobNames, ReadyIsKnown, CountedIsBounded DEF Asked
<1>1. Fits(p, server.id, doubled)
  BY <1>0, StopSpeechFits, StopCaptureFits DEF Known
<1>2. GoodRequest(q, server.id)
  BY <1>0, Types
<1>3. GoodRequest(next, server.id)
  <2> HIDE DEF q
  <2>1. GoodRequest([q EXCEPT !.aborted = TRUE], server.id)
    BY <1>2 DEF GoodRequest, Request
  <2>2. QED
    BY <1>2, <2>1, IdleIsGood
<1>4. /\ page' = IF q.at = "ask" THEN Ended("turn", p) ELSE p
      /\ job' = [job EXCEPT !["turn"] = next, ![j] = Sent(j, p)]
      /\ stray' = IF q.at = "ask" /\ q.phase = "sent" THEN stray \cup {q} ELSE stray
  BY DEF Interrupt
<1> HIDE DEF next, p
<1>5. Fits(page', server.id, doubled)
  BY <1>1, <1>4, EndedFits
<1>6. \A x \in stray' : GoodStray(x, server.id)
  BY <1>2, <1>4 DEF ClientInv, GoodStray
<1>7. GoodRequest(Sent(j, p), server.id)
  BY <1>0, <1>1, NextRequests
<1>8. QED
  BY <1>0, <1>3, <1>4, <1>5, <1>6, <1>7, TwoFollowKeep

LEMMA DisabledKeeps ==
  ASSUME ClientInv, Disabled
  PROVE  ClientInv'
<1> DEFINE p == Seen(page, job["disable"])
           b == p.perm = "granted"
<1>0. /\ "disable" \in Jobs /\ job["disable"].at = "disable" /\ UNCHANGED <<stray, Rest, left, history>>
      /\ Follow("disable", Idle, page) \/ Follow("disable", Idle, ScheduledIf(b, p))
  BY JobNames DEF Disabled, Answered
<1>1. Known /\ Fits(p, server.id, doubled) /\ Fits(page, server.id, doubled)
  BY <1>0, BusyIsKnown DEF Known
<1> HIDE DEF p, b
<1>2. Fits(ScheduledIf(b, p), server.id, doubled)
  BY <1>1, ScheduledFits
<1>3. QED
  BY <1>0, <1>1, <1>2, IdleIsGood, PlainFollowKeeps

LEMMA ShutDownKeeps ==
  ASSUME ClientInv, ShutDown
  PROVE  ClientInv'
<1>1. "shutdown" \in Jobs /\ job["shutdown"].at = "shutdown"
  BY JobNames DEF ShutDown, Answered
<1>2. Known /\ Fits(Seen(page, job["shutdown"]), server.id, doubled)
  BY <1>1, BusyIsKnown
<1>3. QED
  BY <1>1, <1>2, IdleIsGood, PlainFollowKeeps DEF ShutDown

LEMMA TypedKeeps ==
  ASSUME ClientInv, Typed
  PROVE  ClientInv'
<1>1. Known
  BY ReadyIsKnown DEF Typed
<1>2. Fits(StopCapture(page), server.id, doubled) /\ (doubled \/ Silent(StopCapture(page)))
  BY <1>1, StopCaptureFits DEF Known
<1>3. QED
  BY <1>1, <1>2, BeginTurnKeeps DEF Typed

LEMMA HiddenColumn ==
  ASSUME NEW p \in Page, NEW v \in BOOLEAN
  PROVE  LET q == [p EXCEPT !.hidden = v]
         IN /\ q \in Page /\ q.id = p.id /\ q.ready = p.ready /\ q.state = p.state
            /\ q.clock = p.clock /\ q.mic = p.mic /\ q.rec = p.rec
            /\ q.processing = p.processing /\ q.greeting = p.greeting
<1>1. [p EXCEPT !.hidden = v] \in Page
  BY PageColumns
<1>2. QED
  BY <1>1 DEF Page

LEMMA NothingToStop ==
  ASSUME NEW p \in Page, p.rec = None
  PROVE  LET q == StopCapture(p)
         IN /\ q \in Page /\ q.id = p.id /\ q.ready = p.ready /\ q.state = p.state
            /\ q.clock = p.clock /\ q.mic = p.mic /\ q.rec = p.rec
            /\ q.processing = p.processing /\ q.greeting = p.greeting
<1> DEFINE f == [k \in Captures |-> IF k = p.rec THEN "ending" ELSE p.mic[k]]
           e == [p EXCEPT !.timer = FALSE, !.rec = None, !.mic = p.mic]
<1>1. f = p.mic
  BY ClientAssumption DEF Page
<1>2. StopCapture(p) = Released(e)
  BY <1>1 DEF StopCapture, Page
<1>3. /\ e \in Page /\ e.id = p.id /\ e.ready = p.ready /\ e.state = p.state
      /\ e.clock = p.clock /\ e.mic = p.mic /\ e.rec = p.rec
      /\ e.processing = p.processing /\ e.greeting = p.greeting
  BY ZenonT(60) DEF Page
<1> HIDE DEF e
<1>4. /\ Released(e) \in Page /\ Released(e).id = e.id /\ Released(e).ready = e.ready
      /\ Released(e).state = e.state /\ Released(e).clock = e.clock
      /\ Released(e).mic = e.mic /\ Released(e).rec = e.rec
      /\ Released(e).processing = e.processing /\ Released(e).greeting = e.greeting
  BY <1>3, ZenonT(60) DEF Released, Page
<1>5. QED
  BY <1>2, <1>3, <1>4

\* Showing and hiding the page, before and after it knows its session.
LEMMA HideKeeps ==
  ASSUME ClientInv, Hide
  PROVE  ClientInv'
<1> DEFINE p == [page EXCEPT !.hidden = TRUE]
<1>0. /\ page' = StopCapture(p) /\ Bounded
      /\ UNCHANGED <<job, stray, server, profile, now, greetings, doubled>>
  BY CountedIsBounded DEF Hide, Rest, history
<1>1. page \in Page
  BY DEF ClientInv, ClientTypes
<1>2. CASE page.ready
  <2>1. Fits(p, server.id, doubled)
    BY <1>2, BusyIsReady, FitsWhatever
  <2> HIDE DEF p
  <2>2. Fits(page', server.id, doubled')
    BY <1>0, <2>1, StopCaptureFits
  <2>3. QED
    BY <1>0, <1>2, <2>2, Types, PageAloneKeeps
<1>3. CASE ~page.ready
  <2>1. /\ p \in Page /\ p.id = page.id /\ p.ready = page.ready /\ p.state = page.state
        /\ p.clock = page.clock /\ p.mic = page.mic /\ p.rec = page.rec
        /\ p.processing = page.processing /\ p.greeting = page.greeting
    BY <1>1, HiddenColumn
  <2> HIDE DEF p
  <2>2. page.state = "starting" /\ ~page.clock /\ page.rec = None
    BY <1>1, <1>3 DEF ClientInv, Loading, CaptureInv, Page
  <2>3. /\ page' \in Page /\ page'.id = p.id /\ page'.ready = p.ready /\ page'.state = p.state
        /\ page'.clock = p.clock /\ page'.mic = p.mic /\ page'.rec = p.rec
        /\ page'.processing = p.processing /\ page'.greeting = p.greeting
    BY <1>0, <2>1, <2>2, NothingToStop
  <2>4. QED
    BY <1>0, <1>3, <2>1, <2>2, <2>3, LoadingKeeps
<1>4. QED
  BY <1>2, <1>3

LEMMA ShowKeeps ==
  ASSUME ClientInv, Show
  PROVE  ClientInv'
<1> DEFINE p == [page EXCEPT !.hidden = FALSE]
<1>0. /\ page' = ScheduledIf(CanCapture(p), p) /\ Bounded
      /\ UNCHANGED <<job, stray, server, profile, now, greetings, doubled>>
  BY CountedIsBounded DEF Show, Rest, history
<1>1. page \in Page
  BY DEF ClientInv, ClientTypes
<1>2. CASE page.ready
  <2>1. Fits(p, server.id, doubled)
    BY <1>2, BusyIsReady, FitsWhatever
  <2> HIDE DEF p
  <2>2. Fits(page', server.id, doubled')
    BY <1>0, <2>1, ScheduledFits
  <2>3. QED
    BY <1>0, <1>2, <2>2, Types, PageAloneKeeps
<1>3. CASE ~page.ready
  <2>1. /\ p \in Page /\ p.id = page.id /\ p.ready = page.ready /\ p.state = page.state
        /\ p.clock = page.clock /\ p.mic = page.mic /\ p.rec = page.rec
        /\ p.processing = page.processing /\ p.greeting = page.greeting
    BY <1>1, HiddenColumn
  <2> HIDE DEF p
  <2>2. page.state = "starting" /\ ~page.clock
    BY <1>3 DEF ClientInv, Loading
  <2>3. page' = p
    BY <1>0, <2>1, <2>2 DEF ScheduledIf, CanCapture
  <2>4. QED
    BY <1>0, <1>3, <2>1, <2>2, <2>3, LoadingKeeps
<1>4. QED
  BY <1>2, <1>3

\* The page is loaded again: it knows nothing, and asks for its session.
LEMMA FreshPageIsLoading ==
  ASSUME NEW h \in BOOLEAN
  PROVE  /\ FreshPage(h) \in Page /\ FreshPage(h).id = 0 /\ ~FreshPage(h).ready
         /\ FreshPage(h).state = "starting" /\ ~FreshPage(h).clock
         /\ FreshPage(h).mic = [k \in Captures |-> "off"] /\ FreshPage(h).rec = None
         /\ ~FreshPage(h).processing /\ ~FreshPage(h).greeting
<1>1. /\ 0 \in 0..MaxSessions /\ "starting" \in State
      /\ [k \in Captures |-> "off"] \in [Captures -> {"off", "asking", "activating", "on", "ending"}]
      /\ [s \in Speakers |-> "quiet"] \in [Speakers -> {"quiet", "sounds", "over", "cut"}]
      /\ {} \in SUBSET Captures
  BY ClientAssumption DEF State
<1> DEFINE f == [k \in Captures |-> "off"]
           g == [s \in Speakers |-> "quiet"]
<1> HIDE DEF f, g
<1>2. QED
  BY <1>1 DEF FreshPage, Page, f, g

LEMMA LoadJobsAreGood ==
  ASSUME NEW top \in Nat
  PROVE  /\ LoadJobs \in [Jobs -> Request]
         /\ \A j \in Jobs : GoodRequest(LoadJobs[j], top)
         /\ \A j \in Jobs \ {"start"} : LoadJobs[j] = Idle
         /\ LoadJobs["start"].at = "init" /\ LoadJobs["start"].phase = "sent"
<1> DEFINE f == FreshPage(FALSE)
           q == Sent("init", f)
<1>1. GoodRequest(q, top) /\ q.at = "init" /\ q.phase = "sent"
  <2>1. f \in Page /\ f.id <= top /\ "init" \in Asked
    <3>1. f \in Page /\ f.id = 0
      <4>1. FALSE \in BOOLEAN
        OBVIOUS
      <4>2. QED
        BY <4>1, FreshPageIsLoading
    <3> HIDE DEF f
    <3>2. QED
      BY <3>1 DEF Asked
  <2> HIDE DEF f
  <2>2. QED
    BY <2>1, SentIsGood
<1>2. GoodRequest(Idle, top)
  BY RestingIsGood DEF Idle, Ats
<1> HIDE DEF q
<1>3. LoadJobs = [j \in Jobs |-> IF j = "start" THEN q ELSE Idle]
  BY DEF LoadJobs, q
<1>4. QED
  BY <1>1, <1>2, <1>3, JobNames DEF GoodRequest

LEMMA ReloadKeeps ==
  ASSUME ClientInv, Reload
  PROVE  ClientInv'
<1> DEFINE h == page.hidden
<1>0. /\ page' = FreshPage(h) /\ job' = LoadJobs /\ Bounded /\ h \in BOOLEAN
      /\ UNCHANGED <<server, profile, now, greetings, doubled>>
  BY CountedIsBounded DEF Reload, Rest, history, ClientInv, ClientTypes, Page
<1> HIDE DEF h
<1>1. /\ page' \in Page /\ page'.id = 0 /\ ~page'.ready /\ page'.state = "starting"
      /\ ~page'.clock /\ (\A k \in Captures : page'.mic[k] = "off") /\ page'.rec = None
      /\ ~page'.processing /\ ~page'.greeting
  BY <1>0, FreshPageIsLoading
<1>2. /\ job' \in [Jobs -> Request] /\ \A j \in Jobs : GoodRequest(job'[j], server.id)
      /\ \A j \in Jobs \ {"start"} : job'[j] = Idle
      /\ job'["start"].at = "init" /\ job'["start"].phase = "sent"
  BY <1>0, Types, LoadJobsAreGood
<1>3. Loading' /\ Greeter(job["start"], server, greetings)' /\ CaptureInv(page, doubled)'
  BY <1>1, <1>2 DEF Loading, Greeter, CaptureInv, Silent
<1>4. ClientTypes' /\ page'.id <= server'.id /\ GreetingsInv(greetings, server)'
  BY <1>0, <1>1, <1>2, Types DEF ClientInv, ClientTypes, GreetingsInv, Past, Bounded
<1>5. /\ \A j \in Jobs : GoodRequest(job'[j], server'.id)
      /\ \A x \in stray' : GoodStray(x, server'.id)
  <2>1. stray' = stray \cup {job[j] : j \in {i \in Jobs : job[i].phase = "sent"}}
    BY DEF Reload
  <2>2. \A x \in stray' : GoodStray(x, server.id)
    BY <2>1, Types DEF GoodStray, ClientInv
  <2>3. QED
    BY <1>0, <1>2, <2>2
<1>6. QED
  BY <1>3, <1>4, <1>5 DEF ClientInv, GoodRequest, GoodStray

-----------------------------------------------------------------------------
(* What happens away from the page *)

LEMMA NewerKeeps ==
  ASSUME ClientInv, Newer(server, server')
  PROVE  /\ server' \in Session /\ server'.id \in Nat /\ server'.id >= server.id /\ server'.id > 0
         /\ GreetingsInv(greetings, server')
         /\ \A q : GoodRequest(q, server.id) => GoodRequest(q, server'.id)
         /\ \A q : GoodStray(q, server.id) => GoodStray(q, server'.id)
         /\ \A i \in 0..MaxSessions : Past(i, server) => Past(i, server')
<1>1. /\ server \in Session /\ server' \in Session /\ server'.id >= server.id
      /\ server.id > 0 /\ MaxSessions \in Nat
  BY ClientAssumption DEF ClientInv, ClientTypes, Newer
<1>2. server.id \in Nat /\ server'.id \in Nat
  BY <1>1 DEF Session
<1>3. \A i \in 0..MaxSessions : Past(i, server) => Past(i, server')
  BY <1>1, <1>2 DEF Past, Newer
<1>4. GreetingsInv(greetings, server')
  BY <1>1, <1>3 DEF GreetingsInv, ClientInv
<1>5. ASSUME NEW q, GoodRequest(q, server.id)
      PROVE  GoodRequest(q, server'.id)
  <2>1. q \in Request /\ q.id \in Nat /\ q.snap.id \in Nat
    <3>1. q \in Request
      BY <1>5 DEF GoodRequest
    <3>2. q.id \in 0..MaxSessions /\ q.snap \in Session
      BY <3>1 DEF Request
    <3>3. q.snap.id \in 0..MaxSessions
      BY <3>2 DEF Session
    <3>4. QED
      BY <1>1, <3>1, <3>2, <3>3
  <2>2. QED
    BY <1>1, <1>2, <1>5, <2>1 DEF GoodRequest
<1>6. QED
  BY <1>1, <1>2, <1>3, <1>4, <1>5 DEF GoodStray

\* The server answers one request: the page has not seen it yet.
LEMMA ServeKeeps ==
  ASSUME ClientInv, NEW j \in Jobs, Serve(j)
  PROVE  ClientInv'
<1> DEFINE q == job[j]
<1>0. /\ q.phase = "sent" /\ q \in Request /\ GoodRequest(q, server.id) /\ q.at \in Asked
      /\ ClientTypes /\ MaxSessions \in Nat
  BY Types, ClientAssumption DEF Serve, GoodRequest, ClientInv
<1>1. PICK a \in Outcomes(q) :
        /\ Stored(a)
        /\ job' = [job EXCEPT ![j].phase = IF a.ok THEN "back" ELSE "failed",
                              ![j].snap = IF a.ok THEN a.session ELSE @, ![j].say = a.say]
  BY DEF Serve
<1>2. /\ a.ok \in BOOLEAN /\ a.say \in Says /\ a.session \in Session
      /\ Newer(server, server')
      /\ a.session.id <= server'.id
      /\ q.at = "greeted" /\ a.ok => a.session.id = q.id /\ Past(q.id, server')
      /\ q.at = "init" => a.session.id = server.id /\ (server.greeted => a.session.greeted)
  BY <1>0, <1>1, OutcomeIsStored
<1>3. /\ server' \in Session /\ server'.id \in Nat /\ server'.id >= server.id /\ server'.id > 0
      /\ GreetingsInv(greetings, server')
      /\ \A x : GoodRequest(x, server.id) => GoodRequest(x, server'.id)
      /\ \A x : GoodStray(x, server.id) => GoodStray(x, server'.id)
      /\ \A i \in 0..MaxSessions : Past(i, server) => Past(i, server')
  BY <1>2, NewerKeeps
<1> DEFINE phase == IF a.ok THEN "back" ELSE "failed"
           snap  == IF a.ok THEN a.session ELSE q.snap
           n     == [q EXCEPT !.phase = phase, !.snap = snap, !.say = a.say]
<1>4. /\ phase \in {"back", "failed"} /\ (phase = "back" => a.ok /\ snap = a.session)
      /\ snap \in Session
  BY <1>0, <1>2 DEF Request
<1>5. job' = [job EXCEPT ![j] = n]
  BY <1>0, <1>1 DEF ClientTypes
<1> HIDE DEF phase, snap
<1>6. /\ n \in Request /\ n.phase = phase /\ n.snap = snap /\ n.at = q.at /\ n.id = q.id
  <2> HIDE DEF q
  <2> QED BY <1>0, <1>2, <1>4 DEF Request
<1> HIDE DEF n
<1>7. GoodRequest(n, server'.id)
  <2>1. GoodRequest(q, server'.id)
    BY <1>0, <1>3
  <2>2. QED
    BY <1>2, <1>4, <1>6, <2>1 DEF GoodRequest
<1>8. job' \in [Jobs -> Request] /\ \A i \in Jobs : job'[i] = IF i = j THEN n ELSE job[i]
  BY <1>0, <1>5, <1>6 DEF ClientTypes
<1>9. /\ \A i \in Jobs : GoodRequest(job'[i], server'.id)
      /\ \A x \in stray' : GoodStray(x, server'.id)
  BY <1>3, <1>7, <1>8 DEF ClientInv, Serve
<1>10. Loading'
  <2>1. UNCHANGED page
    BY DEF Serve
  <2>2. ~page.ready => j = "start"
    <3>1. Idle.phase = "none"
      BY DEF Idle, Resting
    <3>2. QED
      BY <1>0, <3>1 DEF ClientInv, Loading
  <2>3. job'["start"].at = job["start"].at
    BY <1>6, <1>8, JobNames
  <2>4. \A i \in Jobs \ {j} : job'[i] = job[i]
    BY <1>8
  <2>5. QED
    BY <2>1, <2>2, <2>3, <2>4 DEF ClientInv, Loading
<1>11. Greeter(job'["start"], server', greetings)
  <2> DEFINE st == job["start"]
  <2>0. /\ Greeter(st, server, greetings) /\ st.id \in 0..MaxSessions /\ "start" \in Jobs
        /\ GreetingsInv(greetings, server)
    BY <1>0, JobNames DEF ClientInv, ClientTypes, Request
  <2>1. CASE j # "start"
    <3>1. job'["start"] = st
      BY <1>8, <2>0, <2>1
    <3> HIDE DEF st
    <3>2. QED
      BY <1>3, <2>0, <3>1 DEF Greeter
  <2>2. CASE j = "start"
    <3>1. job'["start"] = n /\ st = q
      BY <1>8, <2>0, <2>2
    <3> HIDE DEF st, q
    <3>2. server.id \in 1..MaxSessions
      BY <1>0 DEF ClientTypes, Session
    <3>3. ~server.greeted => greetings[server.id] = 0
      BY <1>0, <2>0, <3>2 DEF GreetingsInv, Past, ClientTypes, Session
    <3>4. n.at = "init" =>
            /\ n.phase # "none"
            /\ n.phase = "back" => n.snap.id > 0 /\ (~n.snap.greeted => greetings[n.snap.id] = 0)
      BY <1>0, <1>2, <1>4, <1>6, <3>2, <3>3
    <3>5. n.at = "greeted" =>
            /\ n.id > 0 /\ greetings[n.id] = 0 /\ n.phase # "none"
            /\ n.phase = "back" => n.snap.id = n.id /\ Past(n.id, server')
      BY <1>2, <1>4, <1>6, <2>0, <3>1 DEF Greeter
    <3>6. n.at = "speaking" => n.id > 0 /\ greetings[n.id] = 0 /\ Past(n.id, server')
      BY <1>3, <1>6, <2>0, <3>1 DEF Greeter
    <3>7. QED
      BY <3>1, <3>4, <3>5, <3>6 DEF Greeter
  <2>3. QED
    BY <2>1, <2>2
<1>12. UNCHANGED <<page, stray, profile, now, left, greetings, doubled>>
  BY DEF Serve, history
<1>13. ClientTypes' /\ page'.id <= server'.id /\ CaptureInv(page, doubled)'
  <2>1. page.id <= server'.id
    <3>1. page.id \in Nat /\ server.id \in Nat /\ page.id <= server.id
      BY <1>0, Types DEF ClientInv, ClientTypes, Page
    <3>2. QED
      BY <1>3, <3>1
  <2>2. QED
    BY <1>3, <1>8, <1>12, <2>1 DEF ClientInv, ClientTypes, CaptureInv, Silent
<1>14. GreetingsInv(greetings, server)' /\ Greeter(job["start"], server, greetings)'
  BY <1>3, <1>11, <1>12 DEF GreetingsInv, Greeter, Past
<1>15. QED
  BY <1>9, <1>10, <1>13, <1>14 DEF ClientInv, GoodRequest, GoodStray

LEMMA ServeStrayKeeps ==
  ASSUME ClientInv, NEW q \in stray, ServeStray(q)
  PROVE  ClientInv'
<1>0. GoodRequest(q, server.id) /\ q.at \in Asked /\ ClientTypes
  BY DEF ClientInv, GoodStray, GoodRequest
<1>1. PICK a \in Outcomes(q) : Stored(a)
  BY DEF ServeStray
<1>2. Newer(server, server')
  BY <1>0, <1>1, OutcomeIsStored
<1>3. /\ server' \in Session /\ server'.id \in Nat /\ server'.id >= server.id /\ server'.id > 0
      /\ GreetingsInv(greetings, server')
      /\ \A x : GoodRequest(x, server.id) => GoodRequest(x, server'.id)
      /\ \A x : GoodStray(x, server.id) => GoodStray(x, server'.id)
      /\ \A i \in 0..MaxSessions : Past(i, server) => Past(i, server')
  BY <1>2, NewerKeeps
<1>4. /\ UNCHANGED <<page, job, profile, now, left, greetings, doubled>> /\ stray' \subseteq stray
  BY DEF ServeStray, history
<1>5. Greeter(job["start"], server', greetings)
  <2> DEFINE st == job["start"]
  <2>1. Greeter(st, server, greetings) /\ st.id \in 0..MaxSessions
    BY <1>0, JobNames DEF ClientInv, ClientTypes, Request
  <2> HIDE DEF st
  <2>2. Greeter(st, server', greetings)
    BY <1>3, <2>1 DEF Greeter
  <2>3. QED
    BY <2>2 DEF st
<1>6. page.id <= server'.id
  <2>1. page.id \in Nat /\ server.id \in Nat /\ page.id <= server.id
    BY <1>0, Types DEF ClientInv, ClientTypes, Page
  <2>2. QED
    BY <1>3, <2>1
<1>7. ClientTypes' /\ page'.id <= server'.id /\ CaptureInv(page, doubled)' /\ Loading'
  BY <1>3, <1>4, <1>6 DEF ClientInv, ClientTypes, CaptureInv, Silent, Loading
<1>8. GreetingsInv(greetings, server)' /\ Greeter(job["start"], server, greetings)'
  BY <1>3, <1>4, <1>5 DEF GreetingsInv, Greeter, Past
<1>9. /\ \A j \in Jobs : GoodRequest(job'[j], server'.id)
      /\ \A x \in stray' : GoodStray(x, server'.id)
  BY <1>3, <1>4 DEF ClientInv
<1>10. QED
  BY <1>7, <1>8, <1>9 DEF ClientInv, GoodRequest, GoodStray

\* A request, or its answer, is lost: the job fails, and forgets no session.
LEMMA LoseKeeps ==
  ASSUME ClientInv, NEW j \in Jobs, Lose(j)
  PROVE  ClientInv'
<1> DEFINE q == job[j]
           z == Resting(q.at)
           n == [z EXCEPT !.phase = "failed", !.id = q.id, !.aborted = q.aborted]
<1>0. /\ q.phase \in {"sent", "back"} /\ q \in Request /\ GoodRequest(q, server.id) /\ Bounded
      /\ UNCHANGED <<page, stray, server, profile, now, greetings, doubled>>
      /\ q.at \in Ats /\ q.id \in 0..MaxSessions /\ q.aborted \in BOOLEAN /\ server.id \in Nat
  <2>1. q \in Request /\ GoodRequest(q, server.id)
    BY Types DEF GoodRequest
  <2>2. q.at \in Ats /\ q.id \in 0..MaxSessions /\ q.aborted \in BOOLEAN
    <3> HIDE DEF q
    <3> QED BY <2>1 DEF Request, Ats
  <2>3. QED
    BY <2>1, <2>2, CountedIsBounded, Types DEF Lose, history
<1>1. job' = [job EXCEPT ![j] = n]
  BY DEF Lose, ClientInv, ClientTypes
<1>2. GoodRequest(z, server.id) /\ z.at = q.at
  BY <1>0, RestingIsGood
<1> HIDE DEF z
<1>3. n \in Request /\ n.at = q.at /\ n.id = q.id /\ n.phase = "failed"
  <2> HIDE DEF q
  <2> QED BY <1>0, <1>2 DEF GoodRequest, Request
<1> HIDE DEF n
<1>4. GoodRequest(n, server.id)
  BY <1>0, <1>3 DEF GoodRequest
<1>5. job' \in [Jobs -> Request] /\ \A i \in Jobs : job'[i] = IF i = j THEN n ELSE job[i]
  BY <1>1, <1>3 DEF ClientInv, ClientTypes
<1>6. /\ \A i \in Jobs : GoodRequest(job'[i], server'.id)
      /\ \A x \in stray' : GoodStray(x, server'.id)
  BY <1>0, <1>4, <1>5 DEF ClientInv
<1>7. Loading'
  <2>1. ~page.ready => j = "start"
    <3>1. Idle.phase = "none"
      BY DEF Idle, Resting
    <3>2. QED
      BY <1>0, <3>1 DEF ClientInv, Loading
  <2>2. job'["start"].at = job["start"].at
    BY <1>3, <1>5, JobNames
  <2>3. \A i \in Jobs \ {j} : job'[i] = job[i]
    BY <1>5
  <2>4. QED
    BY <1>0, <2>1, <2>2, <2>3 DEF ClientInv, Loading
<1>8. Greeter(job'["start"], server, greetings)
  <2>1. CASE j = "start"
    <3>1. Greeter(q, server, greetings) /\ job'["start"] = n
      BY <1>5, <2>1, JobNames DEF ClientInv
    <3> HIDE DEF q
    <3>2. QED
      BY <1>3, <3>1 DEF Greeter
  <2>2. CASE j # "start"
    <3>1. job'["start"] = job["start"]
      BY <1>5, <2>2, JobNames
    <3>2. QED
      BY <3>1 DEF ClientInv
  <2>3. QED
    BY <2>1, <2>2
<1>9. /\ ClientTypes' /\ page'.id <= server'.id /\ CaptureInv(page, doubled)'
      /\ GreetingsInv(greetings, server)' /\ Greeter(job["start"], server, greetings)'
  BY <1>0, <1>5, <1>8 DEF ClientInv, ClientTypes, CaptureInv, Silent, GreetingsInv, Greeter, Past, Bounded
<1>10. QED
  BY <1>6, <1>7, <1>9 DEF ClientInv, GoodRequest, GoodStray

LEMMA TickKeeps ==
  ASSUME ClientInv, Tick
  PROVE  ClientInv'
<1>1. /\ UNCHANGED <<page, job, stray, server, profile, greetings, doubled>> /\ Bounded
      /\ now' = now + 1
  BY CountedIsBounded DEF Tick, history
<1>2. QED
  BY <1>1 DEF ClientInv, ClientTypes, CaptureInv, Silent, GreetingsInv, Greeter, Past, Loading,
              Bounded, GoodRequest, GoodStray

LEMMA StutterKeeps ==
  ASSUME ClientInv, UNCHANGED vars
  PROVE  ClientInv'
  BY DEF ClientInv, ClientTypes, CaptureInv, Silent, GreetingsInv, Greeter, Past, Loading,
         GoodRequest, GoodStray, vars

-----------------------------------------------------------------------------
(* Theorems *)

LEMMA InitIsGood ==
  ASSUME Init
  PROVE  ClientInv
<1>1. /\ page = FreshPage(FALSE) /\ job = LoadJobs /\ stray = {} /\ server = NewSession(1)
      /\ now = 0 /\ left \in Budgets /\ profile \in Profiles /\ doubled = FALSE
      /\ greetings = [i \in 1..MaxSessions |-> 0]
  BY DEF Init
<1>2. /\ page \in Page /\ page.id = 0 /\ ~page.ready /\ page.state = "starting"
      /\ ~page.clock /\ (\A k \in Captures : page.mic[k] = "off") /\ page.rec = None
      /\ ~page.processing /\ ~page.greeting
  <2>1. FALSE \in BOOLEAN
    OBVIOUS
  <2>2. QED
    BY <1>1, <2>1, FreshPageIsLoading
<1>3. server \in Session /\ server.id = 1
  <2>1. 1 \in 0..MaxSessions
    BY ClientAssumption
  <2>2. QED
    BY <1>1, <2>1, NewSessionIsTyped
<1>4. /\ job \in [Jobs -> Request] /\ \A j \in Jobs : GoodRequest(job[j], server.id)
      /\ \A j \in Jobs \ {"start"} : job[j] = Idle
      /\ job["start"].at = "init" /\ job["start"].phase = "sent"
  BY <1>1, <1>3, LoadJobsAreGood
<1>5. ClientTypes
  <2>1. left \in [turns : Nat, events : Nat] /\ greetings \in [1..MaxSessions -> Nat]
    BY <1>1, ClientAssumption
  <2>2. now \in Nat /\ doubled \in BOOLEAN
    BY <1>1
  <2>3. server.id > 0
    BY <1>3
  <2>4. QED
    BY <1>1, <1>2, <1>3, <1>4, <2>1, <2>2, <2>3 DEF ClientTypes
<1>6. GreetingsInv(greetings, server)
  BY <1>1 DEF GreetingsInv
<1>7. Loading /\ Greeter(job["start"], server, greetings) /\ CaptureInv(page, doubled)
  BY <1>2, <1>4 DEF Loading, Greeter, CaptureInv, Silent
<1>8. page.id <= server.id
  BY <1>2, <1>3
<1>9. \A q \in stray : GoodStray(q, server.id)
  BY <1>1
<1>10. QED
  BY <1>4, <1>5, <1>6, <1>7, <1>8, <1>9 DEF ClientInv

LEMMA StepKeeps ==
  ASSUME ClientInv, Next
  PROVE  ClientInv'
<1>1. ASSUME NEW j \in Jobs, Serve(j) \/ Lose(j)
      PROVE  ClientInv'
  BY <1>1, ServeKeeps, LoseKeeps
<1>2. ASSUME NEW j \in Jobs, Resume(j)
      PROVE  ClientInv'
  <2>1. \/ InitAnswered \/ GreetedAnswered \/ Greet
        \/ TurnReported \/ TurnAnswered
        \/ ExpireSeen \/ Announce \/ WatchEnds \/ PollSeen \/ ReportSeen
        \/ ActivateSeen \/ Activated \/ Disabled \/ ShutDown
    BY <1>2 DEF Resume, Jobs
  <2>2. CASE InitAnswered \/ GreetedAnswered \/ Greet
    BY <2>2, InitAnsweredKeeps, GreetedAnsweredKeeps, GreetKeeps
  <2>3. CASE TurnReported \/ TurnAnswered
    BY <2>3, TurnReportedKeeps, TurnAnsweredKeeps
  <2>4. CASE ExpireSeen \/ Announce \/ WatchEnds \/ PollSeen \/ ReportSeen
    BY <2>4, ExpireSeenKeeps, AnnounceKeeps, WatchEndsKeeps, PollSeenKeeps, ReportSeenKeeps
  <2>5. CASE ActivateSeen \/ Activated \/ Disabled \/ ShutDown
    BY <2>5, ActivateSeenKeeps, ActivatedKeeps, DisabledKeeps, ShutDownKeeps
  <2>6. QED
    BY <2>1, <2>2, <2>3, <2>4, <2>5
<1>3. ASSUME NEW j \in Speakers, Recovered(j) \/ SpeechOver(j) \/ Completed(j)
      PROVE  ClientInv'
  BY <1>3, SpeakerKeeps
<1>4. ASSUME NEW q \in stray, ServeStray(q)
      PROVE  ClientInv'
  BY <1>4, ServeStrayKeeps
<1>5. ASSUME NEW k \in Captures, CaptureStep(k)
      PROVE  ClientInv'
  BY <1>5, GrantedKeeps, DeniedKeeps, HeardKeeps, RecognitionOverKeeps, RecognitionDeniedKeeps,
     RecordingOverKeeps, RecordingFailsKeeps DEF CaptureStep
<1>6. CASE FireTimer \/ Expire \/ Poll
  BY <1>6, FireTimerKeeps, ExpireKeeps
<1>7. CASE Disable \/ Shutdown
  BY <1>7, InterruptKeeps DEF Disable, Shutdown
<1>8. CASE OpenVoice \/ Activate \/ Typed \/ Hide \/ Show
  BY <1>8, OpenVoiceKeeps, ActivateKeeps, TypedKeeps, HideKeeps, ShowKeeps
<1>9. CASE Reload \/ Tick
  BY <1>9, ReloadKeeps, TickKeeps
<1>10. QED
  BY <1>1, <1>2, <1>3, <1>4, <1>5, <1>6, <1>7, <1>8, <1>9 DEF Next, JobStep, User

\* The page, its jobs and the newest session keep the invariant, whatever is lost,
\* served late or loaded again: it is what the two properties below follow from.
THEOREM ClientStaysGood == Spec => []ClientInv
<1>1. Init => ClientInv
  BY InitIsGood
<1>2. ClientInv /\ [Next]_vars => ClientInv'
  BY StepKeeps, StutterKeeps
<1>3. QED
  BY <1>1, <1>2, PTL DEF Spec

\* The one-time greeting is spoken once in a session at most (initializeVoice,
\* speakStartupGreeting): its marker is stored before a word is spoken, so a page
\* that is loaded again finds it, and a lost answer to it keeps the greeting silent.
THEOREM GreetingSpokenOnce == Spec => []GreetedOnce
<1>1. ClientInv => GreetedOnce
  BY DEF ClientInv, ClientTypes, GreetingsInv, GreetedOnce
<1>2. QED
  BY <1>1, ClientStaysGood, PTL

\* Echo does not hear itself: no microphone is on while a turn is worked on or the
\* greeting is spoken, unless two captures were started at once (startCapture looks
\* again after the wait for the microphone, and what speaks stops the capture).
THEOREM DeafWhileItAnswers == Spec => []DeafWhileAnswering
<1>1. ClientInv => DeafWhileAnswering
  BY DEF ClientInv, CaptureInv, Silent, DeafWhileAnswering
<1>2. QED
  BY <1>1, ClientStaysGood, PTL
=============================================================================
