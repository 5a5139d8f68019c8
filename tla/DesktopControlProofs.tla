------------------------- MODULE DesktopControlProofs -------------------------
(***************************************************************************)
(* Theorems about DesktopControl, for any number of requests that overlap  *)
(* with each other and with a person, any windows and anything that can be *)
(* asked for.                                                              *)
(*                                                                         *)
(* GoodRequest says what is true of one request and the window that has    *)
(* the focus.  Who is not disturbed is alone, so a step of somebody else   *)
(* takes nothing from what a request knows.                                *)
(***************************************************************************)
EXTENDS DesktopControl, TLAPS

States  == {"idle", "call", "tool", "act", "post", "sent"}
Results == {"none", "completed", "failed", "approval", "human"}

RequestRecord ==
  [pc : States, job : Jobs \cup {"none"}, todo : Seq(Tools \cup {"screen"}), confirmed : BOOLEAN,
   target : Windows \cup {None}, pre : BOOLEAN, base : {"none", "same", "changed"},
   record : {"none", "running", "completed", "unverified", "failed"},
   row : {"none", "running", "completed", "failed"}, result : Results, verified : BOOLEAN,
   did : SUBSET Tools, stray : BOOLEAN, effect : BOOLEAN, disturbed : BOOLEAN]

\* What can be left to do of a job.
TaskRests ==
  {<<"launch_application", "focus_window", "observe", "hotkey", "type", "press_key", "wait", "observe">>,
   <<"focus_window", "observe", "hotkey", "type", "press_key", "wait", "observe">>,
   <<"observe", "hotkey", "type", "press_key", "wait", "observe">>,
   <<"hotkey", "type", "press_key", "wait", "observe">>,
   <<"type", "press_key", "wait", "observe">>,
   <<"press_key", "wait", "observe">>,
   <<"wait", "observe">>,
   <<"observe">>}

Rests(job) ==
  IF job = "task" THEN TaskRests
  ELSE IF job = "fill" THEN {<<"click", "type">>, <<"type">>} ELSE {<<job>>}

\* A request that is served does what is left of its job.
Planned(q) ==
  q.pc # "idle" =>
    /\ q.result = "none" /\ q.target \in Windows
    /\ q.job # "none" /\ q.todo \in Rests(q.job)
    /\ q.job = "screen" => q.pc = "call"
    /\ q.pc \in {"act", "post"} => Head(q.todo) \in Input /\ q.record = "running"
    /\ q.pc = "sent" => Head(q.todo) \in System
    /\ q.pc \in {"post", "sent"} => Head(q.todo) \in q.did

NeedsWord == Consequential \cup {"close_window"}

\* Without the user's word a request does nothing that needs it, and what was put off did nothing.
Permitted(q) ==
  /\ q.result = "approval" => q.did = {}
  /\ ~q.confirmed =>
       /\ q.did \cap NeedsWord \subseteq IF q.job = "task" THEN {"type"} ELSE {}
       /\ q.job = "fill" => q.pc \in {"idle", "call", "tool"} /\ q.did = {}
       /\ q.job # "task" /\ q.pc \in {"call", "tool", "act"} => q.did = {}
       /\ q.job # "task" /\ q.pc = "act" => Head(q.todo) \notin NeedsWord

\* What is typed goes where it is meant to go: the control was clicked, a window that answers to
\* the application's name is in front, and nobody changed that.
Focused(q, a) ==
  q.job \in {"fill", "task"} /\ ~q.disturbed =>
    /\ ~q.stray
    /\ q.job = "fill" /\ q.pc # "idle" /\ (Head(q.todo) = "type" \/ q.pc = "post") => a = q.target
    /\ q.job = "task" /\ q.pc # "idle" =>
         Head(q.todo) \in {"launch_application", "focus_window"} \/ a \in Answers[q.target]

\* The screen that was observed before the action is still there, or the action changed it.
Evidenced(q) ==
  ~q.disturbed =>
    /\ q.pc = "act" => q.pre
    /\ q.pc = "post" => q.pre \/ q.effect
    /\ q.record = "completed" /\ q.did \cap (Input \ {"move", "wait"}) # {} => q.effect \/ "wait" \in q.did
    /\ q.pc # "idle" /\ Head(q.todo) = "move" => q.did \subseteq {"move"}

GoodRequest(q, a) == q \in RequestRecord /\ Planned(q) /\ Permitted(q) /\ Focused(q, a) /\ Evidenced(q)

\* A request during which another one is served knows that it may be disturbed.
Aware ==
  \A r, p \in Requests : r # p /\ Serving(r) /\ Serving(p) => req[r].disturbed

DesktopTypes ==
  /\ active \in Windows \cup {None} /\ shown \subseteq Windows
  /\ session \in {"none", "active", "completed"}
  /\ pending \subseteq Approvable

RequestsGood == req \in [Requests -> RequestRecord] /\ \A r \in Requests : GoodRequest(req[r], active)

DesktopInv == DesktopTypes /\ Aware /\ RequestsGood
-----------------------------------------------------------------------------
(* Jobs *)

TaskTools == {"launch_application", "focus_window", "observe", "hotkey", "type", "press_key", "wait"}

LEMMA TaskFacts ==
  ASSUME NEW s \in TaskRests
  PROVE  /\ s # <<>> /\ s \in Seq(TaskTools)
         /\ Head(s) \in TaskTools
         /\ Tail(s) \in TaskRests \cup {<<>>}
         /\ Head(s) = "launch_application" =>
              Tail(s) # <<>> /\ Head(Tail(s)) = "focus_window" /\ Tail(Tail(s)) \in TaskRests
<1>1. CASE s = <<"launch_application", "focus_window", "observe", "hotkey", "type", "press_key", "wait", "observe">>
  BY <1>1 DEF TaskRests, TaskTools
<1>2. CASE s = <<"focus_window", "observe", "hotkey", "type", "press_key", "wait", "observe">>
  BY <1>2 DEF TaskRests, TaskTools
<1>3. CASE s = <<"observe", "hotkey", "type", "press_key", "wait", "observe">>
  BY <1>3 DEF TaskRests, TaskTools
<1>4. CASE s = <<"hotkey", "type", "press_key", "wait", "observe">>
  BY <1>4 DEF TaskRests, TaskTools
<1>5. CASE s = <<"type", "press_key", "wait", "observe">>
  BY <1>5 DEF TaskRests, TaskTools
<1>6. CASE s = <<"press_key", "wait", "observe">>
  BY <1>6 DEF TaskRests, TaskTools
<1>7. CASE s = <<"wait", "observe">>
  BY <1>7 DEF TaskRests, TaskTools
<1>8. CASE s = <<"observe">>
  BY <1>8 DEF TaskRests, TaskTools
<1>9. QED
  BY <1>1, <1>2, <1>3, <1>4, <1>5, <1>6, <1>7, <1>8 DEF TaskRests

LEMMA FillFacts ==
  ASSUME NEW s \in {<<"click", "type">>, <<"type">>}
  PROVE  /\ s # <<>> /\ s \in Seq({"click", "type"})
         /\ Head(s) \in {"click", "type"}
         /\ Tail(s) = IF Head(s) = "type" THEN <<>> ELSE <<"type">>
<1>1. CASE s = <<"click", "type">>
  BY <1>1
<1>2. CASE s = <<"type">>
  BY <1>2
<1>3. QED
  BY <1>1, <1>2

LEMMA SingleFacts ==
  ASSUME NEW job
  PROVE  <<job>> # <<>> /\ <<job>> \in Seq({job}) /\ Head(<<job>>) = job /\ Tail(<<job>>) = <<>>
  OBVIOUS

LEMMA RestFacts ==
  ASSUME NEW job \in Jobs, NEW s \in Rests(job)
  PROVE  /\ s # <<>> /\ s \in Seq(Tools \cup {"screen"})
         /\ Tail(s) \in Rests(job) \cup {<<>>}
         /\ Head(s) \in Tools \cup {"screen"}
         /\ job = "task" => Head(s) \in TaskTools
         /\ job = "fill" => Head(s) \in {"click", "type"} /\ Tail(s) = IF Head(s) = "type" THEN <<>> ELSE <<"type">>
         /\ job \notin {"task", "fill"} => Head(s) = job /\ Tail(s) = <<>>
<1>1. CASE job = "task"
  <2>1. TaskTools \subseteq Tools
    BY DEF TaskTools, Tools, Input, System
  <2>2. s \in TaskRests
    BY <1>1 DEF Rests
  <2>3. /\ s # <<>> /\ s \in Seq(TaskTools) /\ Head(s) \in TaskTools
        /\ Tail(s) \in TaskRests \cup {<<>>}
    BY <2>2, TaskFacts
  <2>4. QED
    BY <1>1, <2>1, <2>3 DEF Rests
<1>2. CASE job = "fill"
  <2>1. {"click", "type"} \subseteq Tools
    BY DEF Tools, Input
  <2>2. s \in {<<"click", "type">>, <<"type">>}
    BY <1>2 DEF Rests
  <2>3. /\ s # <<>> /\ s \in Seq({"click", "type"}) /\ Head(s) \in {"click", "type"}
        /\ Tail(s) = IF Head(s) = "type" THEN <<>> ELSE <<"type">>
    BY <2>2, FillFacts
  <2>4. QED
    BY <1>2, <2>1, <2>3 DEF Rests
<1>3. CASE job \notin {"task", "fill"}
  <2>1. s = <<job>> /\ job \in Tools \cup {"screen"}
    BY <1>3 DEF Rests, Jobs
  <2>2. s # <<>> /\ s \in Seq({job}) /\ Head(s) = job /\ Tail(s) = <<>>
    BY <2>1, SingleFacts
  <2>3. QED
    BY <1>3, <2>1, <2>2
<1>4. QED
  BY <1>1, <1>2, <1>3

LEMMA PlanIsARest ==
  ASSUME NEW job \in Jobs
  PROVE  /\ PlanOf(job) \in Rests(job)
         /\ job = "task" => Head(PlanOf(job)) = "launch_application"
         /\ job = "fill" => Head(PlanOf(job)) = "click"
  BY DEF PlanOf, Rests, TaskRests

-----------------------------------------------------------------------------
(* The records of requests *)

LEMMA IdleIsARequest == Idle \in RequestRecord
  BY DEF Idle, RequestRecord, States, Results

LEMMA ClosingKeepsTheType ==
  ASSUME NEW q \in RequestRecord,
         NEW row \in {"none", "running", "completed", "failed"},
         NEW record \in {"none", "running", "completed", "unverified", "failed"}
  PROVE  [q EXCEPT !.row = row, !.record = record] \in RequestRecord
<1>1. [q EXCEPT !.row = row] \in RequestRecord
  BY DEF RequestRecord
<1>2. ASSUME NEW p \in RequestRecord
      PROVE  [p EXCEPT !.record = record] \in RequestRecord
  BY <1>2 DEF RequestRecord
<1>3. [q EXCEPT !.row = row, !.record = record] = [[q EXCEPT !.row = row] EXCEPT !.record = record]
  OBVIOUS
<1>4. QED
  BY <1>1, <1>2, <1>3

LEMMA FinishFields ==
  ASSUME NEW r \in Requests, req[r] \in RequestRecord, NEW result \in Results
  PROVE  /\ Finish(r, result) \in RequestRecord
         /\ Finish(r, result).pc = "idle" /\ Finish(r, result).result = result
         /\ Finish(r, result).job = req[r].job /\ Finish(r, result).confirmed = req[r].confirmed
         /\ Finish(r, result).did = req[r].did /\ Finish(r, result).stray = req[r].stray
         /\ Finish(r, result).effect = req[r].effect /\ Finish(r, result).disturbed = req[r].disturbed
         /\ Finish(r, result).record = "completed" => req[r].record = "completed"
<1> DEFINE row    == IF req[r].row = "running" THEN IF result = "completed" THEN req[r].row ELSE "failed" ELSE req[r].row
           record == IF req[r].record = "running" THEN "failed" ELSE req[r].record
           idle   == [req[r] EXCEPT !.pc = "idle", !.todo = <<>>, !.result = result, !.pre = FALSE,
                                    !.base = "none"]
           q      == [idle EXCEPT !.row = row, !.record = record]
<1>1. Finish(r, result) = q
  BY DEF Finish, RequestRecord
<1>2. /\ row \in {"none", "running", "completed", "failed"}
      /\ record \in {"none", "running", "completed", "unverified", "failed"}
      /\ record = "completed" => req[r].record = "completed"
  BY DEF RequestRecord
<1>3. <<>> \in Seq(Tools \cup {"screen"})
  OBVIOUS
<1> HIDE DEF row, record
<1>4. q \in RequestRecord
  <2>1. idle \in RequestRecord
    BY <1>3 DEF RequestRecord, States
  <2> HIDE DEF idle
  <2>2. QED
    BY <1>2, <2>1, ClosingKeepsTheType
<1>5. /\ q.pc = "idle" /\ q.result = result /\ q.record = record
      /\ q.job = req[r].job /\ q.confirmed = req[r].confirmed /\ q.did = req[r].did
      /\ q.stray = req[r].stray /\ q.effect = req[r].effect /\ q.disturbed = req[r].disturbed
  BY DEF RequestRecord
<1>6. QED
  BY <1>1, <1>2, <1>4, <1>5

LEMMA CompletedFields ==
  ASSUME NEW r \in Requests, req[r] \in RequestRecord, req[r].job \in Jobs, req[r].todo \in Rests(req[r].job)
  PROVE  /\ Completed(r) \in RequestRecord
         /\ Completed(r).pc \in {"idle", "call", "tool"}
         /\ Completed(r).pc = "tool" => req[r].job = "fill"
         /\ Completed(r).todo = Tail(req[r].todo)
         /\ Completed(r).pc = "idle" <=> Tail(req[r].todo) = <<>>
         /\ Completed(r).result = IF Tail(req[r].todo) = <<>> THEN "completed" ELSE req[r].result
         /\ Completed(r).job = req[r].job /\ Completed(r).confirmed = req[r].confirmed
         /\ Completed(r).target = req[r].target /\ Completed(r).record = req[r].record
         /\ Completed(r).did = req[r].did /\ Completed(r).stray = req[r].stray
         /\ Completed(r).effect = req[r].effect /\ Completed(r).disturbed = req[r].disturbed
<1> DEFINE rest == Tail(req[r].todo)
           next == [req[r] EXCEPT !.row = "completed", !.pc = "call", !.todo = rest]
           last == [req[r] EXCEPT !.row = "completed", !.todo = rest, !.pc = "idle", !.result = "completed",
                                  !.pre = FALSE, !.base = "none"]
           also == [req[r] EXCEPT !.row = "running", !.pc = "tool", !.todo = rest]
<1>1. rest \in Seq(Tools \cup {"screen"})
  BY RestFacts
<1>2. Completed(r) = IF rest = <<>> THEN last ELSE IF req[r].job = "fill" THEN also ELSE next
  BY DEF Completed, RequestRecord
<1> HIDE DEF rest
<1>3. last \in RequestRecord /\ also \in RequestRecord /\ next \in RequestRecord
  BY <1>1, ZenonT(60) DEF RequestRecord, States, Results
<1>4. CASE rest = <<>>
  BY <1>2, <1>3, <1>4 DEF RequestRecord, rest
<1>5. CASE rest # <<>>
  BY <1>2, <1>3, <1>5 DEF RequestRecord, rest
<1>6. QED
  BY <1>4, <1>5
-----------------------------------------------------------------------------
(* How a request ends, and how it goes on *)

\* A request that ends keeps what is good about it; what is put off did nothing.
LEMMA FinishIsGood ==
  ASSUME NEW r \in Requests, GoodRequest(req[r], active), NEW result \in Results, NEW a,
         result = "approval" => req[r].did = {}
  PROVE  GoodRequest(Finish(r, result), a)
<1> DEFINE q == Finish(r, result)
<1>1. /\ q \in RequestRecord /\ q.pc = "idle" /\ q.result = result
      /\ q.job = req[r].job /\ q.confirmed = req[r].confirmed /\ q.did = req[r].did
      /\ q.stray = req[r].stray /\ q.effect = req[r].effect /\ q.disturbed = req[r].disturbed
      /\ q.record = "completed" => req[r].record = "completed"
  BY FinishFields DEF GoodRequest
<1> HIDE DEF q
<1>2. Planned(q)
  BY <1>1 DEF Planned
<1>3. Permitted(q)
  BY <1>1 DEF Permitted, GoodRequest
<1>4. Focused(q, a)
  BY <1>1 DEF Focused, GoodRequest
<1>5. Evidenced(q)
  BY <1>1 DEF Evidenced, GoodRequest
<1>6. QED
  BY <1>1, <1>2, <1>3, <1>4, <1>5 DEF GoodRequest, q

\* A call that is done leaves a good request, if its window has the focus when the next call is
\* not about that, and if what it recorded is true.  The record is record, and the request knows
\* nothing of the screen any more, when input was sent.
LEMMA CompletedIsGood ==
  ASSUME NEW r \in Requests, Planned(req[r]), Permitted(req[r]), req[r] \in RequestRecord,
         req[r].pc \in {"tool", "post", "sent"},
         req[r].job \in {"fill", "task"} /\ ~req[r].disturbed => ~req[r].stray,
         req[r].job = "fill" /\ ~req[r].disturbed /\ Tool(r) # "type" => active = req[r].target,
         req[r].job = "task" /\ ~req[r].disturbed =>
           Tool(r) = "launch_application" \/ active \in Answers[req[r].target],
         ~req[r].confirmed => req[r].job # "fill",
         NEW q \in RequestRecord,
         q.pc = Completed(r).pc, q.todo = Completed(r).todo, q.result = Completed(r).result,
         q.job = req[r].job, q.confirmed = req[r].confirmed, q.target = req[r].target,
         q.did = req[r].did, q.stray = req[r].stray, q.effect = req[r].effect, q.disturbed = req[r].disturbed,
         Evidenced(q)
  PROVE  GoodRequest(q, active)
<1> DEFINE todo == req[r].todo
           job  == req[r].job
<1>1. /\ job \in Jobs /\ todo \in Rests(job) /\ req[r].target \in Windows
      /\ req[r].result = "none" /\ job # "screen"
  BY DEF Planned, RequestRecord
<1>2. /\ q.pc \in {"idle", "call", "tool"} /\ q.todo = Tail(todo)
      /\ q.pc = "idle" <=> Tail(todo) = <<>>
      /\ q.result = IF Tail(todo) = <<>> THEN "completed" ELSE "none"
  BY <1>1, CompletedFields
<1>3. Planned(q)
  <2>1. Tail(todo) \in Rests(job) \cup {<<>>}
    BY <1>1, RestFacts
  <2>2. QED
    BY <1>1, <1>2, <2>1 DEF Planned
<1>4. Permitted(q)
  <2>1. job \notin {"task", "fill"} => q.pc = "idle"
    BY <1>1, <1>2, RestFacts
  <2>2. QED
    BY <1>1, <1>2, <2>1 DEF Permitted
<1>5. Focused(q, active)
  <2>1. SUFFICES ASSUME job \in {"fill", "task"}, ~q.disturbed, q.pc # "idle"
                 PROVE  /\ job = "fill" => active = q.target
                        /\ job = "task" => \/ Head(q.todo) \in {"launch_application", "focus_window"}
                                           \/ active \in Answers[q.target]
    BY DEF Focused
  <2>2. CASE job = "fill"
    BY <1>1, <1>2, <2>1, <2>2, RestFacts DEF Tool
  <2>3. CASE job = "task"
    <3>1. todo \in TaskRests
      BY <1>1, <2>3 DEF Rests
    <3>2. Tool(r) = "launch_application" => Head(q.todo) = "focus_window"
      BY <1>2, <3>1, TaskFacts DEF Tool
    <3>3. QED
      BY <2>1, <2>3, <3>2
  <2>4. QED
    BY <2>1, <2>2, <2>3
<1>6. QED
  BY <1>3, <1>4, <1>5 DEF GoodRequest
-----------------------------------------------------------------------------
(* What a step of one request means for the others *)

\* A request that is idle or disturbed is good whatever window has the focus.
LEMMA OthersAreGood ==
  ASSUME NEW q, NEW a, NEW b, GoodRequest(q, a), q.pc = "idle" \/ q.disturbed
  PROVE  GoodRequest(q, b)
  BY DEF GoodRequest, Focused

\* A request that learns that it is disturbed stays good.
LEMMA NoticedIsGood ==
  ASSUME NEW q, NEW a, NEW b, GoodRequest(q, a)
  PROVE  GoodRequest([q EXCEPT !.disturbed = TRUE], b)
<1> DEFINE p == [q EXCEPT !.disturbed = TRUE]
<1>1. p \in RequestRecord /\ p.disturbed
  BY DEF GoodRequest, RequestRecord
<1>2. /\ p.pc = q.pc /\ p.result = q.result /\ p.target = q.target /\ p.job = q.job /\ p.todo = q.todo
      /\ p.record = q.record /\ p.did = q.did /\ p.confirmed = q.confirmed
  BY DEF GoodRequest, RequestRecord
<1> HIDE DEF p
<1>3. Planned(p)
  BY <1>2 DEF Planned, GoodRequest
<1>4. Permitted(p)
  BY <1>2 DEF Permitted, GoodRequest
<1>5. Focused(p, b) /\ Evidenced(p)
  BY <1>1 DEF Focused, Evidenced
<1>6. GoodRequest(p, b)
  BY <1>1, <1>3, <1>4, <1>5 DEF GoodRequest
<1>7. QED
  BY <1>6 DEF p

\* What Changed and Person leave of a request that is not theirs.
Past(q) == [q EXCEPT !.pre = FALSE, !.base = IF @ = "same" THEN "changed" ELSE @,
                     !.disturbed = @ \/ q.pc # "idle"]

LEMMA PastIsGood ==
  ASSUME NEW q, NEW a, NEW b, GoodRequest(q, a)
  PROVE  /\ GoodRequest(Past(q), b)
         /\ Past(q).pc = q.pc
         /\ q.disturbed => Past(q).disturbed
         /\ q.pc # "idle" => Past(q).disturbed
<1> DEFINE base  == IF q.base = "same" THEN "changed" ELSE q.base
           noted == q.disturbed \/ q.pc # "idle"
           p     == [q EXCEPT !.pre = FALSE, !.base = base, !.disturbed = noted]
<1>1. base \in {"none", "same", "changed"} /\ noted \in BOOLEAN
  BY DEF GoodRequest, RequestRecord
<1>2. Past(q) = p
  BY DEF Past, GoodRequest, RequestRecord
<1> HIDE DEF base, noted
<1>3. p \in RequestRecord
  BY <1>1 DEF GoodRequest, RequestRecord
<1>4. /\ p.pc = q.pc /\ p.result = q.result /\ p.target = q.target /\ p.job = q.job /\ p.todo = q.todo
      /\ p.record = q.record /\ p.did = q.did /\ p.confirmed = q.confirmed /\ p.stray = q.stray
      /\ p.effect = q.effect
      /\ p.disturbed = noted
  BY DEF GoodRequest, RequestRecord
<1> HIDE DEF p
<1>5. p.disturbed <=> q.disturbed \/ q.pc # "idle"
  BY <1>4 DEF noted
<1>6. Planned(p)
  BY <1>4 DEF Planned, GoodRequest
<1>7. Permitted(p)
  BY <1>4 DEF Permitted, GoodRequest
<1>8. Focused(p, b)
  BY <1>4, <1>5 DEF Focused, GoodRequest
<1>9. Evidenced(p)
  BY <1>4, <1>5 DEF Evidenced, GoodRequest
<1>10. QED
  BY <1>2, <1>3, <1>4, <1>5, <1>6, <1>7, <1>8, <1>9 DEF GoodRequest

\* A step of one request, which may move the focus.
LEMMA OwnStepKeeps ==
  ASSUME DesktopInv, NEW r \in Requests, Serving(r), NEW p,
         req' = [req EXCEPT ![r] = p], GoodRequest(p, active'), p.disturbed = req[r].disturbed,
         DesktopTypes'
  PROVE  DesktopInv'
<1>1. req \in [Requests -> RequestRecord] /\ p \in RequestRecord
  BY DEF DesktopInv, RequestsGood, GoodRequest
<1>2. req' \in [Requests -> RequestRecord] /\ req'[r] = p
  BY <1>1
<1>3. ASSUME NEW q \in Requests, q # r
      PROVE  req'[q] = req[q]
  BY <1>1, <1>3
<1>4. Aware'
  BY <1>2, <1>3 DEF DesktopInv, Aware, Serving
<1>5. ASSUME NEW q \in Requests, q # r
      PROVE  GoodRequest(req'[q], active')
  <2>1. GoodRequest(req[q], active)
    BY DEF DesktopInv, RequestsGood
  <2>2. req[q].pc = "idle" \/ req[q].disturbed
    BY <1>5 DEF DesktopInv, Aware, Serving
  <2>3. QED
    BY <1>3, <1>5, <2>1, <2>2, OthersAreGood
<1>6. RequestsGood'
  BY <1>2, <1>5 DEF RequestsGood
<1>7. QED
  BY <1>4, <1>6 DEF DesktopInv

\* A step of one request that changes the screen.
LEMMA ChangingStepKeeps ==
  ASSUME DesktopInv, NEW r \in Requests, Serving(r), NEW p,
         req' = Changed(r, p), GoodRequest(p, active'), p.disturbed = req[r].disturbed,
         DesktopTypes'
  PROVE  DesktopInv'
<1>1. req \in [Requests -> RequestRecord] /\ p \in RequestRecord
  BY DEF DesktopInv, RequestsGood, GoodRequest
<1>2. req' = [q \in Requests |-> IF q = r THEN p ELSE Past(req[q])]
  BY DEF Changed, Past, Serving
<1>3. ASSUME NEW q \in Requests, q # r
      PROVE  /\ GoodRequest(req'[q], active')
             /\ req'[q].pc = req[q].pc
             /\ req[q].disturbed => req'[q].disturbed
  <2>1. GoodRequest(req[q], active)
    BY DEF DesktopInv, RequestsGood
  <2>2. req'[q] = Past(req[q])
    BY <1>2, <1>3
  <2>3. QED
    BY <2>1, <2>2, PastIsGood
<1>4. req'[r] = p
  BY <1>2
<1>5. Aware'
  <2>1. SUFFICES ASSUME NEW q1 \in Requests, NEW q2 \in Requests, q1 # q2,
                        req'[q1].pc # "idle", req'[q2].pc # "idle"
                 PROVE  req'[q1].disturbed
    BY DEF Aware, Serving
  <2>2. req[q1].pc # "idle" /\ req[q2].pc # "idle"
    BY <1>3, <2>1 DEF Serving
  <2>3. req[q1].disturbed
    BY <2>1, <2>2 DEF DesktopInv, Aware, Serving
  <2>4. QED
    BY <1>3, <1>4, <2>3
<1>6. RequestsGood'
  <2>1. \A q \in Requests : GoodRequest(req'[q], active') /\ req'[q] \in RequestRecord
    BY <1>3, <1>4 DEF GoodRequest
  <2>2. req' \in [Requests -> RequestRecord]
    BY <1>2, <2>1
  <2>3. QED
    BY <2>1, <2>2 DEF RequestsGood
<1>7. QED
  BY <1>5, <1>6 DEF DesktopInv

\* A new request.
LEMMA BeginKeeps ==
  ASSUME DesktopInv, NEW r \in Requests, ~Serving(r), NEW new, Begin(r, new),
         GoodRequest(new, active), UNCHANGED active, new.disturbed = FALSE, DesktopTypes'
  PROVE  DesktopInv'
<1> DEFINE other == \E p \in Requests \ {r} : Serving(p)
<1>1. req \in [Requests -> RequestRecord]
  BY DEF DesktopInv, RequestsGood
<1>2. other \in BOOLEAN
  OBVIOUS
<1>3. req'[r] = [new EXCEPT !.disturbed = other]
  BY DEF Begin
<1>4. ASSUME NEW q \in Requests, q # r
      PROVE  req'[q] = IF req[q].pc # "idle" THEN [req[q] EXCEPT !.disturbed = TRUE] ELSE req[q]
  BY <1>4 DEF Begin, Serving
<1>5. DOMAIN req' = Requests /\ req' = [q \in Requests |-> req'[q]]
  BY DEF Begin
<1> HIDE DEF other
<1>6. GoodRequest(req'[r], active') /\ (req'[r].disturbed <=> other)
  <2>1. CASE other
    <3>1. req'[r] = [new EXCEPT !.disturbed = TRUE]
      BY <1>2, <1>3, <2>1
    <3>2. GoodRequest(req'[r], active')
      BY <3>1, NoticedIsGood
    <3>3. req'[r].disturbed = TRUE
      BY <3>1 DEF GoodRequest, RequestRecord
    <3>4. QED
      BY <2>1, <3>2, <3>3
  <2>2. CASE ~other
    <3>1. new = [new EXCEPT !.disturbed = FALSE]
      BY DEF GoodRequest, RequestRecord
    <3>2. req'[r] = new
      BY <1>2, <1>3, <2>2, <3>1
    <3>3. QED
      BY <2>2, <3>2
  <2>3. QED
    BY <2>1, <2>2
<1>7. ASSUME NEW q \in Requests, q # r
      PROVE  /\ GoodRequest(req'[q], active')
             /\ req'[q].pc = req[q].pc
             /\ req[q].pc # "idle" => req'[q].disturbed
  <2>1. GoodRequest(req[q], active)
    BY DEF DesktopInv, RequestsGood
  <2>2. CASE req[q].pc = "idle"
    BY <1>4, <1>7, <2>1, <2>2
  <2>3. CASE req[q].pc # "idle"
    <3>1. req'[q] = [req[q] EXCEPT !.disturbed = TRUE]
      BY <1>4, <1>7, <2>3
    <3>2. req'[q].pc = req[q].pc /\ req'[q].disturbed
      BY <1>1, <3>1 DEF RequestRecord
    <3>3. QED
      BY <2>1, <3>1, <3>2, NoticedIsGood
  <2>4. QED
    BY <2>2, <2>3
<1>8. Aware'
  <2>1. SUFFICES ASSUME NEW q1 \in Requests, NEW q2 \in Requests, q1 # q2,
                        req'[q1].pc # "idle", req'[q2].pc # "idle"
                 PROVE  req'[q1].disturbed
    BY DEF Aware, Serving
  <2>2. CASE q1 # r
    BY <1>7, <2>1, <2>2
  <2>3. CASE q1 = r
    BY <1>6, <1>7, <2>1, <2>3 DEF other, Serving
  <2>4. QED
    BY <2>2, <2>3
<1>9. RequestsGood'
  <2>1. \A q \in Requests : GoodRequest(req'[q], active') /\ req'[q] \in RequestRecord
    BY <1>6, <1>7 DEF GoodRequest
  <2>2. req' \in [Requests -> RequestRecord]
    BY <1>5, <2>1
  <2>3. QED
    BY <2>1, <2>2 DEF RequestsGood
<1>10. QED
  BY <1>8, <1>9 DEF DesktopInv
-----------------------------------------------------------------------------
(* The steps of a request *)

LEMMA ServedFacts ==
  ASSUME DesktopInv, NEW r \in Requests, Serving(r)
  PROVE  /\ GoodRequest(req[r], active) /\ req[r] \in RequestRecord /\ DesktopTypes
         /\ req[r].job \in Jobs /\ req[r].todo \in Rests(req[r].job)
         /\ req[r].target \in Windows /\ req[r].result = "none"
  BY DEF DesktopInv, RequestsGood, GoodRequest, Planned, Serving, RequestRecord

\* A request that ends.
LEMMA EndingKeeps ==
  ASSUME DesktopInv, NEW r \in Requests, Serving(r), NEW result \in Results,
         result = "approval" => req[r].did = {},
         NEW p, req' = [req EXCEPT ![r] = p],
         \/ p = Finish(r, result)
         \/ p = [Finish(r, result) EXCEPT !.row = "completed"]
         \/ p = [Finish(r, result) EXCEPT !.record = "unverified"],
         active' = active, DesktopTypes'
  PROVE  DesktopInv'
<1> DEFINE q == Finish(r, result)
<1>1. GoodRequest(q, active) /\ q.disturbed = req[r].disturbed /\ q.pc = "idle"
  BY ServedFacts, FinishIsGood, FinishFields
<1> HIDE DEF q
<1>2. \/ p = q
      \/ p = [q EXCEPT !.row = "completed"]
      \/ p = [q EXCEPT !.record = "unverified"]
  BY DEF q
<1>3. /\ p \in RequestRecord /\ p.pc = q.pc
      /\ p.result = q.result /\ p.job = q.job /\ p.did = q.did /\ p.confirmed = q.confirmed
      /\ p.stray = q.stray /\ p.effect = q.effect /\ p.disturbed = q.disturbed
      /\ p.record = "completed" => q.record = "completed"
  BY <1>1, <1>2 DEF GoodRequest, RequestRecord
<1>4. Planned(p)
  BY <1>1, <1>3 DEF Planned
<1>5. Permitted(p)
  BY <1>1, <1>3 DEF Permitted, GoodRequest
<1>6. Focused(p, active')
  BY <1>1, <1>3 DEF Focused, GoodRequest
<1>7. Evidenced(p)
  BY <1>1, <1>3 DEF Evidenced, GoodRequest
<1>8. QED
  BY <1>1, <1>3, <1>4, <1>5, <1>6, <1>7, OwnStepKeeps DEF GoodRequest

LEMMA RefusedKeeps ==
  ASSUME DesktopInv, NEW r \in Requests, Refused(r)
  PROVE  DesktopInv'
<1>1. Serving(r) /\ DesktopTypes'
  BY DEF Refused, Serving, DesktopInv, DesktopTypes, desktop
<1>2. QED
  BY <1>1, EndingKeeps DEF Refused, Results, desktop

LEMMA FailKeeps ==
  ASSUME DesktopInv, NEW r \in Requests, Fail(r)
  PROVE  DesktopInv'
<1>1. Serving(r) /\ DesktopTypes'
  BY DEF Fail, Serving, DesktopInv, DesktopTypes, desktop
<1>2. QED
  BY <1>1, EndingKeeps DEF Fail, Results, desktop

LEMMA BlockedKeeps ==
  ASSUME DesktopInv, NEW r \in Requests, Blocked(r)
  PROVE  DesktopInv'
<1>1. Serving(r) /\ DesktopTypes'
  BY DEF Blocked, Serving, DesktopInv, DesktopTypes, desktop
<1>2. QED
  BY <1>1, EndingKeeps DEF Blocked, Results, desktop

LEMMA AnswerScreenKeeps ==
  ASSUME DesktopInv, NEW r \in Requests, AnswerScreen(r)
  PROVE  DesktopInv'
<1>1. Serving(r) /\ DesktopTypes'
  BY DEF AnswerScreen, Serving, DesktopInv, DesktopTypes, desktop
<1>2. QED
  BY <1>1, EndingKeeps DEF AnswerScreen, Results, desktop

LEMMA CloseUnconfirmedKeeps ==
  ASSUME DesktopInv, NEW r \in Requests, CloseUnconfirmed(r)
  PROVE  DesktopInv'
<1>1. Serving(r) /\ DesktopTypes'
  BY DEF CloseUnconfirmed, Serving, DesktopInv, DesktopTypes, desktop
<1>2. QED
  BY <1>1, EndingKeeps DEF CloseUnconfirmed, Results, desktop

LEMMA ExecuteKeeps ==
  ASSUME DesktopInv, NEW r \in Requests, Execute(r)
  PROVE  DesktopInv'
<1> DEFINE p == [req[r] EXCEPT !.pc = "tool", !.row = "running"]
<1>1. Serving(r) /\ DesktopTypes' /\ active' = active
  BY DEF Execute, Serving, DesktopInv, DesktopTypes, desktop
<1>2. GoodRequest(req[r], active) /\ req[r] \in RequestRecord
  BY <1>1, ServedFacts
<1>3. req' = [req EXCEPT ![r] = p]
  BY <1>2 DEF Execute, DesktopInv, RequestsGood, RequestRecord
<1>4. p \in RequestRecord
  BY <1>2 DEF RequestRecord, States
<1>5. /\ p.pc = "tool" /\ p.result = req[r].result /\ p.target = req[r].target /\ p.job = req[r].job
      /\ p.todo = req[r].todo /\ p.record = req[r].record /\ p.did = req[r].did
      /\ p.confirmed = req[r].confirmed /\ p.stray = req[r].stray /\ p.effect = req[r].effect
      /\ p.disturbed = req[r].disturbed /\ req[r].pc = "call" /\ p.job # "screen"
  BY <1>2 DEF RequestRecord, Execute
<1> HIDE DEF p
<1>6. Planned(p)
  BY <1>2, <1>5 DEF Planned, GoodRequest
<1>7. Permitted(p)
  BY <1>2, <1>5 DEF Permitted, GoodRequest
<1>8. Focused(p, active')
  BY <1>1, <1>2, <1>5 DEF Focused, GoodRequest
<1>9. Evidenced(p)
  BY <1>2, <1>5 DEF Evidenced, GoodRequest
<1>10. QED
  BY <1>1, <1>3, <1>4, <1>5, <1>6, <1>7, <1>8, <1>9, OwnStepKeeps DEF GoodRequest

LEMMA PrepareKeeps ==
  ASSUME DesktopInv, NEW r \in Requests, Prepare(r)
  PROVE  DesktopInv'
<1> DEFINE p == [Observed(req[r]) EXCEPT !.pc = "act", !.record = "running"]
<1>1. Serving(r) /\ active' = active /\ req[r].pc = "tool"
  BY DEF Prepare, Serving, desktop
<1>2. GoodRequest(req[r], active) /\ req[r] \in RequestRecord
  BY <1>1, ServedFacts
<1>3. DesktopTypes'
  BY DEF Prepare, PutOff, DesktopInv, DesktopTypes, desktop
<1>4. CASE NeedsApproval(r)
  <2>1. req[r].did = {}
    BY <1>2, <1>4 DEF NeedsApproval, Permitted, GoodRequest, Prepare
  <2>2. QED
    BY <1>1, <1>3, <1>4, <2>1, EndingKeeps DEF Prepare, PutOff, Results
<1>5. CASE ~NeedsApproval(r)
  <2>1. req' = [req EXCEPT ![r] = p]
    BY <1>5 DEF Prepare, DesktopInv, RequestsGood
  <2>2. p \in RequestRecord
    BY <1>2 DEF RequestRecord, States, Observed
  <2>3. /\ p.pc = "act" /\ p.result = req[r].result /\ p.target = req[r].target /\ p.job = req[r].job
        /\ p.todo = req[r].todo /\ p.record = "running" /\ p.did = req[r].did
        /\ p.confirmed = req[r].confirmed /\ p.stray = req[r].stray /\ p.pre
        /\ p.disturbed = req[r].disturbed
    BY <1>2 DEF RequestRecord, Observed
  <2>4. /\ Head(req[r].todo) \in Input
        /\ \/ Head(req[r].todo) \notin Consequential /\ req[r].job # "fill"
           \/ req[r].confirmed
           \/ req[r].job = "task"
    BY <1>5 DEF NeedsApproval, Prepare, Tool
  <2> HIDE DEF p
  <2>5. Planned(p)
    BY <1>1, <1>2, <2>3, <2>4 DEF Planned, GoodRequest
  <2>6. Permitted(p)
    <3>1. "close_window" \notin Input
      BY DEF Input
    <3>2. req[r].job = "task" => req[r].job # "fill"
      OBVIOUS
    <3>3. QED
      BY <1>1, <1>2, <2>3, <2>4, <3>1, <3>2 DEF Permitted, GoodRequest, NeedsWord, Planned
  <2>7. Focused(p, active')
    BY <1>1, <1>2, <2>3 DEF Focused, GoodRequest
  <2>8. Evidenced(p)
    BY <1>1, <1>2, <2>3 DEF Evidenced, GoodRequest
  <2>9. QED
    BY <1>1, <1>3, <2>1, <2>2, <2>3, <2>5, <2>6, <2>7, <2>8, OwnStepKeeps DEF GoodRequest
<1>6. QED
  BY <1>4, <1>5

\* Input is sent.
LEMMA PerformKeeps ==
  ASSUME DesktopInv, NEW r \in Requests, Perform(r)
  PROVE  DesktopInv'
<1> DEFINE wrong == req[r].stray \/ (Tool(r) = "type" /\ active \notin Meant(req[r]))
           did   == req[r].did \cup {Tool(r)}
           base  == IF req[r].base = "same" THEN "changed" ELSE req[r].base
           sent  == [req[r] EXCEPT !.pc = "post", !.did = did, !.stray = wrong]
           seen  == [sent EXCEPT !.pre = FALSE, !.base = base, !.effect = TRUE]
<1>1. Serving(r) /\ req[r].pc = "act"
  BY DEF Perform, Serving
<1>2. GoodRequest(req[r], active) /\ req[r] \in RequestRecord /\ req[r].job \in Jobs /\ req[r].todo \in Rests(req[r].job)
  BY <1>1, ServedFacts
<1>3. DesktopTypes'
  <2>1. req[r].target \in Windows
    BY <1>1, ServedFacts
  <2>2. active' \in Windows \cup {None}
    BY <2>1 DEF Perform, DesktopInv, DesktopTypes
  <2>3. QED
    BY <2>2 DEF Perform, DesktopInv, DesktopTypes
<1>4. Tool(r) \in Input /\ Tool(r) = Head(req[r].todo) /\ req[r].record = "running"
  BY <1>1, <1>2 DEF GoodRequest, Planned, Tool
<1>5. did \in SUBSET Tools /\ wrong \in BOOLEAN /\ base \in {"none", "same", "changed"}
  BY <1>2, <1>4 DEF RequestRecord, Tools
<1>6. \/ req' = [req EXCEPT ![r] = sent]
      \/ req' = Changed(r, seen) /\ Tool(r) \notin {"move", "wait"}
  BY <1>2 DEF Perform, Seen, RequestRecord
<1> HIDE DEF wrong, did, base
<1>7. sent \in RequestRecord /\ seen \in RequestRecord
  BY <1>2, <1>5, ZenonT(60) DEF RequestRecord, States
<1>8. ASSUME NEW p \in {sent, seen}
      PROVE  /\ p \in RequestRecord
             /\ p.pc = "post" /\ p.result = req[r].result /\ p.target = req[r].target /\ p.job = req[r].job
             /\ p.todo = req[r].todo /\ p.record = "running" /\ p.did = did
             /\ p.confirmed = req[r].confirmed /\ p.stray = wrong
             /\ p.disturbed = req[r].disturbed
             /\ req[r].pre => p.pre \/ p.effect
  <2>1. CASE p = sent
    BY <1>2, <1>4, <1>7, <2>1 DEF RequestRecord
  <2>2. CASE p = seen
    BY <1>2, <1>4, <1>7, <2>2 DEF RequestRecord
  <2>3. QED
    BY <1>8, <2>1, <2>2
<1>9. /\ ~req[r].confirmed => req[r].job # "fill"
      /\ ~req[r].confirmed /\ req[r].job # "task" => req[r].did = {} /\ Tool(r) \notin NeedsWord
      /\ ~req[r].confirmed /\ req[r].job = "task" => req[r].did \cap NeedsWord \subseteq {"type"}
  BY <1>1, <1>2, <1>4 DEF GoodRequest, Permitted
<1>10. req[r].job = "task" => Tool(r) \in {"hotkey", "type", "press_key", "wait"}
  BY <1>2, <1>4, RestFacts DEF TaskTools, Input
<1>11. req[r].job = "fill" => Tool(r) \in {"click", "type"}
  BY <1>2, <1>4, RestFacts
<1>12. ASSUME NEW p \in {sent, seen}
       PROVE  GoodRequest(p, active')
  <2> HIDE DEF sent, seen
  <2>1. Planned(p)
    BY <1>1, <1>2, <1>4, <1>8 DEF Planned, GoodRequest, did
  <2>2. Permitted(p)
    <3>1. p.result = "none"
      BY <1>1, <1>8, ServedFacts
    <3>2. ~p.confirmed => p.did \cap NeedsWord \subseteq IF p.job = "task" THEN {"type"} ELSE {}
      BY <1>8, <1>9, <1>10 DEF did, NeedsWord, Consequential
    <3>3. QED
      BY <1>8, <1>9, <3>1, <3>2 DEF Permitted
  <2>3. Focused(p, active')
    <3>1. SUFFICES ASSUME p.job \in {"fill", "task"}, ~req[r].disturbed
                   PROVE  ~wrong /\ active' \in Meant(req[r])
      BY <1>8 DEF Focused, Meant
    <3>2. ~req[r].stray /\ req[r].pre
      BY <1>1, <1>2, <1>8, <3>1 DEF GoodRequest, Focused, Evidenced
    <3>3. CASE Tool(r) = "click"
      <4>1. req[r].job = "fill"
        BY <1>8, <1>10, <3>1, <3>3
      <4>2. QED
        BY <3>2, <3>3, <4>1 DEF Perform, Pointer, Meant, wrong
    <3>4. CASE Tool(r) # "click"
      <4>1. Tool(r) \notin Pointer \ {"move"}
        BY <1>8, <1>10, <1>11, <3>1, <3>4 DEF Pointer
      <4>2. active' = active
        BY <4>1 DEF Perform
      <4>3. active \in Meant(req[r])
        BY <1>1, <1>2, <1>4, <1>8, <1>10, <1>11, <3>1, <3>4 DEF GoodRequest, Focused, Meant
      <4>4. QED
        BY <3>2, <4>2, <4>3 DEF wrong
    <3>5. QED
      BY <3>3, <3>4
  <2>4. Evidenced(p)
    BY <1>1, <1>2, <1>4, <1>8 DEF Evidenced, GoodRequest, did
  <2>5. QED
    BY <1>8, <2>1, <2>2, <2>3, <2>4 DEF GoodRequest
<1>13. QED
  <2> HIDE DEF sent, seen
  <2>1. CASE req' = [req EXCEPT ![r] = sent]
    BY <1>1, <1>3, <1>8, <1>12, <2>1, OwnStepKeeps
  <2>2. CASE req' = Changed(r, seen)
    BY <1>1, <1>3, <1>8, <1>12, <2>2, ChangingStepKeeps
  <2>3. QED
    BY <1>6, <2>1, <2>2

\* A step of r that completes its call.
LEMMA CompletingKeeps ==
  ASSUME DesktopInv, NEW r \in Requests, req[r].pc \in {"tool", "post", "sent"},
         NEW p \in RequestRecord, req' = [req EXCEPT ![r] = p], active' = active, DesktopTypes',
         p.pc = Completed(r).pc, p.todo = Completed(r).todo, p.result = Completed(r).result,
         p.job = req[r].job, p.confirmed = req[r].confirmed, p.target = req[r].target,
         p.did = req[r].did, p.stray = req[r].stray, p.effect = req[r].effect, p.disturbed = req[r].disturbed,
         req[r].job = "fill" => req[r].pc = "post",
         req[r].job = "task" /\ ~req[r].disturbed =>
           Tool(r) = "launch_application" \/ active \in Answers[req[r].target],
         p.record = "completed" /\ ~p.disturbed /\ p.did \cap (Input \ {"move", "wait"}) # {}
           => p.effect \/ "wait" \in p.did
  PROVE  DesktopInv'
<1>1. Serving(r)
  BY DEF Serving
<1>2. /\ GoodRequest(req[r], active) /\ req[r] \in RequestRecord
      /\ req[r].job \in Jobs /\ req[r].todo \in Rests(req[r].job)
  BY <1>1, ServedFacts
<1>3. /\ ~req[r].confirmed => req[r].job # "fill"
      /\ req[r].job \in {"fill", "task"} /\ ~req[r].disturbed => ~req[r].stray
      /\ req[r].job = "fill" /\ ~req[r].disturbed => active = req[r].target
  BY <1>2 DEF GoodRequest, Permitted, Focused
<1>4. Evidenced(p)
  <2>1. p.pc \in {"idle", "call", "tool"}
    BY <1>2, CompletedFields
  <2>2. p.pc # "idle" => Head(p.todo) # "move"
    <3>1. p.todo = Tail(req[r].todo) /\ (p.pc = "idle" <=> Tail(req[r].todo) = <<>>)
      BY <1>2, CompletedFields
    <3>2. p.pc # "idle" => p.todo \in Rests(req[r].job) /\ req[r].job \in {"task", "fill"}
      BY <1>2, <3>1, RestFacts
    <3>3. p.pc # "idle" => Head(p.todo) \in TaskTools \cup {"click", "type"}
      BY <1>2, <3>2, RestFacts
    <3>4. QED
      BY <3>3 DEF TaskTools
  <2>3. QED
    BY <2>1, <2>2 DEF Evidenced
<1>5. GoodRequest(p, active)
  BY <1>2, <1>3, <1>4, CompletedIsGood DEF GoodRequest
<1>6. QED
  BY <1>1, <1>5, OwnStepKeeps

\* What was sent is compared with the screen.
LEMMA VerifyKeeps ==
  ASSUME DesktopInv, NEW r \in Requests, Verify(r)
  PROVE  DesktopInv'
<1>1. Serving(r) /\ req[r].pc = "post" /\ active' = active /\ DesktopTypes'
  BY DEF Verify, Serving, DesktopInv, DesktopTypes, desktop
<1>2. /\ GoodRequest(req[r], active) /\ req[r] \in RequestRecord
      /\ req[r].job \in Jobs /\ req[r].todo \in Rests(req[r].job)
  BY <1>1, ServedFacts
<1>3. PICK v \in Verified(r) :
        req' = [req EXCEPT ![r] =
                  IF req[r].job = "fill" /\ Tool(r) = "click" /\ ~v
                  THEN [Finish(r, "failed") EXCEPT !.record = "unverified"]
                  ELSE [Completed(r) EXCEPT !.record = IF v THEN "completed" ELSE "unverified",
                                            !.verified = @ /\ v, !.pre = FALSE]]
  BY DEF Verify
<1>4. v \in BOOLEAN
  BY <1>2, <1>3 DEF Verified, RequestRecord
<1>5. CASE req[r].job = "fill" /\ Tool(r) = "click" /\ ~v
  BY <1>1, <1>3, <1>5, EndingKeeps DEF Results
<1>6. CASE ~(req[r].job = "fill" /\ Tool(r) = "click" /\ ~v)
  <2> DEFINE c      == Completed(r)
             record == IF v THEN "completed" ELSE "unverified"
             good   == c.verified /\ v
             p      == [c EXCEPT !.record = record, !.verified = good, !.pre = FALSE]
  <2>1. c \in RequestRecord
    BY <1>2, CompletedFields
  <2>2. req' = [req EXCEPT ![r] = p]
    BY <1>3, <1>6, <2>1 DEF RequestRecord
  <2>3. /\ c.job = req[r].job /\ c.confirmed = req[r].confirmed /\ c.target = req[r].target
        /\ c.did = req[r].did /\ c.stray = req[r].stray /\ c.effect = req[r].effect
        /\ c.disturbed = req[r].disturbed
    BY <1>2, CompletedFields
  <2>4. record \in {"completed", "unverified"} /\ good \in BOOLEAN
    BY <1>4, <2>1 DEF RequestRecord
  <2> HIDE DEF c, record, good
  <2>5. p \in RequestRecord
    BY <2>1, <2>4 DEF RequestRecord
  <2>6. /\ p.pc = c.pc /\ p.todo = c.todo /\ p.result = c.result /\ p.record = record
        /\ p.job = c.job /\ p.confirmed = c.confirmed /\ p.target = c.target
        /\ p.did = c.did /\ p.stray = c.stray /\ p.effect = c.effect /\ p.disturbed = c.disturbed
    BY <2>1 DEF RequestRecord
  <2> HIDE DEF p
  <2>7. Tool(r) \in Input /\ Tool(r) \in req[r].did /\ Tool(r) = Head(req[r].todo)
    BY <1>1, <1>2 DEF GoodRequest, Planned, Tool
  <2>8. req[r].job = "task" /\ ~req[r].disturbed => active \in Answers[req[r].target]
    <3>1. Tool(r) \notin {"launch_application", "focus_window"}
      BY <2>7 DEF Input
    <3>2. QED
      BY <1>1, <1>2, <2>7, <3>1 DEF GoodRequest, Focused
  <2>9. p.record = "completed" /\ ~p.disturbed /\ p.did \cap (Input \ {"move", "wait"}) # {}
          => p.effect \/ "wait" \in p.did
    <3>1. SUFFICES ASSUME v, ~req[r].disturbed, req[r].did \cap (Input \ {"move", "wait"}) # {},
                          Tool(r) # "wait"
                   PROVE  req[r].effect
      BY <2>3, <2>6, <2>7, <1>4 DEF record
    <3>2. Tool(r) # "move"
      BY <1>1, <1>2, <2>7, <3>1 DEF GoodRequest, Evidenced
    <3>3. ~req[r].pre
      BY <1>3, <3>1, <3>2 DEF Verified
    <3>4. QED
      BY <1>1, <1>2, <3>1, <3>3 DEF GoodRequest, Evidenced
  <2>10. /\ p.pc = Completed(r).pc /\ p.todo = Completed(r).todo /\ p.result = Completed(r).result
    BY <2>6 DEF c
  <2>11. QED
    BY <1>1, <2>2, <2>3, <2>5, <2>6, <2>8, <2>9, <2>10, CompletingKeeps
<1>7. QED
  BY <1>5, <1>6

\* An observation of a request, whatever is kept of it.
LEMMA ObservingKeeps ==
  ASSUME DesktopInv, NEW r \in Requests, req[r].pc = "tool", Tool(r) = "observe",
         NEW p, req' = [req EXCEPT ![r] = p], active' = active, DesktopTypes',
         \/ p = Completed(r)
         \/ p = [Completed(r) EXCEPT !.base = "same"]
         \/ p = [Completed(r) EXCEPT !.row = "failed"]
  PROVE  DesktopInv'
<1> DEFINE c == Completed(r)
<1>1. /\ GoodRequest(req[r], active) /\ req[r] \in RequestRecord
      /\ req[r].job \in Jobs /\ req[r].todo \in Rests(req[r].job)
  BY ServedFacts DEF Serving
<1>2. /\ c \in RequestRecord
      /\ c.job = req[r].job /\ c.confirmed = req[r].confirmed /\ c.target = req[r].target
      /\ c.did = req[r].did /\ c.stray = req[r].stray /\ c.effect = req[r].effect
      /\ c.disturbed = req[r].disturbed /\ c.record = req[r].record
  BY <1>1, CompletedFields
<1> HIDE DEF c
<1>3. \/ p = c
      \/ p = [c EXCEPT !.base = "same"]
      \/ p = [c EXCEPT !.row = "failed"]
  BY DEF c
<1>4. /\ p \in RequestRecord
      /\ p.pc = c.pc /\ p.todo = c.todo /\ p.result = c.result /\ p.record = c.record
      /\ p.job = c.job /\ p.confirmed = c.confirmed /\ p.target = c.target
      /\ p.did = c.did /\ p.stray = c.stray /\ p.effect = c.effect /\ p.disturbed = c.disturbed
  BY <1>2, <1>3 DEF RequestRecord
<1>5. req[r].job # "fill"
  BY <1>1, RestFacts DEF Tool
<1>6. req[r].job = "task" /\ ~req[r].disturbed => active \in Answers[req[r].target]
  BY <1>1 DEF GoodRequest, Focused, Tool
<1>7. p.record = "completed" /\ ~p.disturbed /\ p.did \cap (Input \ {"move", "wait"}) # {}
        => p.effect \/ "wait" \in p.did
  BY <1>1, <1>2, <1>4 DEF GoodRequest, Evidenced
<1>8. p.pc = Completed(r).pc /\ p.todo = Completed(r).todo /\ p.result = Completed(r).result
  BY <1>4 DEF c
<1>9. QED
  BY <1>2, <1>4, <1>5, <1>6, <1>7, <1>8, CompletingKeeps

LEMMA ObserveKeeps ==
  ASSUME DesktopInv, NEW r \in Requests, Observe(r)
  PROVE  DesktopInv'
<1>1. /\ Serving(r) /\ req[r].pc = "tool" /\ Tool(r) = "observe" /\ active' = active /\ DesktopTypes'
  BY DEF Observe, Serving, DesktopInv, DesktopTypes, desktop
<1>2. CASE req' = [req EXCEPT ![r] = [Finish(r, "failed") EXCEPT !.row = "completed"]]
  BY <1>1, <1>2, EndingKeeps DEF Results
<1>3. CASE \/ req' = [req EXCEPT ![r] = Completed(r)]
           \/ req' = [req EXCEPT ![r] = [Completed(r) EXCEPT !.base = "same"]]
  BY <1>1, <1>3, ObservingKeeps
<1>4. QED
  BY <1>2, <1>3 DEF Observe

LEMMA ObserveNothingKeeps ==
  ASSUME DesktopInv, NEW r \in Requests, ObserveNothing(r)
  PROVE  DesktopInv'
<1>1. /\ Serving(r) /\ req[r].pc = "tool" /\ Tool(r) = "observe" /\ active' = active /\ DesktopTypes'
  BY DEF ObserveNothing, Serving, DesktopInv, DesktopTypes, desktop
<1>2. QED
  BY <1>1, ObservingKeeps DEF ObserveNothing

\* A call goes to the system.
LEMMA SentKeeps ==
  ASSUME DesktopInv, NEW r \in Requests, NEW w \in Windows, Sent(r, w),
         req[r].pc = "tool", Tool(r) \in System, req[r].job = "task" => w = req[r].target,
         Tool(r) = "close_window" => req[r].confirmed, DesktopTypes'
  PROVE  DesktopInv'
<1> DEFINE did  == req[r].did \cup {Tool(r)}
           base == IF req[r].base = "same" THEN "changed" ELSE req[r].base
           sent == [req[r] EXCEPT !.pc = "sent", !.did = did, !.target = w]
           seen == [sent EXCEPT !.pre = FALSE, !.base = base, !.effect = TRUE]
<1>1. Serving(r)
  BY DEF Serving
<1>2. /\ GoodRequest(req[r], active) /\ req[r] \in RequestRecord
      /\ req[r].job \in Jobs /\ req[r].todo \in Rests(req[r].job) /\ req[r].result = "none"
  BY <1>1, ServedFacts
<1>3. did \in SUBSET Tools /\ base \in {"none", "same", "changed"}
  BY <1>2 DEF RequestRecord, Tools
<1>4. \/ req' = [req EXCEPT ![r] = sent] /\ active' = active
      \/ req' = Changed(r, seen)
  BY <1>2 DEF Sent, Seen, RequestRecord, desktop
<1>5. /\ req[r].job # "fill"
      /\ req[r].job = "task" => Tool(r) \in {"launch_application", "focus_window"}
  BY <1>2, RestFacts DEF Tool, System, TaskTools
<1> HIDE DEF did, base
<1>6. sent \in RequestRecord /\ seen \in RequestRecord
  BY <1>2, <1>3, ZenonT(60) DEF RequestRecord, States
<1>7. ASSUME NEW p \in {sent, seen}
      PROVE  /\ p \in RequestRecord
             /\ p.pc = "sent" /\ p.result = "none" /\ p.target = w /\ p.job = req[r].job
             /\ p.todo = req[r].todo /\ p.record = req[r].record /\ p.did = did
             /\ p.confirmed = req[r].confirmed /\ p.stray = req[r].stray
             /\ p.disturbed = req[r].disturbed
             /\ req[r].effect => p.effect
  <2>1. CASE p = sent
    BY <1>2, <1>6, <2>1 DEF RequestRecord
  <2>2. CASE p = seen
    BY <1>2, <1>6, <2>2 DEF RequestRecord
  <2>3. QED
    BY <1>7, <2>1, <2>2
<1>8. ASSUME NEW p \in {sent, seen}
      PROVE  GoodRequest(p, active')
  <2> HIDE DEF sent, seen
  <2>1. Planned(p)
    BY <1>1, <1>2, <1>7 DEF Planned, GoodRequest, did, Tool, Serving
  <2>2. Permitted(p)
    <3>1. ~p.confirmed => p.did \cap NeedsWord \subseteq IF p.job = "task" THEN {"type"} ELSE {}
      BY <1>2, <1>7 DEF GoodRequest, Permitted, did, NeedsWord, Consequential, System
    <3>2. QED
      BY <1>5, <1>7, <3>1 DEF Permitted
  <2>3. Focused(p, active')
    BY <1>2, <1>5, <1>7 DEF GoodRequest, Focused, Tool
  <2>4. Evidenced(p)
    <3>1. p.did \cap (Input \ {"move", "wait"}) = req[r].did \cap (Input \ {"move", "wait"})
      BY <1>7 DEF did, Input, System
    <3>2. "wait" \in req[r].did => "wait" \in p.did
      BY <1>7 DEF did
    <3>3. Head(p.todo) # "move"
      BY <1>7 DEF Tool, System
    <3>4. QED
      BY <1>2, <1>7, <3>1, <3>2, <3>3 DEF GoodRequest, Evidenced
  <2>5. QED
    BY <1>7, <2>1, <2>2, <2>3, <2>4 DEF GoodRequest
<1>9. QED
  <2> HIDE DEF sent, seen
  <2>1. CASE req' = [req EXCEPT ![r] = sent]
    BY <1>1, <1>7, <1>8, <2>1, OwnStepKeeps
  <2>2. CASE req' = Changed(r, seen)
    BY <1>1, <1>7, <1>8, <2>2, ChangingStepKeeps
  <2>3. QED
    BY <1>4, <2>1, <2>2

LEMMA LaunchKeeps ==
  ASSUME DesktopInv, NEW r \in Requests, Launch(r)
  PROVE  DesktopInv'
<1>1. req[r].target \in Windows
  BY ServedFacts DEF Launch, Serving
<1>2. DesktopTypes'
  BY <1>1 DEF Launch, Fronted, DesktopInv, DesktopTypes, desktop
<1>3. QED
  BY <1>1, <1>2, SentKeeps DEF Launch, System

LEMMA OpenPathKeeps ==
  ASSUME DesktopInv, NEW r \in Requests, OpenPath(r)
  PROVE  DesktopInv'
<1>1. req[r].target \in Windows
  BY ServedFacts DEF OpenPath, Serving
<1>2. DesktopTypes'
  BY <1>1 DEF OpenPath, Fronted, DesktopInv, DesktopTypes, desktop
<1>3. QED
  BY <1>1, <1>2, SentKeeps DEF OpenPath, System

LEMMA FocusKeeps ==
  ASSUME DesktopInv, NEW r \in Requests, Focus(r)
  PROVE  DesktopInv'
<1>1. req[r].target \in Windows
  BY ServedFacts DEF Focus, Serving
<1>2. Listed(req[r].target) \subseteq Windows
  BY DEF Listed, DesktopInv, DesktopTypes
<1>3. DesktopTypes'
  BY <1>2 DEF Focus, Fronted, DesktopInv, DesktopTypes, desktop
<1>4. QED
  BY <1>1, <1>3, SentKeeps DEF Focus, System

LEMMA ControlKeeps ==
  ASSUME DesktopInv, NEW r \in Requests, Control(r)
  PROVE  DesktopInv'
<1>1. Listed(req[r].target) \cup ({active} \ {None}) \subseteq Windows
  BY DEF Listed, DesktopInv, DesktopTypes
<1>2. PICK w \in Windows :
        /\ \/ UNCHANGED desktop
           \/ /\ shown' = IF Tool(r) = "close_window" THEN shown \ {w} ELSE shown
              /\ active' = IF active = w THEN None ELSE active
        /\ Sent(r, w)
  BY <1>1 DEF Control
<1>3. DesktopTypes'
  <2>1. shown' \subseteq Windows /\ active' \in Windows \cup {None}
    BY <1>2 DEF DesktopInv, DesktopTypes, desktop
  <2>2. QED
    BY <2>1 DEF Control, DesktopInv, DesktopTypes
<1>4. /\ Tool(r) \in {"close_window", "minimize_window", "maximize_window", "restore_window"}
      /\ req[r].pc = "tool"
      /\ Tool(r) = "close_window" => req[r].confirmed
  BY DEF Control
<1>5. req[r].job # "task"
  <2>1. req[r].job \in Jobs /\ req[r].todo \in Rests(req[r].job)
    BY <1>4, ServedFacts DEF Serving
  <2>2. QED
    BY <1>4, <2>1, RestFacts DEF Tool, TaskTools
<1>6. QED
  BY <1>2, <1>3, <1>4, <1>5, SentKeeps DEF System

\* The system is looked at after a call.
LEMMA CheckKeeps ==
  ASSUME DesktopInv, NEW r \in Requests, Check(r)
  PROVE  DesktopInv'
<1> DEFINE c == Completed(r)
<1>1. /\ Serving(r) /\ req[r].pc = "sent" /\ active' = active
  BY DEF Check, Serving, desktop
<1>2. DesktopTypes'
  BY DEF Check, Touched, DesktopInv, DesktopTypes, desktop
<1>3. /\ GoodRequest(req[r], active) /\ req[r] \in RequestRecord
      /\ req[r].job \in Jobs /\ req[r].todo \in Rests(req[r].job) /\ req[r].target \in Windows
      /\ req[r].result = "none"
  BY <1>1, ServedFacts
<1>4. PICK v \in Evident(r) :
        req' = [req EXCEPT ![r] =
                  IF v THEN Launched(r) ELSE [Finish(r, "failed") EXCEPT !.row = "completed"]]
  BY DEF Check
<1>5. Tool(r) \in System /\ Tool(r) = Head(req[r].todo)
  BY <1>1, <1>3 DEF GoodRequest, Planned, Tool
<1>6. /\ req[r].job # "fill"
      /\ req[r].job = "task" => Tool(r) \in {"launch_application", "focus_window"}
  BY <1>3, <1>5, RestFacts DEF System, TaskTools
<1>7. /\ c \in RequestRecord
      /\ c.job = req[r].job /\ c.confirmed = req[r].confirmed /\ c.target = req[r].target
      /\ c.did = req[r].did /\ c.stray = req[r].stray /\ c.effect = req[r].effect
      /\ c.disturbed = req[r].disturbed /\ c.record = req[r].record
  BY <1>3, CompletedFields
<1>8. CASE ~v
  BY <1>1, <1>2, <1>4, <1>8, EndingKeeps DEF Results
<1>9. CASE v /\ Launched(r) = c
  <2>1. req[r].job = "task" /\ ~req[r].disturbed => Tool(r) = "launch_application" \/ active \in Answers[req[r].target]
    BY <1>4, <1>6, <1>9 DEF Evident
  <2>2. c.record = "completed" /\ ~c.disturbed /\ c.did \cap (Input \ {"move", "wait"}) # {}
          => c.effect \/ "wait" \in c.did
    BY <1>3, <1>7 DEF GoodRequest, Evidenced
  <2>3. req' = [req EXCEPT ![r] = c]
    BY <1>4, <1>9
  <2>4. QED
    BY <1>1, <1>2, <1>6, <1>7, <2>1, <2>2, <2>3, CompletingKeeps
<1>10. CASE v /\ Launched(r) # c
  <2> DEFINE rest == Tail(Tail(req[r].todo))
             p    == [c EXCEPT !.todo = rest]
  <2>1. /\ req[r].job = "task" /\ Tool(r) = "launch_application" /\ active \in Answers[req[r].target]
        /\ req[r].todo \in TaskRests
    BY <1>3, <1>10 DEF Launched, Rests
  <2>2. /\ Tail(req[r].todo) # <<>> /\ rest \in TaskRests
    BY <1>5, <2>1, TaskFacts
  <2>3. /\ c.todo = Tail(req[r].todo) /\ c.pc \in {"call", "tool"} /\ c.pc # "tool" /\ c.result = "none"
    BY <1>3, <2>1, <2>2, CompletedFields
  <2>4. req' = [req EXCEPT ![r] = p]
    BY <1>4, <1>10, <2>1, <2>3 DEF Launched
  <2>5. rest \in Seq(Tools \cup {"screen"}) /\ Head(rest) \in TaskTools
    BY <1>3, <2>1, <2>2, RestFacts DEF Rests
  <2> HIDE DEF c, rest
  <2>6. /\ p \in RequestRecord /\ p.pc = "call" /\ p.todo = rest /\ p.result = "none"
        /\ p.job = "task" /\ p.confirmed = req[r].confirmed /\ p.target = req[r].target
        /\ p.did = req[r].did /\ p.stray = req[r].stray /\ p.effect = req[r].effect
        /\ p.disturbed = req[r].disturbed /\ p.record = req[r].record
    BY <1>7, <2>1, <2>3, <2>5 DEF RequestRecord
  <2> HIDE DEF p
  <2>7. Planned(p)
    BY <1>3, <2>2, <2>6 DEF Planned, Rests
  <2>8. Permitted(p)
    BY <1>3, <2>1, <2>6 DEF GoodRequest, Permitted
  <2>9. Focused(p, active')
    BY <1>1, <1>3, <2>1, <2>6 DEF GoodRequest, Focused
  <2>10. Evidenced(p)
    BY <1>3, <2>5, <2>6 DEF GoodRequest, Evidenced, TaskTools
  <2>11. QED
    BY <1>1, <1>2, <2>4, <2>6, <2>7, <2>8, <2>9, <2>10, OwnStepKeeps DEF GoodRequest
<1>11. QED
  BY <1>8, <1>9, <1>10
-----------------------------------------------------------------------------
(* New requests, the person, and the whole system *)

LEMMA NewIsGood ==
  ASSUME NEW job \in Jobs, NEW w \in Windows, NEW yes \in BOOLEAN, NEW a
  PROVE  GoodRequest(New(job, w, yes), a) /\ New(job, w, yes).disturbed = FALSE
<1> DEFINE plan == PlanOf(job)
           p == [Idle EXCEPT !.pc = "call", !.job = job, !.todo = plan, !.target = w, !.confirmed = yes]
<1>1. /\ plan \in Rests(job) /\ plan \in Seq(Tools \cup {"screen"})
      /\ job = "task" => Head(plan) = "launch_application"
      /\ job = "fill" => Head(plan) = "click"
  BY PlanIsARest, RestFacts
<1>2. New(job, w, yes) = p
  BY DEF New
<1> HIDE DEF plan
<1>3. p \in RequestRecord
  BY <1>1, IdleIsARequest DEF RequestRecord, States
<1>4. /\ p.pc = "call" /\ p.job = job /\ p.todo = plan /\ p.target = w /\ p.confirmed = yes
      /\ p.result = "none" /\ p.did = {} /\ p.stray = FALSE /\ p.record = "none" /\ p.disturbed = FALSE
  BY DEF Idle
<1> HIDE DEF p
<1>5. Planned(p)
  BY <1>1, <1>4 DEF Planned, Jobs, Tools, Input, System
<1>6. Permitted(p)
  BY <1>4 DEF Permitted
<1>7. Focused(p, a)
  BY <1>1, <1>4 DEF Focused
<1>8. Evidenced(p)
  BY <1>4 DEF Evidenced
<1>9. QED
  BY <1>2, <1>3, <1>4, <1>5, <1>6, <1>7, <1>8 DEF GoodRequest

LEMMA PromptKeeps ==
  ASSUME DesktopInv, NEW r \in Requests, Prompt(r)
  PROVE  DesktopInv'
<1>1. PICK job \in Asked, w \in Windows :
        /\ Begin(r, IF job = "fill" THEN [New(job, w, FALSE) EXCEPT !.result = "approval", !.pc = "idle"]
                    ELSE New(job, w, FALSE))
        /\ pending' = IF job = "fill" THEN pending \cup {job} ELSE pending
        /\ session' = Current(job)
  BY DEF Prompt
<1>2. job \in Jobs
  BY ConstantAssumption
<1>3. ~Serving(r) /\ active' = active /\ DesktopTypes'
  BY <1>1 DEF Prompt, DesktopInv, DesktopTypes, desktop, Current, Approvable
<1> DEFINE n == New(job, w, FALSE)
           p == [n EXCEPT !.result = "approval", !.pc = "idle"]
<1>4. GoodRequest(n, active) /\ n.disturbed = FALSE
  BY <1>2, NewIsGood
<1>5. n.did = {} /\ n.job = job /\ n.stray = FALSE /\ n.record = "none"
  BY DEF New, Idle
<1> HIDE DEF n
<1>6. GoodRequest(p, active) /\ p.disturbed = FALSE
  <2>1. p \in RequestRecord
    BY <1>4, ZenonT(60) DEF GoodRequest, RequestRecord, States, Results
  <2>2. /\ p.pc = "idle" /\ p.did = {} /\ p.stray = FALSE /\ p.record = "none" /\ p.disturbed = FALSE
    BY <1>4, <1>5 DEF GoodRequest, RequestRecord
  <2> HIDE DEF p
  <2>3. QED
    BY <2>1, <2>2 DEF GoodRequest, Planned, Permitted, Focused, Evidenced
<1> HIDE DEF p
<1>7. Begin(r, p) \/ Begin(r, n)
  BY <1>1 DEF p, n
<1>8. QED
  BY <1>3, <1>4, <1>6, <1>7, BeginKeeps

LEMMA ApproveKeeps ==
  ASSUME DesktopInv, NEW r \in Requests, Approve(r)
  PROVE  DesktopInv'
<1>1. PICK job \in pending, w \in Windows :
        /\ Begin(r, New(job, w, TRUE))
        /\ pending' \in {pending, pending \ {job}}
        /\ session' = Current(job)
  BY DEF Approve
<1>2. job \in Jobs
  BY DEF DesktopInv, DesktopTypes, Approvable, Consequential, Jobs, Tools, Input
<1>3. ~Serving(r) /\ active' = active /\ DesktopTypes'
  BY <1>1 DEF Approve, DesktopInv, DesktopTypes, desktop, Current
<1>4. QED
  BY <1>1, <1>2, <1>3, NewIsGood, BeginKeeps

LEMMA CallApiKeeps ==
  ASSUME DesktopInv, NEW r \in Requests, CallApi(r)
  PROVE  DesktopInv'
<1>1. PICK job \in Asked \ {"task", "screen"}, w \in Windows, yes \in BOOLEAN : Begin(r, New(job, w, yes))
  BY DEF CallApi
<1>2. job \in Jobs
  BY ConstantAssumption
<1>3. ~Serving(r) /\ active' = active /\ DesktopTypes'
  BY DEF CallApi, DesktopInv, DesktopTypes, desktop
<1>4. QED
  BY <1>1, <1>2, <1>3, NewIsGood, BeginKeeps

LEMMA PersonKeeps ==
  ASSUME DesktopInv, Person
  PROVE  DesktopInv'
<1>1. DesktopTypes'
  BY DEF Person, DesktopInv, DesktopTypes
<1>2. req \in [Requests -> RequestRecord]
  BY DEF DesktopInv, RequestsGood
<1>3. ASSUME NEW q \in Requests
      PROVE  /\ GoodRequest(req'[q], active')
             /\ req'[q].pc = req[q].pc
             /\ req[q].pc # "idle" => req'[q].disturbed
  <2>1. GoodRequest(req[q], active)
    BY DEF DesktopInv, RequestsGood
  <2>2. CASE req[q].pc = "idle"
    <3>1. req'[q] = req[q]
      BY <2>2 DEF Person, Serving
    <3>2. QED
      BY <2>1, <2>2, <3>1, OthersAreGood
  <2>3. CASE req[q].pc # "idle"
    <3>1. req'[q] = Past(req[q])
      BY <1>2, <2>3 DEF Person, Serving, Past, RequestRecord
    <3>2. QED
      BY <2>1, <2>3, <3>1, PastIsGood
  <2>4. QED
    BY <2>2, <2>3
<1>4. Aware'
  BY <1>3 DEF Aware, Serving
<1>5. RequestsGood'
  <2>1. \A q \in Requests : req'[q] \in RequestRecord
    BY <1>3 DEF GoodRequest
  <2>2. req' = [q \in Requests |-> req'[q]]
    BY DEF Person
  <2>3. QED
    BY <1>3, <2>1, <2>2 DEF RequestsGood
<1>6. QED
  BY <1>1, <1>4, <1>5 DEF DesktopInv

LEMMA InitIsGood ==
  ASSUME Init
  PROVE  DesktopInv
<1>1. GoodRequest(Idle, active)
  BY IdleIsARequest DEF GoodRequest, Planned, Permitted, Focused, Evidenced, Idle
<1>2. DesktopTypes
  BY DEF Init, DesktopTypes
<1>3. Aware
  BY DEF Init, Aware, Serving, Idle
<1>4. RequestsGood
  BY <1>1 DEF Init, RequestsGood, GoodRequest
<1>5. QED
  BY <1>2, <1>3, <1>4 DEF DesktopInv

LEMMA DesktopStep ==
  ASSUME DesktopInv, [Next]_vars
  PROVE  DesktopInv'
<1>1. CASE UNCHANGED vars
  BY <1>1 DEF vars, desktop, DesktopInv, DesktopTypes, Aware, Serving, RequestsGood
<1>2. CASE Person
  BY <1>2, PersonKeeps
<1>3. CASE EndSession \/ NewSession
  BY <1>3 DEF EndSession, NewSession, desktop, DesktopInv, DesktopTypes, Aware, Serving, RequestsGood
<1>4. ASSUME NEW r \in Requests, Prompt(r) \/ Approve(r) \/ CallApi(r)
      PROVE  DesktopInv'
  BY <1>4, PromptKeeps, ApproveKeeps, CallApiKeeps
<1>5. ASSUME NEW r \in Requests, Serve(r)
      PROVE  DesktopInv'
  BY <1>5, RefusedKeeps, ExecuteKeeps, FailKeeps, PrepareKeeps, BlockedKeeps, PerformKeeps, VerifyKeeps,
     ObserveKeeps, ObserveNothingKeeps, AnswerScreenKeeps, CloseUnconfirmedKeeps, LaunchKeeps,
     OpenPathKeeps, FocusKeeps, ControlKeeps, CheckKeeps DEF Serve
<1>6. QED
  BY <1>1, <1>2, <1>3, <1>4, <1>5 DEF Next

LEMMA DesktopIsGood == Spec => []DesktopInv
<1>1. Init => DesktopInv
  BY InitIsGood
<1>2. DesktopInv /\ [Next]_vars => DesktopInv'
  BY DesktopStep
<1>3. QED
  BY <1>1, <1>2, PTL DEF Spec

-----------------------------------------------------------------------------
(* The theorems *)

\* What needs the user's word is done with it or not at all, and a request that was put off for
\* it has touched nothing: ComputerActionService.execute asks before it focuses and sends.
THEOREM ApprovalIsAskedFirst == Spec => []ApprovalComesFirst
<1>1. DesktopInv => ApprovalComesFirst
  BY DEF DesktopInv, RequestsGood, GoodRequest, Permitted, ApprovalComesFirst, NeedsWord
<1>2. QED
  BY <1>1, DesktopIsGood, PTL

\* While nobody else uses the desktop, text for a control goes to no other window, and text for an
\* application to none that does not answer to its name: the click, the launch and the explicit
\* focus bring such a window to the front.
THEOREM TextIsNotStray == Spec => []TextStaysInTarget
<1>1. DesktopInv => TextStaysInTarget
  BY DEF DesktopInv, RequestsGood, GoodRequest, Focused, TextStaysInTarget
<1>2. QED
  BY <1>1, DesktopIsGood, PTL

\* An action is recorded as completed on the evidence of a screen that it changed itself, while
\* nobody else uses the desktop: observe, act, observe and compare.
THEOREM CompletedHadAnEffect == Spec => []EvidenceIsTrue
<1>1. DesktopInv => EvidenceIsTrue
  BY DEF DesktopInv, RequestsGood, GoodRequest, Evidenced, EvidenceIsTrue
<1>2. QED
  BY <1>1, DesktopIsGood, PTL
=============================================================================
