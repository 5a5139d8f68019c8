------------------------ MODULE BrowserSessionProofs ------------------------
(***************************************************************************)
(* Theorems about BrowserSession, for any number of calls, operations and  *)
(* backends, for any pages and anything that can be asked, and for any     *)
(* bounds.                                                                 *)
(*                                                                         *)
(* A step of a call writes the record of that call; CallStepKeeps says     *)
(* what the record must be like, and what may happen to the backend, the   *)
(* browsers and the media, for the invariant to be kept.                   *)
(***************************************************************************)
EXTENDS BrowserSession, TLAPS

CallStates == {"idle", "waiting", "observe", "act", "compare", "sample", "done"}

\* A call that uses no backend.
Resting == {"idle", "done"}

SearchBox(page) == Nth(SelectSeq(page.shown, IsSearch), 0)

\* What browser.search turns into: typing into the page's search box, or going to a page.
SearchAsks ==
  {[NoAsk EXCEPT !.act = "type", !.target = [by |-> "id", element |-> SearchBox(p)]] :
     p \in {p \in Pages : SearchBox(p) # NoElement}}
    \cup {[NoAsk EXCEPT !.act = "open", !.url = a.url] : a \in Asks}

AllAsks == Asks \cup {NoAsk} \cup SearchAsks

AllAnswers ==
  {"none", "ok", "failed", "boundary", "approval", "cancelled"} \cup {p.gate : p \in Pages}

CallRecord ==
  [pc : CallStates, ask : AllAsks, ref : Backends \cup {None}, pre : Pages, did : BOOLEAN,
   rash : BOOLEAN, record : {"none", "running", "completed", "failed"}, answer : AllAnswers,
   left : Nat, runs : Nat]

-----------------------------------------------------------------------------
(* What the policy examines and what the browser resolves *)

\* An element that was observed and is named by its identity is the element examined; so are
\* results and buttons named by their position.
LEMMA IdentityIsExamined ==
  ASSUME NEW shown, NEW target,
         \/ target.by = "id" /\ target.element \in Elements(shown)
         \/ target.by = "kind" /\ target.kind \in {"result", "button"}
  PROVE  Examined(shown, target) = Resolved(shown, target)
<1>1. CASE target.by = "id" /\ target.element \in Elements(shown)
  BY <1>1 DEF Examined, Resolved
<1>2. CASE target.by = "kind" /\ target.kind = "result"
  BY <1>2 DEF Examined, Resolved, Candidates
<1>3. CASE target.by = "kind" /\ target.kind = "button"
  BY <1>3 DEF Examined, Resolved, Candidates
<1>4. QED
  BY <1>1, <1>2, <1>3

\* A request to click on a control named by a label that is consequential asks.
LEMMA ExaminedAgrees ==
  ASSUME NEW page, NEW ask, ~ask.confirmed, ask.act \in {"click", "type"},
         NEW e, e = Examined(page.shown, ask.target), e # NoElement, Sensitive(e.label)
  PROVE  NeedsApproval(page.shown, ask)
  BY DEF NeedsApproval

-----------------------------------------------------------------------------
(* The invariant *)

\* An action is only sent when the policy, for the page that was observed, did not ask.
Approved(page, ask) == ask.act \in {"click", "type"} => ~NeedsApproval(page.shown, ask)

GoodCall(q) ==
  /\ q \in CallRecord
  /\ q.pc \notin Resting => q.ref \in Backends /\ q.answer = "none"
  /\ q.pc = "act" => Approved(q.pre, q.ask)

SharedTypes ==
  /\ active \in BOOLEAN
  /\ made \in 0 .. MaxBackends
  /\ backend \in (1 .. made) \cup {None}
  /\ browser \in [Backends -> Pages \cup {None}]
  /\ moved \subseteq Live
  /\ lock \in Calls \cup {None}
  /\ closing \in Backends \cup {None}
  /\ closed \in Nat

CallsInv == call \in [Calls -> CallRecord] /\ \A c \in Calls : GoodCall(call[c])

SessionInv == SharedTypes /\ CallsInv /\ MediaIsRestored

-----------------------------------------------------------------------------
(* Steps of a call *)

\* What a step of call c, which leaves it the record q, may do to what is shared.
LEMMA CallStepKeeps ==
  ASSUME CallAssumption, SessionInv, NEW c \in Calls, NEW q,
         GoodCall(q), call' = [call EXCEPT ![c] = q],
         UNCHANGED table \/ (backend = None /\ backend' \in 1 .. made' /\ made' \in 0 .. MaxBackends),
         browser' \in [Backends -> Pages \cup {None}],
         moved' \subseteq Live',
         \A b \in moved' : \/ q.pc = "sample" /\ q.ref = b
                           \/ b \in moved /\ ~(call[c].pc = "sample" /\ call[c].ref = b),
         lock' \in Calls \cup {None},
         UNCHANGED <<active, closing, closed>>
  PROVE  SessionInv'
<1>1. /\ call' \in [Calls -> CallRecord]
      /\ call'[c] = q
      /\ \A d \in Calls \ {c} : call'[d] = call[d]
  BY DEF SessionInv, CallsInv, GoodCall
<1>2. SharedTypes'
  BY DEF SessionInv, SharedTypes, table
<1>3. CallsInv'
  BY <1>1 DEF SessionInv, CallsInv, GoodCall
<1>5. MediaIsRestored'
  <2>1. ASSUME NEW b \in moved' PROVE \E d \in Calls : call'[d].pc = "sample" /\ call'[d].ref = b
    <3>1. CASE q.pc = "sample" /\ q.ref = b
      BY <1>1, <3>1
    <3>2. CASE b \in moved /\ ~(call[c].pc = "sample" /\ call[c].ref = b)
      <4>1. PICK d \in Calls : call[d].pc = "sample" /\ call[d].ref = b
        BY <3>2 DEF SessionInv, MediaIsRestored, Acting
      <4>2. d # c
        BY <3>2, <4>1
      <4>3. QED
        BY <1>1, <4>1, <4>2
    <3>3. QED
      BY <2>1, <3>1, <3>2
  <2>2. QED
    BY <2>1 DEF MediaIsRestored, Acting
<1>6. QED
  BY <1>2, <1>3, <1>5 DEF SessionInv

LEMMA IdleIsGood ==
  ASSUME CallAssumption
  PROVE  GoodCall(Idle)
<1>1. NoAsk \in AllAsks /\ Blank \in Pages
  BY DEF AllAsks, CallAssumption
<1>2. Idle \in CallRecord
  BY <1>1 DEF Idle, CallRecord, CallStates, AllAnswers
<1>3. QED
  BY <1>2 DEF GoodCall, Idle, Resting

\* The call is over.
LEMMA OverIsGood ==
  ASSUME CallAssumption, NEW q, GoodCall(q), NEW answer \in AllAnswers
  PROVE  GoodCall(Over(q, answer)) /\ Over(q, answer).pc = "done" /\ Over(q, answer).answer = answer
<1> DEFINE record == IF q.record # "running" THEN q.record
                     ELSE IF answer = "ok" THEN "completed" ELSE "failed"
           did == q.did
           rash == q.rash
           runs == q.runs
           o == Over(q, answer)
<1>1. Idle \in CallRecord
  BY IdleIsGood DEF GoodCall
<1>2. o = [Idle EXCEPT !.pc = "done", !.answer = answer, !.did = did, !.rash = rash,
                       !.runs = runs, !.record = record]
  BY DEF Over
<1>3. record \in {"none", "completed", "failed"} /\ did \in BOOLEAN /\ rash \in BOOLEAN /\ runs \in Nat
  BY DEF GoodCall, CallRecord
<1> HIDE DEF record, did, rash, runs, o
<1>5. o \in CallRecord /\ o.pc = "done" /\ o.answer = answer /\ o.rash = rash
  BY <1>1, <1>2, <1>3 DEF CallRecord, CallStates
<1>6. QED
  BY <1>5 DEF GoodCall, Resting, o

\* The page a backend shows when it is used.
LEMMA ShownIsAPage ==
  ASSUME CallAssumption, SessionInv, NEW b \in Backends
  PROVE  Shown(b) \in Pages
  BY DEF Shown, SessionInv, SharedTypes, CallAssumption

LEMMA MadeIsGood ==
  ASSUME CallAssumption, SessionInv, NEW b \in Backends, Made(b)
  PROVE  /\ UNCHANGED table \/ (backend = None /\ backend' \in 1 .. made' /\ made' \in 0 .. MaxBackends)
         /\ backend' = b
  BY DEF Made, table, SessionInv, SharedTypes, CallAssumption

\* Reading the page may start the browser; nothing else happens to browsers and media.
LEMMA ReadsIsGood ==
  ASSUME CallAssumption, SessionInv, NEW b \in Backends, Reads(b), moved' = moved
  PROVE  browser' \in [Backends -> Pages \cup {None}] /\ moved' \subseteq Live' /\ browser'[b] = Shown(b)
<1>1. Shown(b) \in Pages /\ Shown(b) # None
  BY ShownIsAPage DEF CallAssumption
<1>2. QED
  BY <1>1 DEF Reads, SessionInv, SharedTypes, Live

\* A call is answered after it read a page, or found no browser.
LEMMA AnsweredKeeps ==
  ASSUME CallAssumption, SessionInv, NEW c \in Calls, NEW answer \in AllAnswers, Answered(c, answer),
         call[c].pc # "sample",
         UNCHANGED table \/ \E b \in Backends : Made(b),
         UNCHANGED browser \/ \E b \in Backends : Reads(b),
         UNCHANGED <<active, moved, closing, closed>>
  PROVE  SessionInv'
<1> DEFINE q == Over(call[c], answer)
<1>1. GoodCall(q) /\ q.pc = "done"
  BY OverIsGood DEF SessionInv, CallsInv
<1>2. call' = [call EXCEPT ![c] = q]
  BY DEF Answered
<1>3. lock' \in Calls \cup {None}
  BY DEF Answered, SessionInv, SharedTypes
<1>4. browser' \in [Backends -> Pages \cup {None}] /\ moved' \subseteq Live'
  BY ReadsIsGood DEF SessionInv, SharedTypes, Live
<1>5. UNCHANGED table \/ (backend = None /\ backend' \in 1 .. made' /\ made' \in 0 .. MaxBackends)
  BY MadeIsGood
<1>6. \A b \in moved' : b \in moved
  OBVIOUS
<1> HIDE DEF q
<1>7. QED
  BY <1>1, <1>2, <1>3, <1>4, <1>5, <1>6, CallStepKeeps DEF Resting

\* After a page was looked at the call goes on as q, with the backend it had or the one looked at.
LEMMA LookedKeeps ==
  ASSUME CallAssumption, SessionInv, NEW c \in Calls, call[c].pc \notin Resting \cup {"sample"},
         NEW b \in Backends, Look(b),
         NEW q, GoodCall(q), call' = [call EXCEPT ![c] = q], q.ref \in {call[c].ref, b},
         UNCHANGED lock
  PROVE  SessionInv'
<1>1. browser' \in [Backends -> Pages \cup {None}] /\ moved' \subseteq Live'
  BY ReadsIsGood DEF Look
<1>2. UNCHANGED table \/ (backend = None /\ backend' \in 1 .. made' /\ made' \in 0 .. MaxBackends)
  BY MadeIsGood DEF Look
<1>4. \A m \in moved' : m \in moved /\ call[c].pc # "sample"
  BY DEF Look
<1>5. lock' \in Calls \cup {None} /\ UNCHANGED <<active, closing, closed>>
  BY DEF Look, SessionInv, SharedTypes
<1>6. QED
  BY <1>1, <1>2, <1>4, <1>5, CallStepKeeps

LEMMA LookAnsweredKeeps ==
  ASSUME CallAssumption, SessionInv, NEW c \in Calls, call[c].pc # "sample",
         NEW b \in Backends, Look(b), NEW answer \in AllAnswers, Answered(c, answer)
  PROVE  SessionInv'
  BY AnsweredKeeps DEF Look

LEMMA GatesAreAnswers ==
  ASSUME CallAssumption, SessionInv, NEW b \in Backends
  PROVE  Shown(b).gate \in AllAnswers
  BY ShownIsAPage DEF AllAnswers

LEMMA LookFailsKeeps ==
  ASSUME CallAssumption, SessionInv, NEW c \in Calls, LookFails(c)
  PROVE  SessionInv'
<1>1. PICK b \in Backends :
        /\ Made(b)
        /\ \/ Unavailable(c, b)
           \/ Reads(b) /\ Answered(c, "boundary")
  BY DEF LookFails
<1>2. call[c].pc # "sample" /\ UNCHANGED <<active, moved, closing, closed>>
  BY DEF LookFails
<1>3. {"failed", "boundary"} \subseteq AllAnswers
  BY DEF AllAnswers
<1>4. CASE Unavailable(c, b)
  BY <1>1, <1>2, <1>3, <1>4, AnsweredKeeps DEF Unavailable
<1>5. CASE Reads(b) /\ Answered(c, "boundary")
  BY <1>1, <1>2, <1>3, <1>5, AnsweredKeeps
<1>6. QED
  BY <1>1, <1>4, <1>5

LEMMA ObserveKeeps ==
  ASSUME CallAssumption, SessionInv, NEW c \in Calls, Observe(c)
  PROVE  SessionInv'
<1>1. PICK b \in Backends : Look(b) /\ Decide(c, b)
  BY DEF Observe
<1>2. call[c].pc = "observe" /\ GoodCall(call[c])
  BY DEF Observe, Looking, SessionInv, CallsInv
<1>3. {"ok", "approval"} \subseteq AllAnswers
  BY DEF AllAnswers
<1> DEFINE page == Shown(b)
           q == [call[c] EXCEPT !.pc = "act", !.pre = page, !.record = "running"]
<1>4. CASE \E answer \in AllAnswers : Answered(c, answer)
  BY <1>1, <1>2, <1>4, LookAnsweredKeeps
<1>5. CASE /\ ~NeedsApproval(page.shown, call[c].ask)
           /\ call' = [call EXCEPT ![c].pc = "act", ![c].pre = page, ![c].record = "running"]
           /\ UNCHANGED lock
  <2>1. call' = [call EXCEPT ![c] = q]
    BY <1>5 DEF SessionInv, CallsInv
  <2>2. page \in Pages
    BY ShownIsAPage
  <2> HIDE DEF page
  <2>3. /\ q \in CallRecord /\ q.pc = "act" /\ q.pre = page /\ q.ask = call[c].ask /\ q.ref = call[c].ref
        /\ q.answer = call[c].answer /\ q.rash = call[c].rash
    BY <1>2, <2>2 DEF GoodCall, CallRecord, CallStates
  <2> HIDE DEF q
  <2>4. GoodCall(q)
    BY <1>2, <1>5, <2>3 DEF GoodCall, Approved, Resting
  <2>5. QED
    BY <1>1, <1>2, <1>5, <2>1, <2>3, <2>4, LookedKeeps DEF Resting
<1>6. QED
  BY <1>1, <1>3, <1>4, <1>5, GatesAreAnswers DEF Decide

LEMMA SearchKeeps ==
  ASSUME CallAssumption, SessionInv, NEW c \in Calls, Search(c)
  PROVE  SessionInv'
<1>1. PICK b \in Backends : Look(b) /\ Searched(c, b)
  BY DEF Search
<1>2. call[c].pc = "observe" /\ call[c].ask.act = "search" /\ GoodCall(call[c])
  BY DEF Search, Looking, SessionInv, CallsInv
<1>3. call[c].ask \in Asks
  <2>1. call[c].ask \in AllAsks
    BY <1>2 DEF GoodCall, CallRecord
  <2>2. \A ask \in SearchAsks : ask.act \in {"type", "open"}
    BY DEF SearchAsks, NoAsk
  <2>3. NoAsk.act = "find"
    BY DEF NoAsk
  <2>4. QED
    BY <1>2, <2>1, <2>2, <2>3 DEF AllAsks
<1>4. Shown(b) \in Pages
  BY ShownIsAPage
<1>5. PICK ask \in AllAsks : call' = [call EXCEPT ![c].ask = ask] /\ UNCHANGED lock
  BY <1>1, <1>3, <1>4 DEF Searched, AllAsks, SearchAsks, SearchBox
<1> DEFINE q == [call[c] EXCEPT !.ask = ask]
<1>6. call' = [call EXCEPT ![c] = q]
  BY <1>5 DEF SessionInv, CallsInv
<1>7. /\ q \in CallRecord /\ q.pc = "observe" /\ q.ref = call[c].ref
      /\ q.answer = call[c].answer /\ q.rash = call[c].rash
  BY <1>2 DEF GoodCall, CallRecord
<1> HIDE DEF q
<1>8. GoodCall(q)
  BY <1>2, <1>7 DEF GoodCall, Resting
<1>9. QED
  BY <1>1, <1>2, <1>5, <1>6, <1>7, <1>8, LookedKeeps DEF Resting

LEMMA ScrollUntilKeeps ==
  ASSUME CallAssumption, SessionInv, NEW c \in Calls, ScrollUntil(c)
  PROVE  SessionInv'
<1>1. PICK b \in Backends : Look(b) /\ Sought(c, b)
  BY DEF ScrollUntil
<1>2. call[c].pc = "observe" /\ call[c].ask.act = "scroll_until" /\ GoodCall(call[c])
  BY DEF ScrollUntil, Looking, SessionInv, CallsInv
<1>3. {"ok", "failed"} \subseteq AllAnswers
  BY DEF AllAnswers
<1> DEFINE page == Shown(b)
           left == call[c].left - 1
           q == [call[c] EXCEPT !.pc = "act", !.pre = page, !.left = left, !.record = "running"]
<1>4. CASE \E answer \in AllAnswers : Answered(c, answer)
  BY <1>1, <1>2, <1>4, LookAnsweredKeeps
<1>5. CASE /\ call[c].left # 0
           /\ call' = [call EXCEPT ![c].pc = "act", ![c].pre = page, ![c].left = @ - 1,
                                   ![c].record = "running"]
           /\ UNCHANGED lock
  <2>1. call' = [call EXCEPT ![c] = q]
    BY <1>5 DEF SessionInv, CallsInv
  <2>2. page \in Pages /\ left \in Nat
    BY <1>2, <1>5, ShownIsAPage DEF GoodCall, CallRecord
  <2> HIDE DEF page, left
  <2>3. /\ q \in CallRecord /\ q.pc = "act" /\ q.ask = call[c].ask /\ q.ref = call[c].ref
        /\ q.answer = call[c].answer /\ q.rash = call[c].rash
    BY <1>2, <2>2 DEF GoodCall, CallRecord, CallStates
  <2> HIDE DEF q
  <2>4. GoodCall(q)
    BY <1>2, <2>3 DEF GoodCall, Approved, Resting
  <2>5. QED
    BY <1>1, <1>2, <1>5, <2>1, <2>3, <2>4, LookedKeeps DEF Resting
<1>6. QED
  BY <1>1, <1>3, <1>4, <1>5, GatesAreAnswers DEF Sought

LEMMA AnalyseKeeps ==
  ASSUME CallAssumption, SessionInv, NEW c \in Calls, Analyse(c)
  PROVE  SessionInv'
<1>1. PICK b \in Backends : Look(b) /\ Found(c, b)
  BY DEF Analyse
<1>2. call[c].pc = "observe" /\ GoodCall(call[c])
  BY DEF Analyse, Looking, SessionInv, CallsInv
<1>3. "failed" \in AllAnswers
  BY DEF AllAnswers
<1> DEFINE q == [call[c] EXCEPT !.pc = "sample", !.ref = b]
<1>4. CASE Answered(c, "failed")
  BY <1>1, <1>2, <1>3, <1>4, LookAnsweredKeeps
<1>5. CASE call' = [call EXCEPT ![c].pc = "sample", ![c].ref = b] /\ UNCHANGED lock
  <2>1. call' = [call EXCEPT ![c] = q]
    BY <1>5 DEF SessionInv, CallsInv
  <2>2. /\ q \in CallRecord /\ q.pc = "sample" /\ q.ref = b
        /\ q.answer = call[c].answer /\ q.rash = call[c].rash
    BY <1>2 DEF GoodCall, CallRecord, CallStates
  <2> HIDE DEF q
  <2>3. GoodCall(q)
    BY <1>2, <2>2 DEF GoodCall, Resting
  <2>4. QED
    BY <1>1, <1>2, <1>5, <2>1, <2>2, <2>3, LookedKeeps DEF Resting
<1>6. QED
  BY <1>1, <1>4, <1>5 DEF Found

LEMMA CompareKeeps ==
  ASSUME CallAssumption, SessionInv, NEW c \in Calls, Compare(c)
  PROVE  SessionInv'
<1>1. PICK b \in Backends : Look(b) /\ Judged(c, b)
  BY DEF Compare
<1>2. call[c].pc = "compare" /\ GoodCall(call[c])
  BY DEF Compare, Looking, SessionInv, CallsInv
<1>3. {"ok", "failed"} \subseteq AllAnswers
  BY DEF AllAnswers
<1> DEFINE q == [call[c] EXCEPT !.pc = "observe", !.record = "completed", !.did = FALSE]
<1>4. CASE \E answer \in {"ok", "failed"} : Answered(c, answer)
  BY <1>1, <1>2, <1>3, <1>4, LookAnsweredKeeps
<1>5. CASE /\ call' = [call EXCEPT ![c].pc = "observe", ![c].record = "completed", ![c].did = FALSE]
           /\ UNCHANGED lock
  <2>1. call' = [call EXCEPT ![c] = q]
    BY <1>5 DEF SessionInv, CallsInv
  <2>2. /\ q \in CallRecord /\ q.pc = "observe" /\ q.ref = call[c].ref
        /\ q.answer = call[c].answer /\ q.rash = call[c].rash
    BY <1>2 DEF GoodCall, CallRecord, CallStates
  <2> HIDE DEF q
  <2>3. GoodCall(q)
    BY <1>2, <2>2 DEF GoodCall, Resting
  <2>4. QED
    BY <1>1, <1>2, <1>5, <2>1, <2>2, <2>3, LookedKeeps DEF Resting
<1>6. QED
  BY <1>1, <1>4, <1>5 DEF Judged

LEMMA SamplingKeeps ==
  ASSUME CallAssumption, SessionInv, NEW c \in Calls, Sample(c) \/ Restore(c)
  PROVE  SessionInv'
<1>1. /\ call[c].pc = "sample" /\ GoodCall(call[c]) /\ call[c].ref \in Backends
      /\ UNCHANGED <<active, table, browser, closing, closed>>
  BY DEF Sample, Restore, SessionInv, CallsInv, GoodCall, Resting
<1>2. browser' \in [Backends -> Pages \cup {None}]
  BY <1>1 DEF SessionInv, SharedTypes
<1>3. CASE Sample(c)
  <2> DEFINE left == call[c].left - 1
             q == [call[c] EXCEPT !.left = left]
  <2>1. call' = [call EXCEPT ![c] = q] /\ left \in Nat /\ UNCHANGED lock
    BY <1>1, <1>3 DEF Sample, SessionInv, CallsInv, GoodCall, CallRecord
  <2> HIDE DEF left
  <2>2. /\ q \in CallRecord /\ q.pc = "sample" /\ q.ref = call[c].ref
        /\ q.answer = call[c].answer /\ q.rash = call[c].rash
    BY <1>1, <2>1 DEF GoodCall, CallRecord
  <2> HIDE DEF q
  <2>3. GoodCall(q)
    BY <1>1, <2>2 DEF GoodCall, Resting
  <2>4. moved' \subseteq Live' /\ \A b \in moved' : b \in moved \/ b = call[c].ref
    BY <1>1, <1>3 DEF Sample, Live, SessionInv, SharedTypes
  <2>6. lock' \in Calls \cup {None} /\ UNCHANGED <<active, table, closing, closed>>
    BY <1>1, <2>1 DEF SessionInv, SharedTypes
  <2>7. \A b \in moved' : \/ q.pc = "sample" /\ q.ref = b
                          \/ b \in moved /\ ~(call[c].pc = "sample" /\ call[c].ref = b)
    BY <2>2, <2>4
  <2>8. moved' \subseteq Live'
    BY <2>4
  <2>9. QED
    BY <1>1, <1>2, <2>1, <2>3, <2>6, <2>7, <2>8, CallStepKeeps
<1>4. CASE Restore(c)
  <2>1. PICK answer \in {"ok", "cancelled", "failed"} : Answered(c, answer)
    BY <1>4 DEF Restore
  <2> DEFINE q == Over(call[c], answer)
  <2>2. answer \in AllAnswers
    BY DEF AllAnswers
  <2>3. GoodCall(q) /\ q.pc = "done"
    BY <1>1, <2>2, OverIsGood
  <2>4. call' = [call EXCEPT ![c] = q] /\ lock' \in Calls \cup {None}
    BY <2>1 DEF Answered, SessionInv, SharedTypes
  <2>5. moved' \subseteq Live' /\ \A b \in moved' : b \in moved /\ b # call[c].ref
    BY <1>1, <1>4 DEF Restore, Live, SessionInv, SharedTypes
  <2> HIDE DEF q
  <2>6. QED
    BY <1>1, <1>2, <2>3, <2>4, <2>5, CallStepKeeps DEF Resting
<1>5. QED
  BY <1>3, <1>4

\* What may be acted on: what the target names, or an element that was observed.
LEMMA ChosenWasSeen ==
  ASSUME NEW pre, NEW page, NEW target, NEW e \in Chosen(pre, page, target)
  PROVE  e = Resolved(pre.shown, target) \/ e \in Elements(pre.shown)
  BY DEF Chosen

\* A consequential element that is acted on without confirmation is the one the request
\* resolves to, and the policy examined another: one the vision model picked is examined by
\* its identity.
LEMMA RashWasNamed ==
  ASSUME SessionInv, NEW c \in Calls, call[c].pc = "act",
         NEW page, NEW e \in Chosen(call[c].pre, page, call[c].ask.target),
         e = Resolved(call[c].pre.shown, call[c].ask.target) \/ Reapproved(c, e),
         Rash(call[c].ask, e)
  PROVE  /\ e = Resolved(call[c].pre.shown, call[c].ask.target)
         /\ Examined(call[c].pre.shown, call[c].ask.target) # e
<1> DEFINE ask == call[c].ask
           pre == call[c].pre
<1>1. ask \in AllAsks /\ pre \in Pages /\ Approved(pre, ask)
  BY DEF SessionInv, CallsInv, GoodCall, CallRecord
<1>3. e # NoElement /\ ask.act \in {"click", "type"} /\ ~ask.confirmed /\ Sensitive(e.label)
  BY DEF Rash
<1>4. CASE e = Resolved(pre.shown, ask.target)
  <2>1. ~NeedsApproval(pre.shown, ask)
    BY <1>1, <1>3 DEF Approved
  <2>2. QED
    BY <1>3, <1>4, <2>1, ExaminedAgrees
<1>5. CASE e # Resolved(pre.shown, ask.target) /\ Reapproved(c, e)
  <2> DEFINE named == [ask EXCEPT !.target = [by |-> "id", element |-> e]]
  <2>1. e \in Elements(pre.shown)
    BY <1>5, ChosenWasSeen
  <2>2. named.target.by = "id" /\ named.target.element = e /\ named.act = ask.act /\ named.confirmed = ask.confirmed
    BY <1>1
  <2>3. QED
    BY <1>3, <1>5, <2>1, <2>2 DEF Reapproved, NeedsApproval, Examined
<1>6. QED
  BY <1>4, <1>5

LEMMA PerformKeeps ==
  ASSUME CallAssumption, SessionInv, NEW c \in Calls, Perform(c)
  PROVE  SessionInv'
<1> DEFINE b    == call[c].ref
           page == Shown(b)
           ask  == call[c].ask
<1>1. call[c].pc = "act" /\ GoodCall(call[c]) /\ b \in Backends
  BY DEF Perform, SessionInv, CallsInv, GoodCall, Resting
<1>2. UNCHANGED <<active, table, moved, closing, closed>>
  BY DEF Perform
<1>3. {"failed", "approval"} \subseteq AllAnswers
  BY DEF AllAnswers
<1>4. CASE \E answer \in {"failed", "approval"} :
             Answered(c, answer) /\ (UNCHANGED browser \/ Reads(b))
  BY <1>1, <1>2, <1>3, <1>4, AnsweredKeeps
<1>5. ASSUME NEW e, call' = [call EXCEPT ![c].pc = "compare", ![c].did = TRUE, ![c].rash = @ \/ Rash(ask, e)],
             \E p \in After(ask, page) : browser' = [browser EXCEPT ![b] = p],
             UNCHANGED lock
      PROVE  SessionInv'
  <2> DEFINE rash == call[c].rash \/ Rash(ask, e)
             q    == [call[c] EXCEPT !.pc = "compare", !.did = TRUE, !.rash = rash]
  <2>1. call' = [call EXCEPT ![c] = q]
    BY <1>5 DEF SessionInv, CallsInv
  <2>2. rash \in BOOLEAN
    BY <1>1, <1>5 DEF GoodCall, Rash
  <2> HIDE DEF rash
  <2>3. /\ q \in CallRecord /\ q.pc = "compare" /\ q.ref = b
        /\ q.answer = call[c].answer /\ q.rash = rash
    BY <1>1, <2>2 DEF GoodCall, CallRecord, CallStates
  <2> HIDE DEF q
  <2>4. GoodCall(q)
    BY <1>1, <2>2, <2>3 DEF GoodCall, Resting
  <2>5. After(ask, page) \subseteq Pages
    BY <1>1, ShownIsAPage DEF After
  <2>6. browser' \in [Backends -> Pages \cup {None}] /\ moved' \subseteq Live'
    BY <1>1, <1>2, <1>5, <2>5 DEF SessionInv, SharedTypes, Live, CallAssumption
  <2>8. lock' \in Calls \cup {None} /\ \A m \in moved' : m \in moved /\ call[c].pc # "sample"
    BY <1>1, <1>2, <1>5 DEF SessionInv, SharedTypes
  <2>9. QED
    BY <1>2, <2>1, <2>4, <2>6, <2>8, CallStepKeeps
<1>6. CASE \E e \in Chosen(call[c].pre, page, ask.target) :
             IF e # Resolved(call[c].pre.shown, ask.target) /\ ~Reapproved(c, e)
             THEN Reads(b) /\ Answered(c, "approval")
             ELSE /\ call' = [call EXCEPT ![c].pc = "compare", ![c].did = TRUE, ![c].rash = @ \/ Rash(ask, e)]
                  /\ \E p \in After(ask, page) : browser' = [browser EXCEPT ![b] = p]
                  /\ UNCHANGED lock
  <2>1. PICK e \in Chosen(call[c].pre, page, ask.target) :
             IF e # Resolved(call[c].pre.shown, ask.target) /\ ~Reapproved(c, e)
             THEN Reads(b) /\ Answered(c, "approval")
             ELSE /\ call' = [call EXCEPT ![c].pc = "compare", ![c].did = TRUE, ![c].rash = @ \/ Rash(ask, e)]
                  /\ \E p \in After(ask, page) : browser' = [browser EXCEPT ![b] = p]
                  /\ UNCHANGED lock
    BY <1>6
  <2>2. CASE e # Resolved(call[c].pre.shown, ask.target) /\ ~Reapproved(c, e)
    BY <1>4, <2>1, <2>2
  <2>3. CASE e = Resolved(call[c].pre.shown, ask.target) \/ Reapproved(c, e)
    BY <1>5, <2>1, <2>3
  <2>4. QED
    BY <2>2, <2>3
<1>7. CASE ask.act \in {"open", "scroll_until"}
           /\ call' = [call EXCEPT ![c].pc = "compare", ![c].did = TRUE, ![c].rash = @ \/ Rash(ask, NoElement)]
           /\ \E p \in After(ask, page) : browser' = [browser EXCEPT ![b] = p]
           /\ UNCHANGED lock
  BY <1>5, <1>7
<1>8. QED
  BY <1>4, <1>6, <1>7 DEF Perform, Unavailable

-----------------------------------------------------------------------------
(* Arriving, waiting, the end of a run, and what is not a call *)

\* A call that was idle or over takes a request and the backend.
LEMMA RequestKeeps ==
  ASSUME CallAssumption, SessionInv, NEW c \in Calls, call[c].pc \in Resting,
         NEW b \in Backends, Made(b),
         NEW q \in CallRecord, q.pc \in {"waiting", "observe"}, q.ref = b, q.answer = "none",
         call' = [call EXCEPT ![c] = q], UNCHANGED <<active, browser, moved, lock, closing, closed>>
  PROVE  SessionInv'
<1>1. GoodCall(q)
  BY DEF GoodCall
<1>2. browser' \in [Backends -> Pages \cup {None}] /\ moved' \subseteq Live' /\ lock' \in Calls \cup {None}
  BY DEF SessionInv, SharedTypes, Live
<1>3. /\ UNCHANGED table \/ (backend = None /\ backend' \in 1 .. made' /\ made' \in 0 .. MaxBackends)
      /\ q.ref = backend'
  BY MadeIsGood
<1>4. \A m \in moved' : m \in moved /\ call[c].pc # "sample"
  BY DEF Resting
<1>5. QED
  BY <1>1, <1>2, <1>3, <1>4, CallStepKeeps

LEMMA ArrivingKeeps ==
  ASSUME CallAssumption, SessionInv, NEW c \in Calls, Ask(c) \/ Continue(c)
  PROVE  SessionInv'
<1>1. Idle \in CallRecord /\ Idle.answer = "none" /\ Idle.rash = FALSE /\ Idle.runs = 0
  BY IdleIsGood DEF GoodCall, Idle
<1>2. Asks \subseteq AllAsks /\ MaxSamples \in Nat
  BY DEF AllAsks, CallAssumption
<1>3. call[c] \in CallRecord /\ call \in [Calls -> CallRecord]
  BY DEF SessionInv, CallsInv, GoodCall
<1>4. CASE Ask(c)
  <2> DEFINE runs == Idle.runs + 1
  <2>1. PICK ask \in Asks, b \in Backends :
          /\ Made(b)
          /\ call' = [call EXCEPT ![c] = [Idle EXCEPT !.pc = "waiting", !.ask = ask, !.ref = b,
                                                      !.left = MaxSamples, !.runs = runs]]
    BY <1>4 DEF Ask
  <2>2. runs \in Nat
    BY <1>1
  <2> HIDE DEF runs
  <2> DEFINE q == [Idle EXCEPT !.pc = "waiting", !.ask = ask, !.ref = b, !.left = MaxSamples, !.runs = runs]
  <2>3. /\ q.pc = "waiting" /\ q.ref = b /\ q.answer = "none"
        /\ q \in CallRecord
    BY <1>1, <1>2, <2>2 DEF CallRecord, CallStates
  <2>4. ~q.rash
    BY DEF Idle
  <2>5. call' = [call EXCEPT ![c] = q]
    BY <2>1
  <2>6. call[c].pc \in Resting /\ UNCHANGED <<active, browser, moved, lock, closing, closed>>
    BY <1>4 DEF Ask, Resting
  <2> HIDE DEF q
  <2>7. QED
    BY <2>1, <2>3, <2>4, <2>5, <2>6, RequestKeeps
<1>5. CASE Continue(c)
  <2> DEFINE rash == call[c].rash
             runs == call[c].runs + 1
  <2>1. PICK ask \in Asks, b \in Backends :
          /\ Made(b)
          /\ call' = [call EXCEPT ![c] = [Idle EXCEPT !.pc = "observe", !.ask = ask, !.ref = b, !.rash = rash,
                                                      !.left = MaxSamples, !.runs = runs]]
    BY <1>5 DEF Continue
  <2>2. rash \in BOOLEAN /\ runs \in Nat
    BY <1>3 DEF CallRecord
  <2> HIDE DEF rash, runs
  <2> DEFINE q == [Idle EXCEPT !.pc = "observe", !.ask = ask, !.ref = b, !.rash = rash,
                               !.left = MaxSamples, !.runs = runs]
  <2>3. q \in CallRecord /\ q.pc = "observe" /\ q.ref = b /\ q.answer = "none" /\ q.rash = rash
    BY <1>1, <1>2, <2>2 DEF CallRecord, CallStates
  <2>4. call' = [call EXCEPT ![c] = q]
    BY <2>1
  <2>5. call[c].pc \in Resting /\ UNCHANGED <<active, browser, moved, lock, closing, closed>>
    BY <1>5 DEF Continue, Resting
  <2> HIDE DEF q
  <2>6. QED
    BY <2>1, <2>2, <2>3, <2>4, <2>5, RequestKeeps, ZenonT(60)
<1>6. QED
  BY <1>4, <1>5

LEMMA LockingKeeps ==
  ASSUME CallAssumption, SessionInv, NEW c \in Calls, Lock(c)
  PROVE  SessionInv'
<1> DEFINE q == [call[c] EXCEPT !.pc = "observe"]
<1>1. /\ call[c].pc = "waiting" /\ GoodCall(call[c])
      /\ UNCHANGED <<active, table, browser, moved, closing, closed>>
  BY DEF Lock, SessionInv, CallsInv
<1>2. call' = [call EXCEPT ![c] = q]
  BY DEF Lock, Go, SessionInv, CallsInv
<1>3. /\ q \in CallRecord /\ q.pc = "observe" /\ q.ref = call[c].ref
      /\ q.answer = call[c].answer /\ q.rash = call[c].rash
  BY <1>1 DEF GoodCall, CallRecord, CallStates
<1> HIDE DEF q
<1>4. GoodCall(q)
  BY <1>1, <1>3 DEF GoodCall, Resting
<1>5. browser' \in [Backends -> Pages \cup {None}] /\ moved' \subseteq Live'
  BY <1>1 DEF SessionInv, SharedTypes, Live
<1>6. lock' \in Calls \cup {None} /\ \A m \in moved' : m \in moved /\ call[c].pc # "sample"
  BY <1>1 DEF Lock
<1>8. QED
  BY <1>1, <1>2, <1>4, <1>5, <1>6, CallStepKeeps

LEMMA OthersKeep ==
  ASSUME CallAssumption, SessionInv,
         \/ Close \/ Quit \/ Drift \/ UNCHANGED vars
         \/ \E c \in Calls : EndRun(c)
  PROVE  SessionInv'
<1>1. call' = call
  BY DEF Close, Quit, Drift, EndRun, vars
<1>2. CallsInv'
  BY <1>1 DEF SessionInv, CallsInv
<1>3. CASE Close
  <2>1. closed' # 0 /\ closed' \in Nat /\ moved' = moved
    BY <1>3 DEF Close, SessionInv, SharedTypes
  <2>2. closing' \in Backends \cup {None} /\ backend' = None
    BY <1>3 DEF Close, SessionInv, SharedTypes, Backends, CallAssumption
  <2>3. SharedTypes'
    <3>1. active' \in BOOLEAN
      <4>1. CASE backend = None
        BY <1>3, <4>1 DEF Close
      <4>2. CASE backend # None
        BY <1>3, <4>2 DEF Close, SessionInv, SharedTypes
      <4>3. QED
        BY <4>1, <4>2
    <3>2. QED
      BY <1>3, <2>1, <2>2, <3>1 DEF Close, SessionInv, SharedTypes, Live
  <2>4. MediaIsRestored'
    BY <1>1, <2>1 DEF SessionInv, MediaIsRestored, Acting
  <2>5. QED
    BY <1>2, <2>3, <2>4 DEF SessionInv
<1>4. CASE Quit
  <2>1. SharedTypes' /\ moved' \subseteq moved /\ UNCHANGED <<backend, closed>>
    BY <1>4 DEF Quit, SessionInv, SharedTypes, Live, table, CallAssumption
  <2>2. MediaIsRestored'
    BY <1>1, <2>1 DEF SessionInv, MediaIsRestored, Acting
  <2>3. QED
    BY <1>2, <2>1, <2>2 DEF SessionInv
<1>5. CASE Drift
  <2>1. SharedTypes' /\ moved' \subseteq moved /\ UNCHANGED <<backend, closed>>
    BY <1>5 DEF Drift, SessionInv, SharedTypes, Live, table, CallAssumption
  <2>2. MediaIsRestored'
    BY <1>1, <2>1 DEF SessionInv, MediaIsRestored, Acting
  <2>3. QED
    BY <1>2, <2>1, <2>2 DEF SessionInv
<1>6. CASE UNCHANGED vars \/ \E c \in Calls : EndRun(c)
  <2>1. UNCHANGED <<active, backend, made, browser, moved, closing, closed>> /\ lock' \in Calls \cup {None}
    BY <1>6 DEF EndRun, vars, table, SessionInv, SharedTypes
  <2>2. SharedTypes'
    BY <2>1 DEF SessionInv, SharedTypes, Live
  <2>3. MediaIsRestored'
    BY <1>1, <2>1 DEF SessionInv, MediaIsRestored, Acting
  <2>4. QED
    BY <1>2, <2>2, <2>3 DEF SessionInv
<1>7. QED
  BY <1>3, <1>4, <1>5, <1>6

LEMMA NextKeeps ==
  ASSUME CallAssumption, SessionInv, [Next]_vars
  PROVE  SessionInv'
  BY OthersKeep, ArrivingKeeps, LockingKeeps, LookFailsKeeps, ObserveKeeps, SearchKeeps,
     ScrollUntilKeeps, PerformKeeps, CompareKeeps, AnalyseKeeps, SamplingKeeps
     DEF Next, Serve

LEMMA InitIsGood ==
  ASSUME CallAssumption, Init
  PROVE  SessionInv
<1>1. GoodCall(Idle) /\ Idle.pc = "idle"
  BY IdleIsGood DEF Idle
<1>2. CallsInv
  BY <1>1 DEF Init, CallsInv, GoodCall, Resting
<1>3. SharedTypes /\ MediaIsRestored
  BY DEF Init, SharedTypes, Live, MediaIsRestored, CallAssumption
<1>4. QED
  BY <1>2, <1>3 DEF SessionInv

-----------------------------------------------------------------------------
(* Theorems *)

LEMMA SessionIsGood == Spec => []SessionInv
<1>1. Init => SessionInv
  BY InitIsGood, CallAssumption
<1>2. SessionInv /\ [Next]_vars => SessionInv'
  BY NextKeeps, CallAssumption
<1>3. QED
  BY <1>1, <1>2, PTL DEF Spec

\* The row, the backends, the lock and the calls keep their types, and only media of a browser
\* that runs is away from its position.
THEOREM TypeCorrect == Spec => []TypeOK
<1>1. SessionInv => TypeOK
  BY DEF SessionInv, SharedTypes, CallsInv, GoodCall, CallRecord, CallStates, TypeOK
<1>2. QED
  BY <1>1, SessionIsGood, PTL

\* Media is put back: whatever ends a sampling, what is away from the user's position is being
\* sampled by some call (MediaAnalysisService, the finally clause that seeks back).
THEOREM MediaIsPutBack == Spec => []MediaIsRestored
<1>1. SessionInv => MediaIsRestored
  BY DEF SessionInv
<1>2. QED
  BY <1>1, SessionIsGood, PTL

\* A step changes the record of one call.
LEMMA OneCallSteps ==
  ASSUME CallAssumption, SessionInv, Next, NEW c \in Calls, call'[c] # call[c]
  PROVE  Ask(c) \/ Continue(c) \/ Serve(c)
<1>1. PICK d \in Calls : Ask(d) \/ Continue(d) \/ Serve(d)
  BY DEF Next, Close, Quit, Drift
<1>2. call \in [Calls -> CallRecord]
  BY DEF SessionInv, CallsInv
<1>3. CASE d # c
  <2>1. ~(UNCHANGED call \/ \E q : call' = [call EXCEPT ![d] = q])
    BY <1>2, <1>3
  <2>2. ~\E answer : Answered(d, answer)
    BY <2>1 DEF Answered
  <2>3. ~(Ask(d) \/ Continue(d) \/ Lock(d) \/ EndRun(d) \/ Sample(d) \/ Restore(d))
    BY <2>1, <2>2 DEF Ask, Continue, Lock, Go, EndRun, Sample, Restore
  <2>4. ~(LookFails(d) \/ Observe(d) \/ Search(d) \/ ScrollUntil(d))
    BY <2>1, <2>2 DEF LookFails, Unavailable, Observe, Decide, Search, Searched, ScrollUntil, Sought
  <2>5. ~(Perform(d) \/ Compare(d) \/ Analyse(d))
    BY <2>1, <2>2 DEF Perform, Unavailable, Compare, Judged, Analyse, Found
  <2>6. QED
    BY <1>1, <2>3, <2>4, <2>5 DEF Serve
<1>4. QED
  BY <1>1, <1>3

\* A call that is over keeps what it did.
LEMMA OverKeepsRash ==
  ASSUME NEW q, NEW answer
  PROVE  Over(q, answer).rash = q.rash
<1> DEFINE record == IF q.record # "running" THEN q.record
                     ELSE IF answer = "ok" THEN "completed" ELSE "failed"
           did == q.did
           rash == q.rash
           runs == q.runs
<1>1. Over(q, answer) = [Idle EXCEPT !.pc = "done", !.answer = answer, !.did = did, !.rash = rash,
                                     !.runs = runs, !.record = record]
  BY DEF Over
<1> HIDE DEF record, did, rash, runs
<1>2. Over(q, answer).rash = rash
  BY <1>1 DEF Idle
<1>3. QED
  BY <1>2 DEF rash

\* What makes a call rash is the action on the element its target resolves to.
LEMMA RashSteps ==
  ASSUME CallAssumption, SessionInv, Next, NEW c \in Calls, ~call[c].rash, call'[c].rash
  PROVE  LET e == Resolved(call[c].pre.shown, call[c].ask.target)
         IN  /\ e # NoElement /\ Sensitive(e.label)
             /\ Examined(call[c].pre.shown, call[c].ask.target) # e
<1>1. call \in [Calls -> CallRecord] /\ GoodCall(call[c]) /\ call[c] \in CallRecord
  BY DEF SessionInv, CallsInv
<1>2. Ask(c) \/ Continue(c) \/ Serve(c)
  BY OneCallSteps
<1>3. ASSUME NEW answer, Answered(c, answer) PROVE FALSE
  <2>1. call'[c] = Over(call[c], answer)
    BY <1>1, <1>3 DEF Answered
  <2>2. QED
    BY <2>1, OverKeepsRash
<1>4. ~\E answer : Answered(c, answer)
  BY <1>3
<1>5. ASSUME NEW pc, Go(c, pc) PROVE FALSE
  BY <1>1, <1>5 DEF Go, CallRecord
<1>6. ~(Lock(c) \/ EndRun(c) \/ Restore(c) \/ LookFails(c))
  BY <1>4, <1>5 DEF Lock, EndRun, Restore, LookFails, Unavailable
<1>7. ~(Ask(c) \/ Continue(c))
  <2>1. ~Ask(c)
    BY <1>1 DEF Ask, Idle
  <2>2. ~Continue(c)
    <3>1. SUFFICES ASSUME Continue(c) PROVE FALSE
      OBVIOUS
    <3> DEFINE rash == call[c].rash
               runs == call[c].runs + 1
    <3>2. PICK ask \in Asks, b \in Backends :
            call' = [call EXCEPT ![c] = [Idle EXCEPT !.pc = "observe", !.ask = ask, !.ref = b, !.rash = rash,
                                                     !.left = MaxSamples, !.runs = runs]]
      BY <3>1 DEF Continue
    <3> HIDE DEF rash, runs
    <3>3. call'[c].rash = rash
      BY <1>1, <3>2 DEF Idle
    <3>4. QED
      BY <3>3 DEF rash
  <2>3. QED
    BY <2>1, <2>2
<1>8. ~Sample(c)
  BY <1>1 DEF Sample, CallRecord
<1>9. ~Observe(c)
  <2>1. ASSUME NEW page,
               call' = [call EXCEPT ![c].pc = "act", ![c].pre = page, ![c].record = "running"]
        PROVE  FALSE
    <3> DEFINE q == [call[c] EXCEPT !.pc = "act", !.pre = page, !.record = "running"]
    <3>1. call' = [call EXCEPT ![c] = q]
      BY <1>1, <2>1
    <3>2. q.rash = call[c].rash
      BY <1>1 DEF CallRecord
    <3> HIDE DEF q
    <3>3. QED
      BY <1>1, <3>1, <3>2
  <2>2. QED
    BY <1>4, <2>1 DEF Observe, Decide
<1>10. ~Search(c)
  <2>1. SUFFICES ASSUME NEW b, NEW ask, call' = [call EXCEPT ![c].ask = ask] PROVE FALSE
    BY DEF Search, Searched
  <2>2. QED
    BY <1>1, <2>1 DEF CallRecord
<1>11. ~ScrollUntil(c)
  <2>1. ASSUME NEW page,
               call' = [call EXCEPT ![c].pc = "act", ![c].pre = page, ![c].left = @ - 1,
                                    ![c].record = "running"]
        PROVE  FALSE
    <3> DEFINE q == [call[c] EXCEPT !.pc = "act", !.pre = page, !.left = @ - 1, !.record = "running"]
    <3>1. call' = [call EXCEPT ![c] = q]
      BY <1>1, <2>1
    <3>2. q.rash = call[c].rash
      BY <1>1 DEF CallRecord
    <3> HIDE DEF q
    <3>3. QED
      BY <1>1, <3>1, <3>2
  <2>2. QED
    BY <1>4, <2>1 DEF ScrollUntil, Sought
<1>12. ~(Compare(c) \/ Analyse(c))
  BY <1>1, <1>4 DEF Compare, Judged, Analyse, Found, CallRecord
<1>13. Perform(c)
  BY <1>2, <1>6, <1>7, <1>8, <1>9, <1>10, <1>11, <1>12 DEF Serve
<1>14. ASSUME NEW e, call' = [call EXCEPT ![c].pc = "compare", ![c].did = TRUE,
                                          ![c].rash = @ \/ Rash(call[c].ask, e)]
       PROVE  Rash(call[c].ask, e)
  <2> DEFINE rash == call[c].rash \/ Rash(call[c].ask, e)
             q == [call[c] EXCEPT !.pc = "compare", !.did = TRUE, !.rash = rash]
  <2>1. call' = [call EXCEPT ![c] = q]
    BY <1>1, <1>14
  <2> HIDE DEF rash
  <2>2. call'[c].rash = rash
    BY <1>1, <2>1 DEF CallRecord
  <2>3. QED
    BY <2>2 DEF rash
<1>15. PICK e \in Chosen(call[c].pre, Shown(call[c].ref), call[c].ask.target) :
         /\ Rash(call[c].ask, e)
         /\ e = Resolved(call[c].pre.shown, call[c].ask.target) \/ Reapproved(c, e)
  <2>1. ~Rash(call[c].ask, NoElement)
    BY DEF Rash
  <2>2. QED
    BY <1>4, <1>13, <1>14, <2>1 DEF Perform, Unavailable
<1>16. e # NoElement /\ Sensitive(e.label)
  BY <1>15 DEF Rash
<1>17. QED
  BY <1>13, <1>15, <1>16, RashWasNamed DEF Perform

\* Whatever the page does between the observation and the action, and whatever the vision model
\* picks, a consequential control is operated without the user's word only if the browser
\* resolves the request to it and the policy, on the page that was observed, to something else
\* (BrowserSafetyPolicy._descriptor and resolve_element).
THEOREM ConsentFailsByReadingOnly == Spec => OnlyTheReadingDiffers
<1>1. ASSUME SessionInv, [Next]_vars
      PROVE  [\A c \in Calls :
                LET q == call[c]
                    e == Resolved(q.pre.shown, q.ask.target)
                IN  ~q.rash /\ call'[c].rash =>
                      e # NoElement /\ Sensitive(e.label)
                        /\ Examined(q.pre.shown, q.ask.target) # e]_vars
  BY <1>1, RashSteps, CallAssumption
<1>2. QED
  BY <1>1, SessionIsGood, PTL DEF Spec, OnlyTheReadingDiffers
=============================================================================
