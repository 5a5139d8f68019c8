------------------------- MODULE ComputerUseProofs -------------------------
(***************************************************************************)
(* Theorems about ComputerUse, for every number of operations, sessions,   *)
(* workers, processes and clients, and every set of plans.                 *)
(***************************************************************************)
EXTENDS ComputerUse, FiniteSetTheorems, TLAPS

(***************************************************************************)
(* Type correctness.  TypeOK is not inductive: a step of the plan is read  *)
(* at index loc[w].step, which is in range only because of the control     *)
(* state, and a handler or worker names an operation only when it is busy. *)
(***************************************************************************)
TablesOK ==
  /\ row \in [Ops -> Row]
  /\ jobs \in [Ops -> Nat]
  /\ notice \in [Ops -> Status]
  /\ holder \in [Procs -> [Sessions -> Workers \cup {None}]]
  /\ requests \in 0..MaxRequests
  /\ crashes \in 0..MaxCrashes

ClientsOK ==
  /\ cpc \in [Clients -> ClientPC]
  /\ cop \in [Clients -> Ops \cup {None}]
  /\ copy \in [Clients -> Row]
  /\ \A c \in Clients : cpc[c] # "idle" => cop[c] \in Ops

WorkersOK ==
  /\ wpc \in [Workers -> WorkerPC]
  /\ wop \in [Workers -> Ops \cup {None}]
  /\ loc \in [Workers -> Row]
  /\ replans \in [Workers -> 0..MaxReplans]
  /\ \A w \in Workers :
       /\ wpc[w] # "idle" => wop[w] \in Ops
       /\ wpc[w] \in {"mark", "tool"} => loc[w].step <= Len(loc[w].plan)
       /\ wpc[w] = "replan" => replans[w] < MaxReplans

HistoryOK ==
  /\ approved \in [Ops -> SUBSET (Nat \X (Steps \cup {None}))]
  /\ acted \in [Ops -> SUBSET (Nat \X Steps)]
  /\ late \in [Ops -> -1..2]

TypeInv == TablesOK /\ ClientsOK /\ WorkersOK /\ HistoryOK

LEMMA NoRowIsRow == NoRow \in Row
BY DEF NoRow, Row, Status, Terminal, Resumable

\* Writing the configuration column keeps a row a row.
LEMMA WithConfigIsRow ==
  ASSUME NEW a \in Row, NEW b \in Row
  PROVE  WithConfig(a, b) \in Row
BY DEF WithConfig, Row

\* Handle keeps the handlers' types, given what it is asked to store.
LEMMA HandleOK ==
  ASSUME ClientsOK, NEW c \in Clients, NEW to \in ClientPC, NEW o, NEW r \in Row,
         o \in Ops \/ (o = None /\ to = "idle"), Handle(c, to, o, r)
  PROVE  ClientsOK'
BY DEF ClientsOK, Handle

LEMMA AnswerOK ==
  ASSUME ClientsOK, NEW c \in Clients, Answer(c)
  PROVE  ClientsOK'
<1>1. "idle" \in ClientPC
  BY DEF ClientPC
<1> QED BY <1>1, NoRowIsRow, HandleOK DEF Answer

\* Goto keeps the workers' types when its target needs no more than it gives.
LEMMA GotoOK ==
  ASSUME WorkersOK, NEW w \in Workers, NEW to \in WorkerPC \ {"idle"}, NEW r \in Row,
         wop[w] \in Ops, Goto(w, to, r), UNCHANGED <<wop, replans>>,
         to \in {"mark", "tool"} => r.step <= Len(r.plan),
         to = "replan" => replans[w] < MaxReplans
  PROVE  WorkersOK'
BY DEF WorkersOK, Goto

LEMMA ReleaseOK ==
  ASSUME WorkersOK, NEW w \in Workers, Release(w)
  PROVE  WorkersOK'
BY NoRowIsRow, ConstantAssumption DEF WorkersOK, Release, WorkerPC, InRun

\* Replacing one column of a row by a value of its type keeps a row a row.
LEMMA ColumnOK ==
  ASSUME NEW r \in Row
  PROVE  /\ \A s \in Status : [r EXCEPT !.status = s] \in Row
         /\ \A b \in BOOLEAN : [r EXCEPT !.cancel = b] \in Row
         /\ \A n \in Nat \ {0} : [r EXCEPT !.step = n] \in Row
         /\ \A p \in Seq(Steps) : [r EXCEPT !.plan = p] \in Row
         /\ \A d \in SUBSET Steps : [r EXCEPT !.done = d] \in Row
         /\ \A g \in Nat : [r EXCEPT !.grant = g] \in Row
         /\ \A b \in BOOLEAN : [r EXCEPT !.link = b] \in Row
BY DEF Row

\* A table with one row replaced by a row is a table.
LEMMA RowSetOK ==
  ASSUME TablesOK, NEW o \in Ops, NEW r \in Row, row' = [row EXCEPT ![o] = r],
         jobs' \in [Ops -> Nat], UNCHANGED <<notice, holder, bounds>>
  PROVE  TablesOK'
BY DEF TablesOK, bounds

LEMMA ResumedIsRow ==
  ASSUME NEW r \in Row
  PROVE  Resumed(r) \in Row
BY DEF Resumed, Row, Status, Terminal, Resumable

LEMMA InitTypeInv == Init => TypeInv
BY NoRowIsRow, ConstantAssumption
   DEF Init, TypeInv, TablesOK, ClientsOK, WorkersOK, HistoryOK, ClientPC, WorkerPC, InRun,
       Status, Terminal, Resumable

\* A request handler keeps the types.
LEMMA ClientTypeInv ==
  ASSUME TypeInv, NEW c \in Clients, ClientStep(c)
  PROVE  TypeInv'
<1> USE DEF TypeInv
<1>0. ASSUME UNCHANGED workerVars  PROVE WorkersOK'
  BY <1>0 DEF workerVars, WorkersOK
<1>1. ASSUME UNCHANGED history  PROVE HistoryOK'
  BY <1>1 DEF history, HistoryOK
<1>2. ASSUME NEW o \in Ops, Create(c, o)  PROVE TypeInv'
  <2>1. PICK p \in Plans : /\ row' = [row EXCEPT ![o] = NewRow(p)]
                           /\ Handle(c, "submit", o, NewRow(p))
    BY <1>2 DEF Create
  <2>2. NewRow(p) \in Row
    BY ConstantAssumption, NoRowIsRow DEF NewRow, Row, Status
  <2>3. TablesOK'
    BY <1>2, <2>1, <2>2, RowSetOK DEF Create, TablesOK, workerVars
  <2>4. ClientsOK'
    BY <2>1, <2>2, HandleOK DEF ClientPC
  <2> QED BY <1>0, <1>1, <1>2, <2>3, <2>4 DEF Create
<1>3. ASSUME Submit(c)  PROVE TypeInv'
  <2>1. cop[c] \in Ops /\ copy[c] \in Row
    BY <1>3 DEF Submit, ClientsOK
  <2>2. TablesOK'
    BY <1>3, <2>1 DEF Submit, TablesOK, workerVars, bounds
  <2>3. ClientsOK'
    <3>1. CASE cpc[c] = "submit"
      BY <1>3, <2>1, <3>1, HandleOK DEF Submit, ClientPC
    <3>2. CASE cpc[c] = "resubmit"
      BY <1>3, <2>1, <3>2, HandleOK DEF Submit, ClientPC
    <3> QED BY <1>3, <3>1, <3>2 DEF Submit
  <2> QED BY <1>0, <1>1, <1>3, <2>2, <2>3 DEF Submit
<1>4. ASSUME SaveQueueConfig(c)  PROVE TypeInv'
  <2>1. cop[c] \in Ops /\ copy[c] \in Row /\ row[cop[c]] \in Row
    BY <1>4 DEF SaveQueueConfig, ClientsOK, TablesOK
  <2>2. TablesOK'
    BY <1>4, <2>1, WithConfigIsRow, RowSetOK DEF SaveQueueConfig, TablesOK, workerVars
  <2>3. ClientsOK'
    BY <1>4, <2>1, HandleOK, AnswerOK DEF SaveQueueConfig, ClientPC
  <2> QED BY <1>0, <1>1, <1>4, <2>2, <2>3 DEF SaveQueueConfig
<1>5. ASSUME LinkRead(c)  PROVE TypeInv'
  <2>1. cop[c] \in Ops /\ row[cop[c]] \in Row
    BY <1>5 DEF LinkRead, ClientsOK, TablesOK
  <2>2. TablesOK'
    BY <1>5 DEF LinkRead, TablesOK, rowVars, workerVars, bounds
  <2>3. ClientsOK'
    BY <1>5, <2>1, HandleOK DEF LinkRead, ClientPC
  <2> QED BY <1>0, <1>1, <1>5, <2>2, <2>3 DEF LinkRead
<1>6. ASSUME LinkSave(c)  PROVE TypeInv'
  <2>1. cop[c] \in Ops /\ copy[c] \in Row /\ row[cop[c]] \in Row
    BY <1>6 DEF LinkSave, ClientsOK, TablesOK
  <2>2. TablesOK'
    BY <1>6, <2>1, ColumnOK, WithConfigIsRow, RowSetOK DEF LinkSave, TablesOK, workerVars
  <2> QED BY <1>0, <1>1, <1>6, <2>2, AnswerOK DEF LinkSave
<1>7. ASSUME NEW o \in Ops, CancelRead(c, o)  PROVE TypeInv'
  <2>1. TablesOK'
    BY <1>7, ConstantAssumption DEF CancelRead, TablesOK, rowVars, workerVars
  <2>2. ClientsOK'
    BY <1>7, NoRowIsRow, HandleOK DEF CancelRead, ClientPC
  <2> QED BY <1>0, <1>1, <1>7, <2>1, <2>2 DEF CancelRead
<1>8. ASSUME CancelSave(c)  PROVE TypeInv'
  <2>1. cop[c] \in Ops /\ row[cop[c]] \in Row
    BY <1>8 DEF CancelSave, ClientsOK, TablesOK
  <2>2. row' \in [Ops -> Row]
    BY <1>8, <2>1 DEF CancelSave, TablesOK, Row, Status
  <2>3. TablesOK'
    BY <1>8, <2>2 DEF CancelSave, TablesOK, workerVars, bounds
  <2>4. HistoryOK'
    BY <1>8, <2>1 DEF CancelSave, HistoryOK
  <2> QED BY <1>0, <1>8, <2>3, <2>4, AnswerOK DEF CancelSave
<1>9. ASSUME NEW o \in Ops, ResumeRead(c, o)  PROVE TypeInv'
  <2>1. TablesOK'
    BY <1>9, ConstantAssumption DEF ResumeRead, TablesOK, rowVars, workerVars
  <2>2. ClientsOK'
    BY <1>9, HandleOK DEF ResumeRead, ClientPC, TablesOK
  <2> QED BY <1>0, <1>1, <1>9, <2>1, <2>2 DEF ResumeRead
<1>10. ASSUME ResumeSave(c)  PROVE TypeInv'
  <2> DEFINE o == cop[c]
             r == Resumed(copy[c])
  <2>1. o \in Ops /\ copy[c] \in Row /\ row[o] \in Row
    BY <1>10 DEF ResumeSave, ClientsOK, TablesOK
  <2>2. r \in Row /\ r.status \in Status /\ r.cancel \in BOOLEAN
    <3>1. r \in Row
      BY <2>1, ResumedIsRow
    <3> QED BY <3>1 DEF Row
  <2>3. [WithConfig(row[o], r) EXCEPT !.status = r.status, !.cancel = r.cancel] \in Row
    BY <2>1, <2>2, WithConfigIsRow, ColumnOK
  <2>4. TablesOK'
    BY <1>10, <2>1, <2>3, RowSetOK DEF ResumeSave, TablesOK, workerVars
  <2>5. ClientsOK'
    BY <1>10, <2>1, <2>2, HandleOK DEF ResumeSave, ClientPC
  <2>6. <<copy[c].step, copy[c].about>> \in Nat \X (Steps \cup {None})
    BY <2>1 DEF Row
  <2>7. HistoryOK'
    BY <1>10, <2>1, <2>6 DEF ResumeSave, HistoryOK
  <2> QED BY <1>0, <1>10, <2>4, <2>5, <2>7 DEF ResumeSave
<1> QED BY <1>2, <1>3, <1>4, <1>5, <1>6, <1>7, <1>8, <1>9, <1>10 DEF ClientStep

\* A worker keeps the types.
LEMMA TakeTypeInv ==
  ASSUME TypeInv, NEW w \in Workers, NEW o \in Ops, Take(w, o)
  PROVE  TypeInv'
<1> USE DEF TypeInv
<1>1. row[o] \in Row /\ jobs[o] - 1 \in Nat
  BY DEF Take, TablesOK
<1>2. TablesOK'
  BY <1>1 DEF Take, TablesOK, bounds
<1>3. ClientsOK'
  BY DEF Take, ClientsOK, clientVars
<1>4. WorkersOK'
  BY <1>1 DEF Take, Goto, WorkersOK, WorkerPC, InRun
<1>5. HistoryOK'
  BY DEF Take, HistoryOK, history
<1> QED BY <1>2, <1>3, <1>4, <1>5

\* What a running worker finds: its operation, its copy and the row are typed.
LEMMA BusyOK ==
  ASSUME TypeInv, NEW w \in Workers, wpc[w] # "idle"
  PROVE  /\ wop[w] \in Ops
         /\ loc[w] \in Row
         /\ row[wop[w]] \in Row
         /\ loc[w].step \in Nat \ {0}
         /\ loc[w].plan \in Seq(Steps)
         /\ loc[w].done \in SUBSET Steps
         /\ row[wop[w]].cancel \in BOOLEAN
         /\ row[wop[w]].status \in Status
<1>1. wop[w] \in Ops /\ loc[w] \in Row
  BY DEF TypeInv, WorkersOK
<1>2. row[wop[w]] \in Row
  BY <1>1 DEF TypeInv, TablesOK
<1> QED BY <1>1, <1>2 DEF Row

\* At the tool, the current step is a step of the plan.
LEMMA CurrentOK ==
  ASSUME TypeInv, NEW w \in Workers, wpc[w] = "tool"
  PROVE  Current(w) \in Steps
BY BusyOK DEF TypeInv, WorkersOK, Current

\* The ends of a run, and a step that is only read, keep the workers' types.
LEMMA EndOK ==
  ASSUME WorkersOK, NEW w \in Workers, wop[w] \in Ops, NEW r \in Row, End(w, r),
         UNCHANGED <<wop, replans>>
  PROVE  WorkersOK'
BY GotoOK DEF End, WorkerPC, InRun

LEMMA ToolHistoryOK ==
  ASSUME TypeInv, NEW w \in Workers, wpc[w] = "tool", Perform(w)
  PROVE  HistoryOK'
<1> DEFINE o == wop[w]
<1>1. o \in Ops /\ <<loc[w].step, Current(w)>> \in Nat \X Steps
  BY BusyOK, CurrentOK
<1>2. acted' \in [Ops -> SUBSET (Nat \X Steps)]
  BY <1>1 DEF TypeInv, HistoryOK, Perform
<1>3. late' \in [Ops -> -1..2]
  BY <1>1 DEF TypeInv, HistoryOK, Perform
<1> QED BY <1>2, <1>3 DEF TypeInv, HistoryOK, Perform

LEMMA MayHistoryOK ==
  ASSUME TypeInv, NEW w \in Workers, wpc[w] = "tool", MayPerform(w)
  PROVE  HistoryOK'
BY ToolHistoryOK DEF MayPerform, TypeInv, HistoryOK, history

LEMMA ToolTypeInv ==
  ASSUME TypeInv, NEW w \in Workers, Tool(w)
  PROVE  TypeInv'
<1> USE DEF TypeInv
<1>1. /\ wpc[w] = "tool"
      /\ wop[w] \in Ops
      /\ loc[w] \in Row
      /\ UNCHANGED <<rowVars, clientVars, wop, replans, holder, notice, bounds>>
  BY BusyOK DEF Tool
<1>2. TablesOK' /\ ClientsOK'
  BY <1>1 DEF TablesOK, ClientsOK, rowVars, clientVars, bounds
<1>3. ASSUME UNCHANGED history  PROVE HistoryOK'
  BY <1>3 DEF history, HistoryOK
<1>4. CASE StepSucceeds(w)
  <2> DEFINE r == [loc[w] EXCEPT !.done = @ \cup {Current(w)}, !.step = @ + 1, !.grant = 0]
  <2>1. r \in Row
    <3>1. loc[w].done \cup {Current(w)} \in SUBSET Steps /\ loc[w].step + 1 \in Nat \ {0}
      BY <1>1, BusyOK, CurrentOK
    <3> QED BY <1>1, <3>1, ColumnOK
  <2>2. WorkersOK'
    BY <1>1, <1>4, <2>1, GotoOK DEF StepSucceeds, WorkerPC, InRun
  <2> QED BY <1>1, <1>2, <1>4, <2>2, ToolHistoryOK DEF StepSucceeds
<1>5. CASE StepWaits(w)
  <2>1. [loc[w] EXCEPT !.status = "waiting_user", !.attn = "blocker", !.about = None] \in Row
    BY <1>1 DEF Row, Status, Resumable
  <2>2. [loc[w] EXCEPT !.status = "waiting_user", !.attn = "approval", !.about = Current(w)] \in Row
    BY <1>1, CurrentOK DEF Row, Status, Resumable
  <2>3. WorkersOK'
    BY <1>1, <1>5, <2>1, <2>2, EndOK DEF StepWaits
  <2> QED BY <1>1, <1>2, <1>3, <1>5, <2>3, MayHistoryOK DEF StepWaits
<1>6. CASE StepInterrupted(w)
  <2>1. [loc[w] EXCEPT !.status = "cancelled", !.cancel = TRUE] \in Row
    BY <1>1 DEF Row, Status, Terminal
  <2>2. WorkersOK'
    BY <1>1, <1>6, <2>1, EndOK DEF StepInterrupted
  <2> QED BY <1>1, <1>2, <1>6, <2>2, MayHistoryOK DEF StepInterrupted
<1>7. [loc[w] EXCEPT !.status = "failed"] \in Row
  BY <1>1 DEF Row, Status, Terminal
<1>8. CASE StepFails(w)
  <2>1. WorkersOK'
    <3>1. CASE replans[w] < MaxReplans /\ Goto(w, "replan", loc[w])
      BY <1>1, <3>1, GotoOK DEF WorkerPC, InRun
    <3>2. CASE End(w, [loc[w] EXCEPT !.status = "failed"])
      BY <1>1, <1>7, <3>2, EndOK
    <3> QED BY <1>8, <3>1, <3>2 DEF StepFails
  <2> QED BY <1>1, <1>2, <1>8, <2>1, MayHistoryOK DEF StepFails
<1>9. CASE StepRaises(w)
  BY <1>1, <1>2, <1>7, <1>9, EndOK, MayHistoryOK DEF StepRaises
<1> QED BY <1>4, <1>5, <1>6, <1>8, <1>9 DEF Tool

LEMMA RunTypeInv ==
  ASSUME TypeInv, NEW w \in Workers, RunStep(w)
  PROVE  TypeInv'
<1> USE DEF TypeInv
<1>a. wpc[w] # "idle"
  BY DEF RunStep, FailOrphan, Acquire, CancelBeforeStart, Start, Check, Mark, Tool, Record,
         Replan, SavePlan, Save, Publish
<1> DEFINE o == wop[w]
<1>0. /\ o \in Ops
      /\ loc[w] \in Row
      /\ row[o] \in Row
      /\ loc[w].step \in Nat \ {0}
      /\ loc[w].plan \in Seq(Steps)
      /\ loc[w].done \in SUBSET Steps
      /\ row[o].cancel \in BOOLEAN
      /\ row[o].status \in Status
  BY <1>a, BusyOK
<1>b. ASSUME UNCHANGED clientVars  PROVE ClientsOK'
  BY <1>b DEF clientVars, ClientsOK
<1>c. ASSUME UNCHANGED history  PROVE HistoryOK'
  BY <1>c DEF history, HistoryOK
<1>d. \A s \in {"failed", "cancelled", "running", "completed"} :
        s \in Status /\ [loc[w] EXCEPT !.status = s] \in Row /\ [row[o] EXCEPT !.status = s] \in Row
  BY <1>0, ColumnOK DEF Status, Terminal
<1>1. CASE FailOrphan(w)
  <2>1. TablesOK'
    BY <1>0, <1>1, <1>d, RowSetOK DEF FailOrphan, TablesOK
  <2> QED BY <1>1, <1>b, <1>c, <2>1, ReleaseOK DEF FailOrphan
<1>2. CASE Acquire(w)
  <2> DEFINE r == [row[o] EXCEPT !.done = IF row[o].step = 1 THEN {} ELSE @]
  <2>1. r \in Row
    BY <1>0 DEF Row
  <2>2. TablesOK'
    BY <1>0, <1>2 DEF Acquire, TablesOK, rowVars, bounds
  <2>3. WorkersOK'
    BY <1>0, <1>2, <2>1, GotoOK DEF Acquire, WorkerPC, InRun
  <2> QED BY <1>2, <1>b, <1>c, <2>2, <2>3 DEF Acquire
<1>3. CASE CancelBeforeStart(w)
  <2>1. TablesOK'
    BY <1>0, <1>3, <1>d, RowSetOK DEF CancelBeforeStart, TablesOK
  <2>2. WorkersOK'
    BY <1>0, <1>3, <1>d, GotoOK DEF CancelBeforeStart, WorkerPC, InRun
  <2> QED BY <1>3, <1>b, <1>c, <2>1, <2>2 DEF CancelBeforeStart
<1>4. CASE Start(w)
  <2>1. TablesOK'
    BY <1>0, <1>4, <1>d, RowSetOK DEF Start, TablesOK
  <2>2. WorkersOK'
    BY <1>0, <1>4, <1>d, GotoOK DEF Start, WorkerPC, InRun
  <2> QED BY <1>4, <1>b, <1>c, <2>1, <2>2 DEF Start
<1>5. CASE Check(w)
  <2> DEFINE r == Refreshed(w)
  <2>1. r \in Row /\ r.step = loc[w].step /\ r.plan = loc[w].plan
    BY <1>0 DEF Row, Refreshed
  <2>2. [r EXCEPT !.status = "cancelled"] \in Row
    BY <2>1, <1>d, ColumnOK
  <2>3. TablesOK'
    BY <1>5 DEF Check, TablesOK, rowVars, bounds
  <2>4. UNCHANGED <<wop, replans>> /\ "mark" \in WorkerPC \ {"idle"}
    BY <1>5 DEF Check, WorkerPC, InRun
  <2>5. loc[w].step <= LastStep(w) => loc[w].step <= Len(loc[w].plan)
    BY <1>0, ConstantAssumption DEF LastStep
  <2>6. \/ \E l \in Row : End(w, l)
        \/ loc[w].step <= LastStep(w) /\ Goto(w, "mark", r)
    BY <1>5, <1>d, <2>2 DEF Check
  <2>7. WorkersOK'
    <3> HIDE DEF r
    <3>1. CASE loc[w].step <= LastStep(w) /\ Goto(w, "mark", r)
      BY <1>0, <2>1, <2>4, <2>5, <3>1, GotoOK
    <3> QED BY <1>0, <2>4, <2>6, <3>1, EndOK
  <2> QED BY <1>5, <1>b, <1>c, <2>3, <2>7 DEF Check
<1>6. CASE Mark(w)
  <2>1. TablesOK'
    BY <1>0, <1>6, ColumnOK, RowSetOK DEF Mark, TablesOK
  <2>2. WorkersOK'
    BY <1>0, <1>6, GotoOK DEF Mark, WorkersOK, WorkerPC, InRun
  <2> QED BY <1>6, <1>b, <1>c, <2>1, <2>2 DEF Mark
<1>7. CASE Tool(w)
  BY <1>7, ToolTypeInv
<1>8. CASE Record(w)
  <2>1. [WithConfig(row[o], loc[w]) EXCEPT !.step = loc[w].step, !.done = loc[w].done] \in Row
    BY <1>0, WithConfigIsRow, ColumnOK
  <2>2. TablesOK'
    BY <1>0, <1>8, <2>1, RowSetOK DEF Record, TablesOK
  <2>3. WorkersOK'
    BY <1>0, <1>8, GotoOK DEF Record, WorkerPC, InRun
  <2> QED BY <1>8, <1>b, <1>c, <2>2, <2>3 DEF Record
<1>9. CASE Replan(w)
  <2>1. TablesOK'
    BY <1>9 DEF Replan, TablesOK, rowVars, bounds
  <2>2. \A p \in Plans : [loc[w] EXCEPT !.plan = p, !.step = 1] \in Row
    <3> TAKE p \in Plans
    <3> DEFINE q == [loc[w] EXCEPT !.plan = p]
    <3>1. q \in Row
      BY <1>0, ConstantAssumption, ColumnOK
    <3>2. [q EXCEPT !.step = 1] \in Row
      <4> HIDE DEF q
      <4>1. 1 \in Nat \ {0}
        OBVIOUS
      <4> QED BY <3>1, <4>1, ColumnOK
    <3> QED BY <3>2
  <2>3. replans[w] + 1 \in 0..MaxReplans
    <3>1. wpc[w] = "replan"
      BY <1>9 DEF Replan
    <3>2. replans[w] \in 0..MaxReplans /\ replans[w] < MaxReplans
      BY <3>1 DEF WorkersOK
    <3> QED BY <3>2, ConstantAssumption
  <2>4. WorkersOK'
    BY <1>0, <1>9, <1>d, <2>2, <2>3, ZenonT(60) DEF Replan, End, Goto, WorkersOK, WorkerPC, InRun
  <2> QED BY <1>9, <1>b, <1>c, <2>1, <2>4 DEF Replan
<1>10. CASE SavePlan(w)
  <2>1. [WithConfig(row[o], loc[w]) EXCEPT !.plan = loc[w].plan, !.step = loc[w].step] \in Row
    BY <1>0, WithConfigIsRow, ColumnOK
  <2>2. TablesOK'
    BY <1>0, <1>10, <2>1, RowSetOK DEF SavePlan, TablesOK
  <2>3. WorkersOK'
    BY <1>0, <1>10, GotoOK DEF SavePlan, WorkerPC, InRun
  <2> QED BY <1>10, <1>b, <1>c, <2>2, <2>3 DEF SavePlan
<1>11. CASE Save(w)
  <2>1. TablesOK'
    BY <1>0, <1>11, RowSetOK DEF Save, TablesOK
  <2>2. WorkersOK'
    BY <1>0, <1>11, GotoOK DEF Save, WorkerPC, InRun
  <2> QED BY <1>11, <1>b, <1>c, <2>1, <2>2 DEF Save
<1>12. CASE Publish(w)
  <2>1. loc[w].status \in Status
    BY <1>0 DEF Row
  <2>2. TablesOK'
    BY <1>0, <1>12, <2>1 DEF Publish, TablesOK, rowVars, bounds
  <2> QED BY <1>12, <1>b, <1>c, <2>2, ReleaseOK DEF Publish
<1> QED BY <1>1, <1>2, <1>3, <1>4, <1>5, <1>6, <1>7, <1>8, <1>9, <1>10, <1>11, <1>12
        DEF RunStep

LEMMA CrashTypeInv ==
  ASSUME TypeInv, NEW p \in Procs, Crash(p)
  PROVE  TypeInv'
<1> USE DEF TypeInv
<1>1. TablesOK'
  BY ConstantAssumption DEF Crash, TablesOK
<1>2. ClientsOK'
  BY NoRowIsRow DEF Crash, ClientsOK, clientVars, ClientPC
<1>3. WorkersOK'
  BY NoRowIsRow, ConstantAssumption DEF Crash, WorkersOK, WorkerPC
<1>4. HistoryOK'
  BY DEF Crash, HistoryOK, history
<1> QED BY <1>1, <1>2, <1>3, <1>4

LEMMA NextTypeInv == TypeInv /\ [Next]_vars => TypeInv'
<1> SUFFICES ASSUME TypeInv, [Next]_vars  PROVE TypeInv'
  OBVIOUS
<1>1. CASE UNCHANGED vars
  BY <1>1 DEF TypeInv, TablesOK, ClientsOK, WorkersOK, HistoryOK, vars, rowVars, clientVars,
              workerVars, history, bounds
<1>2. CASE Next
  BY <1>2, ClientTypeInv, RunTypeInv, TakeTypeInv, CrashTypeInv DEF Next, WorkerStep
<1> QED BY <1>1, <1>2

LEMMA TypeInvariant == Spec => []TypeInv
BY InitTypeInv, NextTypeInv, PTL DEF Spec

\* The tables, the in-memory instances and the control states keep their types,
\* for any number of operations, workers, clients, replans and requests.
THEOREM TypeCorrect == Spec => []TypeOK
<1>1. TypeInv => TypeOK
  BY DEF TypeInv, TablesOK, ClientsOK, WorkersOK, HistoryOK, TypeOK
<1> QED BY <1>1, TypeInvariant, PTL

-----------------------------------------------------------------------------
(***************************************************************************)
(* Mutual exclusion.  SessionSerialised is not inductive: it follows from  *)
(* the lock table, in which every run inside the locked part is the holder *)
(* of its session's lock in its own process.                               *)
(***************************************************************************)
LockInv ==
  \A w \in Workers : wpc[w] \in InRun => holder[ProcOf[w]][SessionOf[wop[w]]] = w

\* The steps of a worker that neither takes nor releases a lock.
StaysInRun(w) ==
  /\ wpc[w] \in InRun
  /\ \E to \in InRun : wpc' = [wpc EXCEPT ![w] = to]
  /\ UNCHANGED <<wop, holder>>

LEMMA StaysInRunSteps ==
  ASSUME NEW w \in Workers,
         \/ CancelBeforeStart(w) \/ Start(w) \/ Check(w) \/ Mark(w) \/ Tool(w)
         \/ Record(w) \/ Replan(w) \/ SavePlan(w) \/ Save(w)
  PROVE  StaysInRun(w)
<1> USE DEF StaysInRun, InRun, Goto, End
<1>1. CASE CancelBeforeStart(w)  BY <1>1 DEF CancelBeforeStart
<1>2. CASE Start(w)  BY <1>2 DEF Start
<1>3. CASE Check(w)  BY <1>3 DEF Check
<1>4. CASE Mark(w)  BY <1>4 DEF Mark
<1>5. CASE Tool(w)
  BY <1>5 DEF Tool, StepSucceeds, StepWaits, StepInterrupted, StepFails, StepRaises
<1>6. CASE Record(w)  BY <1>6 DEF Record
<1>7. CASE Replan(w)  BY <1>7 DEF Replan
<1>8. CASE SavePlan(w)  BY <1>8 DEF SavePlan
<1>9. CASE Save(w)  BY <1>9 DEF Save
<1> QED BY <1>1, <1>2, <1>3, <1>4, <1>5, <1>6, <1>7, <1>8, <1>9

LEMMA LockStep ==
  ASSUME TypeInv, LockInv, [Next]_vars
  PROVE  LockInv'
<1> USE DEF LockInv
<1>a. holder \in [Procs -> [Sessions -> Workers \cup {None}]] /\ wpc \in [Workers -> WorkerPC]
  BY DEF TypeInv, TablesOK, WorkersOK
<1>b. \A v \in Workers : ProcOf[v] \in Procs /\ (wpc[v] # "idle" => SessionOf[wop[v]] \in Sessions)
  BY ConstantAssumption DEF TypeInv, WorkersOK
<1>c. None \notin Workers
  BY ConstantAssumption
<1>d. \A v \in Workers : wpc[v] \in InRun => wpc[v] # "idle"
  BY DEF InRun
<1>1. ASSUME UNCHANGED workerVars  PROVE LockInv'
  BY <1>1 DEF workerVars
<1>2. CASE UNCHANGED vars
  BY <1>1, <1>2 DEF vars
<1>3. ASSUME NEW c \in Clients, ClientStep(c)  PROVE LockInv'
  BY <1>1, <1>3 DEF ClientStep, Create, CancelRead, ResumeRead, Submit, SaveQueueConfig, LinkRead,
                    LinkSave, CancelSave, ResumeSave
<1>4. ASSUME NEW w \in Workers, NEW o \in Ops, Take(w, o)  PROVE LockInv'
  <2>1. wpc' = [wpc EXCEPT ![w] = wpc'[w]] /\ wpc'[w] \notin InRun /\ UNCHANGED holder
        /\ wop' = [wop EXCEPT ![w] = o]
    BY <1>4, <1>a DEF Take, Goto, InRun
  <2> QED BY <2>1, <1>a DEF TypeInv, WorkersOK
<1>5. ASSUME NEW w \in Workers, StaysInRun(w)  PROVE LockInv'
  BY <1>5, <1>a DEF StaysInRun
<1>6. ASSUME NEW w \in Workers, FailOrphan(w)  PROVE LockInv'
  <2>1. wpc' = [wpc EXCEPT ![w] = "idle"] /\ wop' = [wop EXCEPT ![w] = None] /\ UNCHANGED holder
    BY <1>6 DEF FailOrphan, Release
  <2> QED BY <2>1, <1>a DEF TypeInv, WorkersOK, InRun
<1>7. ASSUME NEW w \in Workers, Acquire(w)  PROVE LockInv'
  <2> DEFINE p == ProcOf[w]
             s == SessionOf[wop[w]]
  <2>1. /\ wpc[w] = "lock"
        /\ holder[p][s] = None
        /\ holder' = [holder EXCEPT ![p][s] = w]
        /\ wop' = wop
        /\ wpc' = [wpc EXCEPT ![w] = wpc'[w]]
    BY <1>7, <1>a DEF Acquire, Goto
  <2>2. p \in Procs /\ s \in Sessions
    BY <1>b, <2>1
  <2>3. ASSUME NEW v \in Workers, wpc'[v] \in InRun
        PROVE  holder'[ProcOf[v]][SessionOf[wop[v]]] = v
    <3>1. CASE v = w
      BY <1>a, <2>1, <2>2, <3>1
    <3>2. CASE v # w
      <4>1. wpc[v] \in InRun
        BY <1>a, <2>1, <2>3, <3>2
      <4>2. holder[ProcOf[v]][SessionOf[wop[v]]] = v
        BY <4>1
      <4>3. ~(ProcOf[v] = p /\ SessionOf[wop[v]] = s)
        BY <1>c, <2>1, <4>2
      <4> QED BY <1>a, <1>b, <1>d, <2>1, <2>2, <4>1, <4>2, <4>3
    <3> QED BY <3>1, <3>2
  <2> QED BY <2>1, <2>3
<1>8. ASSUME NEW w \in Workers, Publish(w)  PROVE LockInv'
  <2> DEFINE p == ProcOf[w]
             s == SessionOf[wop[w]]
  <2>1. /\ wpc[w] = "publish"
        /\ holder' = [holder EXCEPT ![p][s] = None]
        /\ wop' = [wop EXCEPT ![w] = None]
        /\ wpc' = [wpc EXCEPT ![w] = "idle"]
    BY <1>8 DEF Publish, Release
  <2>2. holder[p][s] = w
    BY <2>1 DEF InRun
  <2>3. ASSUME NEW v \in Workers, wpc'[v] \in InRun
        PROVE  holder'[ProcOf[v]][SessionOf[wop'[v]]] = v
    <3>1. v # w
      BY <1>a, <2>1, <2>3 DEF InRun
    <3>2. wpc[v] \in InRun /\ wop'[v] = wop[v]
      BY <1>a, <2>1, <2>3, <3>1 DEF TypeInv, WorkersOK
    <3>3. holder[ProcOf[v]][SessionOf[wop[v]]] = v
      BY <3>2
    <3>4. ~(ProcOf[v] = p /\ SessionOf[wop[v]] = s)
      BY <2>2, <3>1, <3>3
    <3>5. wpc[w] # "idle"
      BY <2>1
    <3> QED BY <1>a, <1>b, <1>d, <2>1, <3>2, <3>3, <3>4, <3>5
  <2> QED BY <2>3
<1>9. ASSUME NEW p \in Procs, Crash(p)  PROVE LockInv'
  <2>1. ASSUME NEW v \in Workers, wpc'[v] \in InRun
        PROVE  holder'[ProcOf[v]][SessionOf[wop'[v]]] = v
    <3>1. ProcOf[v] # p /\ wpc[v] \in InRun /\ wop'[v] = wop[v]
      BY <1>9, <2>1 DEF Crash, InRun
    <3>2. holder'[ProcOf[v]] = holder[ProcOf[v]]
      BY <1>9, <1>a, <1>b, <3>1 DEF Crash
    <3> QED BY <3>1, <3>2
  <2> QED BY <2>1
<1> QED BY <1>2, <1>3, <1>4, <1>5, <1>6, <1>7, <1>8, <1>9, StaysInRunSteps
        DEF Next, WorkerStep, RunStep

LEMMA LockInvariant == Spec => [](TypeInv /\ LockInv)
<1>1. Init => LockInv
  BY DEF Init, LockInv, InRun
<1>2. TypeInv /\ LockInv /\ [Next]_vars => LockInv'
  BY LockStep
<1> QED BY <1>1, <1>2, TypeInvariant, PTL DEF Spec

SingleProcess == \A v, w \in Workers : ProcOf[v] = ProcOf[w]

LEMMA LockSerialises ==
  ASSUME SingleProcess, LockInv
  PROVE  SessionSerialised
BY DEF SingleProcess, LockInv, SessionSerialised

\* The lock table of BrowserSessionService keeps two runs of one session apart
\* when all the worker threads live in one process: the assumption is what the
\* code needs, and a run of two processes violates the conclusion.
THEOREM OneProcessSerialises ==
  ASSUME SingleProcess
  PROVE  Spec => []SessionSerialised
<1>1. LockInv => SessionSerialised
  BY LockSerialises
<1> QED BY <1>1, LockInvariant, PTL

-----------------------------------------------------------------------------
(***************************************************************************)
(* What a plan's progress means.  CompletedCoversPlan is not inductive: a  *)
(* run completes on its own copy of the plan, and every save of part of a  *)
(* row must leave its plan, step and results consistent.  That needs the   *)
(* run's copy to agree with the row while a step is performed, which the   *)
(* session's lock gives when all workers live in one process.              *)
(***************************************************************************)

\* Every step before the current one has a result.
Covers(r) == \A i \in 1..Len(r.plan) : i < r.step => r.plan[i] \in r.done

\* A completed row has no step left, as far as the limit on steps goes.
Finished(r) == r.status = "completed" => r.step > Len(r.plan) \/ r.step > MaxSteps

\* An operation that something works on has been created, and only an operation
\* that has lost its session takes the orphan's way.
CreatedInv ==
  /\ \A o \in Ops : jobs[o] > 0 => row[o].status # "absent"
  /\ \A c \in Clients : cpc[c] # "idle" => row[cop[c]].status # "absent"
  /\ \A w \in Workers : wpc[w] # "idle" =>
       /\ row[wop[w]].status # "absent"
       /\ loc[w].status # "absent"
       /\ wop[w] \in Orphans <=> wpc[w] = "orphan"

ProgressInv ==
  /\ \A o \in Ops : Covers(row[o]) /\ Finished(row[o])
  /\ \A w \in Workers :
       /\ wpc[w] # "idle" => Covers(loc[w])
       /\ wpc[w] \in {"start", "check", "mark", "tool", "replan"} =>
            row[wop[w]].plan = loc[w].plan /\ row[wop[w]].step = loc[w].step
       /\ wpc[w] \in {"check", "mark", "tool", "record", "replan", "saveplan"} =>
            row[wop[w]].status # "completed"
       /\ wpc[w] = "record" => row[wop[w]].plan = loc[w].plan
       /\ wpc[w] = "saveplan" => loc[w].step = 1
       /\ wpc[w] = "save" => Finished(loc[w])

Progress == CreatedInv /\ ProgressInv

\* Writing the configuration leaves the other columns alone.
LEMMA WithConfigFields ==
  ASSUME NEW a \in Row, NEW b \in Row
  PROVE  /\ WithConfig(a, b).status = a.status
         /\ WithConfig(a, b).cancel = a.cancel
         /\ WithConfig(a, b).step = a.step
         /\ WithConfig(a, b).plan = a.plan
         /\ WithConfig(a, b).done = a.done
BY DEF WithConfig, Row

\* In one process an operation has at most one run inside the locked part.
LEMMA OnlyRun ==
  ASSUME SingleProcess, LockInv, NEW v \in Workers, NEW w \in Workers,
         wpc[v] \in InRun, wpc[w] \in InRun, wop[v] = wop[w]
  PROVE  v = w
BY DEF SingleProcess, LockInv

\* What a step inside the locked part has to show to keep the invariant: the
\* row r and the copy l it leaves behind, and where it goes.
LEMMA RunKeeps ==
  ASSUME SingleProcess, TypeInv, LockInv, Progress,
         NEW w \in Workers, wpc[w] \in InRun \cup {"lock"},
         NEW to \in InRun, NEW r \in Row, NEW l \in Row,
         wpc[w] = "lock" => r = row[wop[w]],
         wpc' = [wpc EXCEPT ![w] = to],
         loc' = [loc EXCEPT ![w] = l],
         row' = [row EXCEPT ![wop[w]] = r],
         UNCHANGED <<wop, jobs, clientVars>>,
         r.status # "absent", l.status # "absent",
         Covers(r), Finished(r), Covers(l),
         to \in {"start", "check", "mark", "tool", "replan"} =>
           r.plan = l.plan /\ r.step = l.step,
         to \in {"check", "mark", "tool", "record", "replan", "saveplan"} =>
           r.status # "completed",
         to = "record" => r.plan = l.plan,
         to = "saveplan" => l.step = 1,
         to = "save" => Finished(l)
  PROVE  Progress'
<1> DEFINE o == wop[w]
<1>1. o \in Ops /\ wpc[w] \notin {"idle", "orphan"} /\ to \notin {"idle", "orphan"}
  BY DEF TypeInv, WorkersOK, InRun
<1>2. row \in [Ops -> Row] /\ wpc \in [Workers -> WorkerPC] /\ loc \in [Workers -> Row]
  BY DEF TypeInv, TablesOK, WorkersOK
<1>3. \A p \in Ops : row'[p] = IF p = o THEN r ELSE row[p]
  BY <1>1, <1>2
<1>4. \A v \in Workers : wpc'[v] = (IF v = w THEN to ELSE wpc[v]) /\ loc'[v] = IF v = w THEN l ELSE loc[v]
  BY <1>2
<1>5. \A v \in Workers : wpc[v] # "idle" => wop[v] \in Ops
  BY DEF TypeInv, WorkersOK
<1>6. CreatedInv'
  <2>1. \A p \in Ops : jobs'[p] > 0 => row'[p].status # "absent"
    BY <1>3 DEF Progress, CreatedInv
  <2>2. \A c \in Clients : cpc'[c] # "idle" => row'[cop'[c]].status # "absent"
    BY <1>3 DEF Progress, CreatedInv, clientVars, TypeInv, ClientsOK
  <2>3. ASSUME NEW v \in Workers, wpc'[v] # "idle"
        PROVE  /\ row'[wop'[v]].status # "absent"
               /\ loc'[v].status # "absent"
               /\ wop'[v] \in Orphans <=> wpc'[v] = "orphan"
    BY <1>1, <1>3, <1>4, <1>5, <2>3 DEF Progress, CreatedInv
  <2> QED BY <2>1, <2>2, <2>3 DEF CreatedInv
<1>7. ProgressInv'
  <2>1. \A p \in Ops : Covers(row'[p]) /\ Finished(row'[p])
    BY <1>3 DEF Progress, ProgressInv
  <2>2. ASSUME NEW v \in Workers
        PROVE  /\ wpc'[v] # "idle" => Covers(loc'[v])
               /\ wpc'[v] \in {"start", "check", "mark", "tool", "replan"} =>
                    row'[wop'[v]].plan = loc'[v].plan /\ row'[wop'[v]].step = loc'[v].step
               /\ wpc'[v] \in {"check", "mark", "tool", "record", "replan", "saveplan"} =>
                    row'[wop'[v]].status # "completed"
               /\ wpc'[v] = "record" => row'[wop'[v]].plan = loc'[v].plan
               /\ wpc'[v] = "saveplan" => loc'[v].step = 1
               /\ wpc'[v] = "save" => Finished(loc'[v])
    <3>1. CASE v = w
      BY <1>1, <1>3, <1>4, <3>1
    <3>2. CASE v # w
      <4>1. CASE wpc[v] \in InRun
        <5>1. wop[v] # o \/ r = row[o]
          BY <3>2, <4>1, OnlyRun
        <5>2. row'[wop'[v]] = row[wop[v]]
          BY <1>3, <1>5, <4>1, <5>1 DEF InRun
        <5> QED BY <1>4, <3>2, <5>2 DEF Progress, ProgressInv
      <4>2. CASE wpc[v] \notin InRun
        BY <1>4, <3>2, <4>2 DEF Progress, ProgressInv, InRun
      <4> QED BY <4>1, <4>2
    <3> QED BY <3>1, <3>2
  <2> HIDE DEF o
  <2> QED BY <2>1, <2>2 DEF ProgressInv
<1> QED BY <1>6, <1>7 DEF Progress

\* The facts about a run's copy and its row that its steps start from.
LEMMA RunFacts ==
  ASSUME TypeInv, Progress, NEW w \in Workers, wpc[w] \in InRun \cup {"lock"}
  PROVE  /\ wop[w] \in Ops
         /\ loc[w] \in Row
         /\ row[wop[w]] \in Row
         /\ row = [row EXCEPT ![wop[w]] = row[wop[w]]]
         /\ row[wop[w]].status # "absent"
         /\ loc[w].status # "absent"
         /\ Covers(row[wop[w]])
         /\ Finished(row[wop[w]])
         /\ Covers(loc[w])
         /\ wop[w] \notin Orphans
<1>1. wpc[w] # "idle" /\ wpc[w] # "orphan"
  BY DEF InRun
<1>2. wop[w] \in Ops /\ loc[w] \in Row /\ row[wop[w]] \in Row
  BY <1>1, BusyOK
<1>3. row \in [Ops -> Row]
  BY DEF TypeInv, TablesOK
<1> QED BY <1>1, <1>2, <1>3 DEF Progress, CreatedInv, ProgressInv

\* Changing a column of a row leaves the others alone.
LEMMA StatusFields ==
  ASSUME NEW r \in Row, NEW s \in Status \ {"absent"}
  PROVE  /\ [r EXCEPT !.status = s] \in Row
         /\ [r EXCEPT !.status = s].status = s
         /\ [r EXCEPT !.status = s].step = r.step
         /\ [r EXCEPT !.status = s].plan = r.plan
         /\ [r EXCEPT !.status = s].done = r.done
BY DEF Row

LEMMA AcquireKeeps ==
  ASSUME SingleProcess, TypeInv, LockInv, Progress, NEW w \in Workers, Acquire(w)
  PROVE  Progress'
<1> DEFINE r == row[wop[w]]
           l == [r EXCEPT !.done = IF r.step = 1 THEN {} ELSE @]
           to == IF r.cancel THEN "precancel" ELSE "start"
<1>1. wpc[w] = "lock" /\ UNCHANGED <<rowVars, clientVars, wop>> /\ Goto(w, to, l)
  BY DEF Acquire
<1>2. r \in Row /\ row = [row EXCEPT ![wop[w]] = r] /\ r.status # "absent" /\ Covers(r) /\ Finished(r)
  BY <1>1, RunFacts
<1>3. l \in Row /\ l.status = r.status /\ l.plan = r.plan /\ l.step = r.step
      /\ l.done = IF r.step = 1 THEN {} ELSE r.done
  BY <1>2 DEF Row
<1>4. Covers(l)
  BY <1>2, <1>3 DEF Covers
<1>5. to \in {"precancel", "start"} /\ to \in InRun
  BY DEF InRun
<1> HIDE DEF r, l, to
<1> QED BY <1>1, <1>2, <1>3, <1>4, <1>5, RunKeeps DEF Goto, rowVars, r

LEMMA StartKeeps ==
  ASSUME SingleProcess, TypeInv, LockInv, Progress, NEW w \in Workers,
         CancelBeforeStart(w) \/ Start(w)
  PROVE  Progress'
<1> DEFINE q == row[wop[w]]
<1>1. wpc[w] \in InRun
  BY DEF CancelBeforeStart, Start, InRun
<1>2. q \in Row /\ loc[w] \in Row /\ Covers(q) /\ Covers(loc[w])
  BY <1>1, RunFacts
<1>3. CASE CancelBeforeStart(w)
  <2> DEFINE r == [q EXCEPT !.status = "cancelled"]
             l == [loc[w] EXCEPT !.status = "cancelled"]
  <2>1. "cancelled" \in Status \ {"absent"} /\ "publish" \in InRun
    BY DEF Status, Terminal, InRun
  <2>2. /\ r \in Row /\ r.status = "cancelled" /\ Covers(r) /\ Finished(r)
        /\ l \in Row /\ l.status = "cancelled" /\ Covers(l)
    BY <1>2, <2>1, StatusFields DEF Covers, Finished
  <2>3. /\ wpc' = [wpc EXCEPT ![w] = "publish"]
        /\ loc' = [loc EXCEPT ![w] = l]
        /\ row' = [row EXCEPT ![wop[w]] = r]
        /\ UNCHANGED <<wop, jobs, clientVars>>
        /\ wpc[w] # "lock"
    BY <1>3 DEF CancelBeforeStart, Goto
  <2> HIDE DEF r, l
  <2> QED BY <1>1, <2>1, <2>2, <2>3, RunKeeps
<1>4. CASE Start(w)
  <2> DEFINE r == [q EXCEPT !.status = "running"]
             l == [loc[w] EXCEPT !.status = "running"]
  <2>1. "running" \in Status \ {"absent"} /\ "check" \in InRun
    BY DEF Status, InRun
  <2>2. q.plan = loc[w].plan /\ q.step = loc[w].step
    BY <1>4 DEF Start, Progress, ProgressInv
  <2>3. /\ r \in Row /\ r.status = "running" /\ Covers(r) /\ Finished(r)
        /\ l \in Row /\ l.status = "running" /\ Covers(l)
        /\ r.plan = l.plan /\ r.step = l.step
    BY <1>2, <2>1, <2>2, StatusFields DEF Covers, Finished
  <2>4. /\ wpc' = [wpc EXCEPT ![w] = "check"]
        /\ loc' = [loc EXCEPT ![w] = l]
        /\ row' = [row EXCEPT ![wop[w]] = r]
        /\ UNCHANGED <<wop, jobs, clientVars>>
        /\ wpc[w] # "lock"
    BY <1>4 DEF Start, Goto
  <2> HIDE DEF r, l
  <2> QED BY <1>1, <2>1, <2>3, <2>4, RunKeeps
<1> QED BY <1>3, <1>4

\* The end of a run, and a call of the tool, leave the row as it is.
LEMMA EndKeeps ==
  ASSUME SingleProcess, TypeInv, LockInv, Progress, NEW w \in Workers, wpc[w] \in InRun,
         NEW l \in Row, End(w, l), UNCHANGED <<wop, rowVars, clientVars>>,
         l.status # "absent", Covers(l), Finished(l)
  PROVE  Progress'
<1> DEFINE r == row[wop[w]]
<1>1. r \in Row /\ row = [row EXCEPT ![wop[w]] = r] /\ r.status # "absent" /\ Covers(r) /\ Finished(r)
  BY RunFacts
<1>2. "save" \in InRun /\ wpc[w] # "lock"
  BY DEF InRun
<1> HIDE DEF r
<1> QED BY <1>1, <1>2, RunKeeps DEF End, Goto, rowVars

\* The same for a step that goes on with the loop.
LEMMA GotoKeeps ==
  ASSUME SingleProcess, TypeInv, LockInv, Progress, NEW w \in Workers,
         NEW to \in {"mark", "record", "replan", "saveplan"},
         NEW l \in Row, Goto(w, to, l), UNCHANGED <<wop, rowVars, clientVars>>,
         l.status # "absent", Covers(l),
         wpc[w] \in {"check", "mark", "tool", "replan"},
         to \in {"mark", "replan"} => l.plan = loc[w].plan /\ l.step = loc[w].step,
         to = "record" => l.plan = loc[w].plan,
         to = "saveplan" => l.step = 1
  PROVE  Progress'
<1> DEFINE r == row[wop[w]]
<1>0. wpc[w] \in InRun /\ wpc[w] # "lock" /\ to \in InRun
  BY DEF InRun
<1>1. r \in Row /\ row = [row EXCEPT ![wop[w]] = r] /\ r.status # "absent" /\ Covers(r) /\ Finished(r)
  BY <1>0, RunFacts
<1>2. r.status # "completed"
  BY DEF Progress, ProgressInv
<1>3. /\ to \in {"mark", "replan"} => r.plan = l.plan /\ r.step = l.step
      /\ to = "record" => r.plan = l.plan
  BY DEF Progress, ProgressInv
<1> HIDE DEF r
<1> QED BY <1>0, <1>1, <1>2, <1>3, RunKeeps DEF Goto, rowVars

LEMMA CheckKeeps ==
  ASSUME SingleProcess, TypeInv, LockInv, Progress, NEW w \in Workers, Check(w)
  PROVE  Progress'
<1> DEFINE q == row[wop[w]]
           r == Refreshed(w)
<1>1. wpc[w] = "check" /\ wpc[w] \in InRun /\ UNCHANGED <<wop, rowVars, clientVars>>
  BY DEF Check, InRun
<1>2. q \in Row /\ loc[w] \in Row /\ Covers(loc[w]) /\ q.status # "absent" /\ loc[w].status # "absent"
  BY <1>1, RunFacts
<1>3. r \in Row /\ r.status = q.status /\ r.plan = loc[w].plan /\ r.step = loc[w].step
      /\ r.done = loc[w].done
  BY <1>2 DEF Row, Refreshed
<1>4. Covers(r)
  BY <1>2, <1>3 DEF Covers
<1>5. ASSUME NEW b \in Row, Covers(b), NEW s \in {"failed", "cancelled"},
             End(w, [b EXCEPT !.status = s])
      PROVE  Progress'
  <2> DEFINE l == [b EXCEPT !.status = s]
  <2>1. s \in Status \ {"absent"} /\ s # "completed"
    BY DEF Status, Terminal
  <2>2. l \in Row /\ l.status # "absent" /\ Covers(l) /\ Finished(l)
    BY <1>5, <2>1, StatusFields DEF Covers, Finished
  <2> HIDE DEF l
  <2> QED BY <1>1, <1>5, <2>2, EndKeeps DEF l
<1>6. CASE loc[w].step > LastStep(w) /\ End(w, [loc[w] EXCEPT !.status = "completed"])
  <2> DEFINE l == [loc[w] EXCEPT !.status = "completed"]
  <2>1. "completed" \in Status \ {"absent"}
    BY DEF Status, Terminal
  <2>2. loc[w].step > Len(loc[w].plan) \/ loc[w].step > MaxSteps
    BY <1>6 DEF LastStep
  <2>3. l \in Row /\ l.status # "absent" /\ Covers(l) /\ Finished(l)
    BY <1>2, <2>1, <2>2, StatusFields DEF Covers, Finished
  <2> HIDE DEF l
  <2> QED BY <1>1, <1>6, <2>3, EndKeeps DEF l
<1>7. CASE End(w, [loc[w] EXCEPT !.status = "failed"])
  BY <1>2, <1>5, <1>7
<1>8. CASE End(w, [r EXCEPT !.status = "cancelled"])
  <2> HIDE DEF r
  <2> QED BY <1>3, <1>4, <1>5, <1>8
<1>9. CASE Goto(w, "mark", r)
  <2> HIDE DEF r
  <2> QED BY <1>1, <1>2, <1>3, <1>4, <1>9, GotoKeeps
<1>10. \/ loc[w].step > LastStep(w) /\ End(w, [loc[w] EXCEPT !.status = "completed"])
       \/ End(w, [loc[w] EXCEPT !.status = "failed"])
       \/ End(w, [r EXCEPT !.status = "cancelled"])
       \/ Goto(w, "mark", r)
  BY DEF Check
<1> QED BY <1>6, <1>7, <1>8, <1>9, <1>10

\* What the head of the loop and the tool know of the row.
LEMMA LoopFacts ==
  ASSUME TypeInv, Progress, NEW w \in Workers,
         wpc[w] \in {"check", "mark", "tool", "record", "replan", "saveplan"}
  PROVE  /\ row[wop[w]].status # "completed"
         /\ wpc[w] \notin {"record", "saveplan"} =>
              row[wop[w]].plan = loc[w].plan /\ row[wop[w]].step = loc[w].step
         /\ wpc[w] \in InRun
         /\ wpc[w] # "lock"
BY DEF Progress, ProgressInv, InRun

LEMMA MarkKeeps ==
  ASSUME SingleProcess, TypeInv, LockInv, Progress, NEW w \in Workers, Mark(w)
  PROVE  Progress'
<1> DEFINE q == row[wop[w]]
           r == [q EXCEPT !.step = loc[w].step]
<1>1. wpc[w] = "mark" /\ wpc[w] \in InRun
  BY DEF Mark, InRun
<1>2. q \in Row /\ loc[w] \in Row /\ Covers(q) /\ Covers(loc[w]) /\ Finished(q)
      /\ q.status # "absent" /\ loc[w].status # "absent"
  BY <1>1, RunFacts
<1>3. q.plan = loc[w].plan /\ q.step = loc[w].step /\ q.status # "completed"
  BY <1>1, LoopFacts
<1>4. r = q
  BY <1>2, <1>3 DEF Row
<1>5. /\ wpc' = [wpc EXCEPT ![w] = "tool"]
      /\ loc' = [loc EXCEPT ![w] = loc[w]]
      /\ row' = [row EXCEPT ![wop[w]] = q]
      /\ UNCHANGED <<wop, jobs, clientVars>>
      /\ wpc[w] # "lock"
      /\ "tool" \in InRun
  BY <1>4 DEF Mark, Goto, InRun
<1> HIDE DEF q
<1> QED BY <1>1, <1>2, <1>3, <1>5, RunKeeps

LEMMA ToolKeeps ==
  ASSUME SingleProcess, TypeInv, LockInv, Progress, NEW w \in Workers, Tool(w)
  PROVE  Progress'
<1>1. wpc[w] = "tool" /\ wpc[w] \in InRun /\ UNCHANGED <<wop, rowVars, clientVars>>
  BY DEF Tool, InRun
<1>2. loc[w] \in Row /\ Covers(loc[w]) /\ loc[w].status # "absent"
  BY <1>1, RunFacts
<1>3. Current(w) \in Steps /\ loc[w].step <= Len(loc[w].plan)
  BY <1>1, CurrentOK DEF TypeInv, WorkersOK
<1>4. CASE StepSucceeds(w)
  <2> DEFINE l == [loc[w] EXCEPT !.done = @ \cup {Current(w)}, !.step = @ + 1, !.grant = 0]
  <2>1. loc[w].done \cup {Current(w)} \in SUBSET Steps /\ loc[w].step + 1 \in Nat \ {0}
    BY <1>1, <1>3, BusyOK
  <2>2. l \in Row
    BY <1>2, <2>1, ColumnOK
  <2>3. /\ l.status = loc[w].status
        /\ l.plan = loc[w].plan
        /\ l.step = loc[w].step + 1
        /\ l.done = loc[w].done \cup {Current(w)}
    BY <1>2 DEF Row
  <2>4. loc[w].step \in Nat \ {0} /\ Len(loc[w].plan) \in Nat
    BY <1>1, BusyOK
  <2>5. ASSUME NEW i \in 1..Len(l.plan), i < l.step  PROVE l.plan[i] \in l.done
    <3>1. CASE i = loc[w].step
      BY <2>3, <3>1 DEF Current
    <3>2. CASE i # loc[w].step
      <4>1. i < loc[w].step /\ i \in 1..Len(loc[w].plan)
        BY <2>3, <2>4, <2>5, <3>2
      <4> QED BY <1>2, <2>3, <4>1 DEF Covers
    <3> QED BY <3>1, <3>2
  <2>6. Covers(l)
    BY <2>5 DEF Covers
  <2>7. Goto(w, "record", l)
    BY <1>4 DEF StepSucceeds
  <2> HIDE DEF l
  <2> QED BY <1>1, <1>2, <2>2, <2>3, <2>6, <2>7, GotoKeeps
<1>5. ASSUME NEW l \in Row, End(w, l), l.status \in {"waiting_user", "cancelled", "failed"},
             l.plan = loc[w].plan, l.step = loc[w].step, l.done = loc[w].done
      PROVE  Progress'
  BY <1>1, <1>2, <1>5, EndKeeps DEF Covers, Finished
<1>6. CASE StepWaits(w)
  <2> DEFINE a == [loc[w] EXCEPT !.status = "waiting_user", !.attn = "blocker", !.about = None]
             b == [loc[w] EXCEPT !.status = "waiting_user", !.attn = "approval", !.about = Current(w)]
  <2>1. /\ a \in Row /\ a.status = "waiting_user"
        /\ a.plan = loc[w].plan /\ a.step = loc[w].step /\ a.done = loc[w].done
    BY <1>2 DEF Row, Status, Resumable
  <2>2. /\ b \in Row /\ b.status = "waiting_user"
        /\ b.plan = loc[w].plan /\ b.step = loc[w].step /\ b.done = loc[w].done
    BY <1>2, <1>3 DEF Row, Status, Resumable
  <2>3. End(w, a) \/ End(w, b)
    BY <1>6 DEF StepWaits
  <2> HIDE DEF a, b
  <2> QED BY <1>5, <2>1, <2>2, <2>3
<1>7. CASE StepInterrupted(w)
  <2> DEFINE l == [loc[w] EXCEPT !.status = "cancelled", !.cancel = TRUE]
  <2>1. /\ l \in Row /\ l.status = "cancelled"
        /\ l.plan = loc[w].plan /\ l.step = loc[w].step /\ l.done = loc[w].done
    BY <1>2 DEF Row, Status, Terminal
  <2>2. End(w, l)
    BY <1>7 DEF StepInterrupted
  <2> HIDE DEF l
  <2> QED BY <1>5, <2>1, <2>2
<1>8. ASSUME End(w, [loc[w] EXCEPT !.status = "failed"])  PROVE Progress'
  <2> DEFINE l == [loc[w] EXCEPT !.status = "failed"]
  <2>1. /\ l \in Row /\ l.status = "failed"
        /\ l.plan = loc[w].plan /\ l.step = loc[w].step /\ l.done = loc[w].done
    BY <1>2 DEF Row, Status, Terminal
  <2> HIDE DEF l
  <2> QED BY <1>5, <1>8, <2>1 DEF l
<1>9. CASE StepFails(w)
  <2>1. CASE Goto(w, "replan", loc[w])
    BY <1>1, <1>2, <2>1, GotoKeeps
  <2> QED BY <1>8, <1>9, <2>1 DEF StepFails
<1>10. CASE StepRaises(w)
  BY <1>8, <1>10 DEF StepRaises
<1> QED BY <1>4, <1>6, <1>7, <1>9, <1>10 DEF Tool

LEMMA ReplanKeeps ==
  ASSUME SingleProcess, TypeInv, LockInv, Progress, NEW w \in Workers, Replan(w)
  PROVE  Progress'
<1>1. wpc[w] = "replan" /\ wpc[w] \in InRun /\ UNCHANGED <<wop, rowVars, clientVars>>
  BY DEF Replan, InRun
<1>2. loc[w] \in Row /\ Covers(loc[w]) /\ loc[w].status # "absent"
  BY <1>1, RunFacts
<1>3. ASSUME NEW p \in Plans, Goto(w, "saveplan", [loc[w] EXCEPT !.plan = p, !.step = 1])
      PROVE  Progress'
  <2> DEFINE l == [loc[w] EXCEPT !.plan = p, !.step = 1]
  <2>1. p \in Seq(Steps)
    BY ConstantAssumption
  <2>2. l \in Row /\ l.status = loc[w].status /\ l.step = 1 /\ l.plan = p
    <3> DEFINE q == [loc[w] EXCEPT !.plan = p]
    <3>1. q \in Row /\ q.status = loc[w].status /\ q.plan = p
      BY <1>2, <2>1 DEF Row
    <3>2. l = [q EXCEPT !.step = 1]
      OBVIOUS
    <3>3. 1 \in Nat \ {0}
      OBVIOUS
    <3> HIDE DEF l, q
    <3> QED BY <3>1, <3>2, <3>3 DEF Row
  <2>3. Covers(l)
    BY <2>1, <2>2 DEF Covers
  <2> HIDE DEF l
  <2> QED BY <1>1, <1>2, <1>3, <2>2, <2>3, GotoKeeps DEF l
<1>4. CASE End(w, [loc[w] EXCEPT !.status = "failed"])
  <2> DEFINE l == [loc[w] EXCEPT !.status = "failed"]
  <2>1. /\ l \in Row /\ l.status = "failed"
        /\ l.plan = loc[w].plan /\ l.step = loc[w].step /\ l.done = loc[w].done
    BY <1>2 DEF Row, Status, Terminal
  <2>2. Covers(l) /\ Finished(l)
    BY <1>2, <2>1 DEF Covers, Finished
  <2> HIDE DEF l
  <2> QED BY <1>1, <1>4, <2>1, <2>2, EndKeeps DEF l
<1> QED BY <1>3, <1>4 DEF Replan

\* The saves of part of a row leave its plan, its step and its results consistent.
LEMMA SavesKeep ==
  ASSUME SingleProcess, TypeInv, LockInv, Progress, NEW w \in Workers,
         Record(w) \/ SavePlan(w) \/ Save(w)
  PROVE  Progress'
<1> DEFINE q == row[wop[w]]
           c == WithConfig(q, loc[w])
<1>1. wpc[w] \in InRun /\ wpc[w] # "lock" /\ "check" \in InRun /\ "publish" \in InRun
  BY DEF Record, SavePlan, Save, InRun
<1>2. q \in Row /\ loc[w] \in Row /\ Covers(loc[w]) /\ q.status # "absent"
      /\ loc[w].status # "absent"
  BY <1>1, RunFacts
<1>3. c \in Row /\ c.status = q.status /\ c.plan = q.plan /\ c.done = q.done /\ c.step = q.step
  BY <1>2, WithConfigIsRow, WithConfigFields
<1>4. loc[w].step \in Nat \ {0} /\ loc[w].plan \in Seq(Steps) /\ loc[w].done \in SUBSET Steps
  BY <1>2 DEF Row
<1>5. CASE Record(w)
  <2> DEFINE r == [c EXCEPT !.step = loc[w].step, !.done = loc[w].done]
  <2>1. q.status # "completed"
    BY <1>5, LoopFacts DEF Record
  <2>3. r \in Row /\ r.status = q.status /\ r.plan = q.plan /\ r.step = loc[w].step
        /\ r.done = loc[w].done
    <3> HIDE DEF c
    <3> QED BY <1>3, <1>4 DEF Row
  <2>4. q.plan = loc[w].plan
    BY <1>5 DEF Record, Progress, ProgressInv
  <2>5. Covers(r) /\ Finished(r) /\ r.plan = loc[w].plan
    BY <1>2, <2>1, <2>3, <2>4 DEF Covers, Finished
  <2>6. /\ wpc' = [wpc EXCEPT ![w] = "check"]
        /\ loc' = [loc EXCEPT ![w] = loc[w]]
        /\ row' = [row EXCEPT ![wop[w]] = r]
        /\ UNCHANGED <<wop, jobs, clientVars>>
    BY <1>5 DEF Record, Goto
  <2> HIDE DEF r, q, c
  <2> QED BY <1>1, <1>2, <2>1, <2>3, <2>5, <2>6, RunKeeps DEF q
<1>6. CASE SavePlan(w)
  <2> DEFINE r == [c EXCEPT !.plan = loc[w].plan, !.step = loc[w].step]
  <2>1. q.status # "completed"
    BY <1>6, LoopFacts DEF SavePlan
  <2>2. r \in Row /\ r.status = q.status /\ r.plan = loc[w].plan /\ r.step = loc[w].step
        /\ r.done = q.done
    <3> HIDE DEF c
    <3> QED BY <1>3, <1>4 DEF Row
  <2>3. loc[w].step = 1
    BY <1>6 DEF SavePlan, Progress, ProgressInv
  <2>4. Covers(r) /\ Finished(r)
    BY <1>2, <2>1, <2>2, <2>3 DEF Covers, Finished
  <2>5. /\ wpc' = [wpc EXCEPT ![w] = "check"]
        /\ loc' = [loc EXCEPT ![w] = loc[w]]
        /\ row' = [row EXCEPT ![wop[w]] = r]
        /\ UNCHANGED <<wop, jobs, clientVars>>
    BY <1>6 DEF SavePlan, Goto
  <2> HIDE DEF r, q, c
  <2> QED BY <1>1, <1>2, <2>1, <2>2, <2>4, <2>5, RunKeeps DEF q
<1>7. CASE Save(w)
  <2>1. Finished(loc[w])
    BY <1>7 DEF Save, Progress, ProgressInv
  <2>2. /\ wpc' = [wpc EXCEPT ![w] = "publish"]
        /\ loc' = [loc EXCEPT ![w] = loc[w]]
        /\ row' = [row EXCEPT ![wop[w]] = loc[w]]
        /\ UNCHANGED <<wop, jobs, clientVars>>
    BY <1>7 DEF Save, Goto
  <2> QED BY <1>1, <1>2, <2>1, <2>2, RunKeeps
<1> QED BY <1>5, <1>6, <1>7

LEMMA TakeKeeps ==
  ASSUME TypeInv, Progress, NEW w \in Workers, NEW o \in Ops, Take(w, o)
  PROVE  Progress'
<1> DEFINE to == IF o \in Orphans THEN "orphan" ELSE "lock"
<1>1. /\ jobs[o] > 0
      /\ jobs' = [jobs EXCEPT ![o] = @ - 1]
      /\ wpc' = [wpc EXCEPT ![w] = to]
      /\ wop' = [wop EXCEPT ![w] = o]
      /\ loc' = [loc EXCEPT ![w] = row[o]]
      /\ UNCHANGED <<row, cpc, cop>>
  BY DEF Take, Goto, clientVars
<1>2. /\ jobs \in [Ops -> Nat]
      /\ wpc \in [Workers -> WorkerPC]
      /\ wop \in [Workers -> Ops \cup {None}]
      /\ loc \in [Workers -> Row]
  BY DEF TypeInv, TablesOK, WorkersOK
<1>3. \A p \in Ops : jobs'[p] > 0 => jobs[p] > 0
  BY <1>1, <1>2
<1>4. row[o].status # "absent"
  BY <1>1 DEF Progress, CreatedInv
<1>5. CreatedInv'
  BY <1>1, <1>2, <1>3, <1>4 DEF Progress, CreatedInv
<1>6. ProgressInv'
  BY <1>1, <1>2 DEF Progress, ProgressInv
<1> QED BY <1>5, <1>6 DEF Progress

LEMMA FailOrphanKeeps ==
  ASSUME TypeInv, Progress, NEW w \in Workers, FailOrphan(w)
  PROVE  Progress'
<1> DEFINE o == wop[w]
           r == [loc[w] EXCEPT !.status = "failed"]
<1>1. /\ wpc[w] = "orphan"
      /\ row' = [row EXCEPT ![o] = r]
      /\ wpc' = [wpc EXCEPT ![w] = "idle"]
      /\ wop' = [wop EXCEPT ![w] = None]
      /\ loc' = [loc EXCEPT ![w] = NoRow]
      /\ UNCHANGED <<jobs, cpc, cop>>
  BY DEF FailOrphan, Release, clientVars
<1>2. /\ row \in [Ops -> Row]
      /\ wpc \in [Workers -> WorkerPC]
      /\ wop \in [Workers -> Ops \cup {None}]
      /\ loc \in [Workers -> Row]
  BY DEF TypeInv, TablesOK, WorkersOK
<1>3. o \in Ops /\ loc[w] \in Row /\ Covers(loc[w]) /\ o \in Orphans
  BY <1>1, BusyOK DEF Progress, CreatedInv, ProgressInv
<1>4. r.status = "failed" /\ Covers(r) /\ Finished(r)
  <2>1. "failed" \in Status \ {"absent"}
    BY DEF Status, Terminal
  <2> QED BY <1>3, <2>1, StatusFields DEF Covers, Finished
<1> HIDE DEF r
<1>5. CreatedInv'
  BY <1>1, <1>2, <1>3, <1>4 DEF Progress, CreatedInv
<1>6. ASSUME NEW v \in Workers, wpc'[v] # "idle"
      PROVE  v # w /\ wpc'[v] = wpc[v] /\ loc'[v] = loc[v] /\ wop'[v] = wop[v]
             /\ (wpc[v] # "orphan" => row'[wop[v]] = row[wop[v]])
  <2>1. v # w /\ wpc'[v] = wpc[v] /\ loc'[v] = loc[v] /\ wop'[v] = wop[v]
    BY <1>1, <1>2, <1>6
  <2>2. wpc[v] # "orphan" => wop[v] # o
    BY <1>3, <1>6, <2>1 DEF Progress, CreatedInv
  <2> QED BY <1>1, <1>2, <2>1, <2>2
<1>7. ProgressInv'
  BY <1>1, <1>2, <1>4, <1>6 DEF Progress, ProgressInv
<1> QED BY <1>5, <1>7 DEF Progress

LEMMA PublishKeeps ==
  ASSUME TypeInv, Progress, NEW w \in Workers, Publish(w)
  PROVE  Progress'
<1>1. /\ wpc' = [wpc EXCEPT ![w] = "idle"]
      /\ wop' = [wop EXCEPT ![w] = None]
      /\ loc' = [loc EXCEPT ![w] = NoRow]
      /\ UNCHANGED <<row, jobs, cpc, cop>>
  BY DEF Publish, Release, rowVars, clientVars
<1>2. /\ wpc \in [Workers -> WorkerPC]
      /\ wop \in [Workers -> Ops \cup {None}]
      /\ loc \in [Workers -> Row]
  BY DEF TypeInv, WorkersOK
<1> QED BY <1>1, <1>2 DEF Progress, CreatedInv, ProgressInv

LEMMA CrashKeeps ==
  ASSUME TypeInv, Progress, NEW p \in Procs, Crash(p)
  PROVE  Progress'
<1>1. /\ \A w \in Workers : wpc'[w] # "idle" =>
           wpc'[w] = wpc[w] /\ wop'[w] = wop[w] /\ loc'[w] = loc[w]
      /\ row' = row
  BY DEF Crash
<1>2. \A o \in Ops : jobs'[o] > 0 => jobs[o] > 0
  BY DEF Crash
<1>3. \A c \in Clients : cpc'[c] # "idle" => cpc[c] # "idle" /\ cop'[c] = cop[c]
  BY DEF Crash, clientVars
<1>4. CreatedInv'
  BY <1>1, <1>2, <1>3 DEF Progress, CreatedInv
<1>5. ProgressInv'
  BY <1>1 DEF Progress, ProgressInv
<1> QED BY <1>4, <1>5 DEF Progress

\* What a step of a request handler has to show: it touches the status and the
\* configuration of one existing operation.
LEMMA HandlerKeeps ==
  ASSUME TypeInv, Progress, NEW c \in Clients, NEW o \in Ops, NEW r \in Row,
         NEW to, NEW h, NEW x,
         row' = [row EXCEPT ![o] = r],
         row[o].status # "absent",
         r.status \in {row[o].status, "queued", "cancelling"},
         r.plan = row[o].plan, r.step = row[o].step, r.done = row[o].done,
         jobs' = jobs \/ jobs' = [jobs EXCEPT ![o] = @ + 1],
         UNCHANGED workerVars,
         Handle(c, to, h, x), to = "idle" \/ h = o
  PROVE  Progress'
<1>1. /\ row \in [Ops -> Row]
      /\ jobs \in [Ops -> Nat]
      /\ cpc \in [Clients -> ClientPC]
      /\ cop \in [Clients -> Ops \cup {None}]
      /\ \A d \in Clients : cpc[d] # "idle" => cop[d] \in Ops
      /\ \A w \in Workers : wpc[w] # "idle" => wop[w] \in Ops
  BY DEF TypeInv, TablesOK, ClientsOK, WorkersOK
<1>2. \A p \in Ops : row'[p] = IF p = o THEN r ELSE row[p]
  BY <1>1
<1>3. \A p \in Ops : p # o => jobs'[p] = jobs[p]
  BY <1>1
<1>4. cpc' = [cpc EXCEPT ![c] = to] /\ cop' = [cop EXCEPT ![c] = h]
      /\ UNCHANGED <<wpc, wop, loc>>
  BY DEF Handle, workerVars
<1>5. CreatedInv'
  <2>1. \A p \in Ops : row[p].status # "absent" => row'[p].status # "absent"
    BY <1>2
  <2>2. \A p \in Ops : jobs'[p] > 0 => row'[p].status # "absent"
    BY <1>2, <1>3 DEF Progress, CreatedInv
  <2>3. \A d \in Clients : cpc'[d] # "idle" => row'[cop'[d]].status # "absent"
    BY <1>1, <1>2, <1>4, <2>1 DEF Progress, CreatedInv
  <2>4. \A w \in Workers : wpc'[w] # "idle" => row'[wop'[w]].status # "absent"
    BY <1>1, <1>4, <2>1 DEF Progress, CreatedInv
  <2> QED BY <1>4, <2>2, <2>3, <2>4 DEF Progress, CreatedInv
<1>6. ProgressInv'
  <2>1. \A p \in Ops : /\ row'[p].plan = row[p].plan
                       /\ row'[p].step = row[p].step
                       /\ row'[p].done = row[p].done
                       /\ row'[p].status = "completed" => row[p].status = "completed"
    BY <1>2
  <2>2. \A p \in Ops : Covers(row'[p]) /\ Finished(row'[p])
    BY <2>1 DEF Progress, ProgressInv, Covers, Finished
  <2>3. ASSUME NEW w \in Workers
        PROVE  /\ wpc'[w] # "idle" => Covers(loc'[w])
               /\ wpc'[w] \in {"start", "check", "mark", "tool", "replan"} =>
                    row'[wop'[w]].plan = loc'[w].plan /\ row'[wop'[w]].step = loc'[w].step
               /\ wpc'[w] \in {"check", "mark", "tool", "record", "replan", "saveplan"} =>
                    row'[wop'[w]].status # "completed"
               /\ wpc'[w] = "record" => row'[wop'[w]].plan = loc'[w].plan
               /\ wpc'[w] = "saveplan" => loc'[w].step = 1
               /\ wpc'[w] = "save" => Finished(loc'[w])
    BY <1>1, <1>4, <2>1 DEF Progress, ProgressInv
  <2> QED BY <2>2, <2>3 DEF ProgressInv
<1> QED BY <1>5, <1>6 DEF Progress

\* Nothing works on an operation that has not been created.
LEMMA CreateKeeps ==
  ASSUME TypeInv, Progress, NEW c \in Clients, NEW o \in Ops, Create(c, o)
  PROVE  Progress'
<1>1. PICK p \in Plans : /\ row' = [row EXCEPT ![o] = NewRow(p)]
                         /\ Handle(c, "submit", o, NewRow(p))
                         /\ row[o].status = "absent"
                         /\ UNCHANGED <<jobs, wpc, wop, loc>>
  BY DEF Create, workerVars
<1>2. p \in Seq(Steps)
  BY ConstantAssumption
<1>3. NewRow(p).status = "queued" /\ NewRow(p).step = 1
  BY DEF NewRow, NoRow
<1>4. Covers(NewRow(p)) /\ Finished(NewRow(p))
  <2>1. NewRow(p).plan = p
    BY DEF NewRow, NoRow
  <2> QED BY <1>2, <1>3, <2>1 DEF Covers, Finished
<1>5. /\ row \in [Ops -> Row]
      /\ cpc \in [Clients -> ClientPC]
      /\ cop \in [Clients -> Ops \cup {None}]
      /\ \A d \in Clients : cpc[d] # "idle" => cop[d] \in Ops
      /\ \A w \in Workers : wpc[w] # "idle" => wop[w] \in Ops
  BY DEF TypeInv, TablesOK, ClientsOK, WorkersOK
<1>6. \A q \in Ops : row'[q] = IF q = o THEN NewRow(p) ELSE row[q]
  BY <1>1, <1>5
<1>7. CreatedInv'
  <2>1. \A d \in Clients : cpc'[d] # "idle" => row'[cop'[d]].status # "absent"
    BY <1>1, <1>3, <1>5, <1>6 DEF Handle, Progress, CreatedInv
  <2>2. \A w \in Workers : wpc'[w] # "idle" => row'[wop'[w]].status # "absent"
    BY <1>1, <1>3, <1>5, <1>6 DEF Progress, CreatedInv
  <2> QED BY <1>1, <1>3, <1>6, <2>1, <2>2 DEF Progress, CreatedInv
<1>8. \A w \in Workers : wpc[w] # "idle" => wop[w] # o
  BY <1>1 DEF Progress, CreatedInv
<1>9. ProgressInv'
  <2>1. \A w \in Workers : wpc[w] # "idle" => row'[wop'[w]] = row[wop[w]]
    BY <1>1, <1>5, <1>6, <1>8
  <2> QED BY <1>1, <1>4, <1>6, <2>1 DEF Progress, ProgressInv
<1> QED BY <1>7, <1>9 DEF Progress

LEMMA ClientKeeps ==
  ASSUME TypeInv, Progress, NEW c \in Clients, ClientStep(c)
  PROVE  Progress'
<1>0. row \in [Ops -> Row]
  BY DEF TypeInv, TablesOK
<1>1. \A o \in Ops : row = [row EXCEPT ![o] = row[o]] /\ row[o] \in Row
  BY <1>0
<1>2. ASSUME cpc[c] # "idle"
      PROVE  cop[c] \in Ops /\ copy[c] \in Row /\ row[cop[c]] \in Row /\ row[cop[c]].status # "absent"
  BY <1>1, <1>2 DEF TypeInv, ClientsOK, Progress, CreatedInv
<1>3. ASSUME NEW o \in Ops, Create(c, o)  PROVE Progress'
  BY <1>3, CreateKeeps
<1>4. ASSUME NEW o \in Ops, CancelRead(c, o)  PROVE Progress'
  <2>1. Handle(c, "cancel", o, NoRow) /\ UNCHANGED <<row, jobs, workerVars>> /\ row[o].status # "absent"
    BY <1>4 DEF CancelRead, rowVars
  <2> QED BY <1>1, <2>1, HandlerKeeps
<1>5. ASSUME NEW o \in Ops, ResumeRead(c, o)  PROVE Progress'
  <2>1. Handle(c, "resume", o, row[o]) /\ UNCHANGED <<row, jobs, workerVars>> /\ row[o].status # "absent"
    BY <1>5 DEF ResumeRead, rowVars, Resumable
  <2> QED BY <1>1, <2>1, HandlerKeeps
<1>6. ASSUME Submit(c)  PROVE Progress'
  <2> DEFINE to == IF cpc[c] = "submit" THEN "queueconfig" ELSE "requeueconfig"
  <2>1. /\ cpc[c] # "idle"
        /\ Handle(c, to, cop[c], copy[c])
        /\ jobs' = [jobs EXCEPT ![cop[c]] = @ + 1]
        /\ UNCHANGED <<row, workerVars>>
    BY <1>6 DEF Submit
  <2> HIDE DEF to
  <2> QED BY <1>1, <1>2, <2>1, HandlerKeeps
<1>7. ASSUME cpc[c] # "idle", NEW b \in Row, NEW to, NEW h, NEW x, Handle(c, to, h, x),
             to = "idle" \/ h = cop[c],
             row' = [row EXCEPT ![cop[c]] = WithConfig(@, b)], UNCHANGED <<jobs, workerVars>>
      PROVE  Progress'
  BY <1>2, <1>7, WithConfigIsRow, WithConfigFields, HandlerKeeps
<1>8. ASSUME SaveQueueConfig(c)  PROVE Progress'
  <2>1. /\ cpc[c] # "idle"
        /\ row' = [row EXCEPT ![cop[c]] = WithConfig(@, copy[c])]
        /\ UNCHANGED <<jobs, workerVars>>
        /\ \/ Handle(c, "linkread", cop[c], copy[c])
           \/ Handle(c, "idle", None, NoRow)
    BY <1>8 DEF SaveQueueConfig, Answer
  <2> QED BY <1>2, <1>7, <2>1
<1>9. ASSUME LinkRead(c)  PROVE Progress'
  <2>1. cpc[c] # "idle" /\ Handle(c, "linksave", cop[c], row[cop[c]])
        /\ UNCHANGED <<row, jobs, workerVars>>
    BY <1>9 DEF LinkRead, rowVars
  <2> QED BY <1>1, <1>2, <2>1, HandlerKeeps
<1>10. ASSUME LinkSave(c)  PROVE Progress'
  <2> DEFINE b == [copy[c] EXCEPT !.link = TRUE]
  <2>1. /\ cpc[c] # "idle"
        /\ row' = [row EXCEPT ![cop[c]] = WithConfig(@, b)]
        /\ UNCHANGED <<jobs, workerVars>>
        /\ Handle(c, "idle", None, NoRow)
    BY <1>10 DEF LinkSave, Answer
  <2>2. b \in Row
    BY <1>2, <2>1, ColumnOK
  <2> HIDE DEF b
  <2> QED BY <1>7, <2>1, <2>2
<1>11. ASSUME CancelSave(c)  PROVE Progress'
  <2> DEFINE q == row[cop[c]]
             r == [q EXCEPT !.cancel = TRUE, !.status = "cancelling"]
  <2>1. /\ cpc[c] # "idle"
        /\ row' = [row EXCEPT ![cop[c]] = r]
        /\ UNCHANGED <<jobs, workerVars>>
        /\ Handle(c, "idle", None, NoRow)
    BY <1>0, <1>2, <1>11 DEF CancelSave, Answer
  <2>2. q \in Row /\ cop[c] \in Ops /\ q.status # "absent"
    BY <1>2, <2>1
  <2>3. r \in Row /\ r.status = "cancelling" /\ r.plan = q.plan /\ r.step = q.step /\ r.done = q.done
    BY <2>2 DEF Row, Status
  <2> HIDE DEF r
  <2> QED BY <2>1, <2>2, <2>3, HandlerKeeps
<1>12. ASSUME ResumeSave(c)  PROVE Progress'
  <2> DEFINE q == row[cop[c]]
             b == Resumed(copy[c])
             d == WithConfig(q, b)
             r == [d EXCEPT !.status = b.status, !.cancel = b.cancel]
  <2>1. /\ cpc[c] # "idle"
        /\ row' = [row EXCEPT ![cop[c]] = r]
        /\ UNCHANGED <<jobs, workerVars>>
        /\ Handle(c, "resubmit", cop[c], b)
    BY <1>12 DEF ResumeSave
  <2>2. q \in Row /\ cop[c] \in Ops /\ q.status # "absent" /\ copy[c] \in Row
    BY <1>2, <2>1
  <2>3. b \in Row /\ b.status = "queued"
    BY <2>2, ResumedIsRow DEF Resumed, Row
  <2>4. d \in Row /\ d.plan = q.plan /\ d.step = q.step /\ d.done = q.done
    BY <2>2, <2>3, WithConfigIsRow, WithConfigFields
  <2>5. b.cancel \in BOOLEAN /\ b.status \in Status
    BY <2>3 DEF Row
  <2>6. r \in Row /\ r.status = "queued" /\ r.plan = q.plan /\ r.step = q.step /\ r.done = q.done
    <3> HIDE DEF d, b
    <3> QED BY <2>3, <2>4, <2>5 DEF Row
  <2> HIDE DEF r, b
  <2> QED BY <2>1, <2>2, <2>6, HandlerKeeps
<1> QED BY <1>3, <1>4, <1>5, <1>6, <1>8, <1>9, <1>10, <1>11, <1>12 DEF ClientStep

LEMMA ProgressStep ==
  ASSUME SingleProcess, TypeInv, LockInv, Progress, [Next]_vars
  PROVE  Progress'
<1>1. CASE UNCHANGED vars
  BY <1>1 DEF Progress, CreatedInv, ProgressInv, Covers, Finished, vars, rowVars, clientVars,
              workerVars
<1>2. ASSUME NEW w \in Workers, RunStep(w)  PROVE Progress'
  BY <1>2, FailOrphanKeeps, AcquireKeeps, StartKeeps, CheckKeeps, MarkKeeps, ToolKeeps,
     ReplanKeeps, SavesKeep, PublishKeeps DEF RunStep
<1> QED BY <1>1, <1>2, ClientKeeps, TakeKeeps, CrashKeeps DEF Next, WorkerStep

LEMMA InitProgress == Init => Progress
BY DEF Init, Progress, CreatedInv, ProgressInv, Covers, Finished, NoRow

LEMMA ProgressInvariant ==
  ASSUME SingleProcess
  PROVE  Spec => [](TypeInv /\ LockInv /\ Progress)
<1>1. TypeInv /\ LockInv /\ Progress /\ [Next]_vars => Progress'
  BY ProgressStep
<1> QED BY <1>1, InitProgress, LockInvariant, PTL DEF Spec

\* An operation reported completed has performed and verified every step of the
\* plan it ended with, for any plans, cancellations, resumptions, replans and
\* crashes, when the workers live in one process.
THEOREM CompletionCoversPlan ==
  ASSUME SingleProcess
  PROVE  Spec => []CompletedCoversPlan
<1>1. TypeInv /\ Progress => CompletedCoversPlan
  <2> SUFFICES ASSUME TypeInv, Progress, NEW o \in Ops, row[o].status = "completed",
                      NEW i \in 1..Len(row[o].plan), i <= MaxSteps
               PROVE  row[o].plan[i] \in row[o].done
    BY DEF CompletedCoversPlan
  <2>1. Covers(row[o]) /\ (row[o].step > Len(row[o].plan) \/ row[o].step > MaxSteps)
    BY DEF Progress, ProgressInv, Finished
  <2>2. row[o].step \in Nat /\ row[o].plan \in Seq(Steps)
    BY DEF TypeInv, TablesOK, Row
  <2> QED BY <2>1, <2>2, ConstantAssumption DEF Covers
<1> QED BY <1>1, ProgressInvariant, PTL

\* While a tool runs, the row's plan and current_step are those of the step being
\* performed, when the workers live in one process.
THEOREM ShownStepCorrect ==
  ASSUME SingleProcess
  PROVE  Spec => []ShownStepIsPerformed
<1>1. Progress => ShownStepIsPerformed
  BY DEF Progress, ProgressInv, ShownStepIsPerformed
<1> QED BY <1>1, ProgressInvariant, PTL
-----------------------------------------------------------------------------
(***************************************************************************)
(* Approvals.  A grant is a number, carried from copy to copy: a run may    *)
(* save the one it started with over another, and the Browser Agent one it  *)
(* has read.  Wherever it is found, the user was asked under that number.   *)
(***************************************************************************)
Given(n, answers) == n = 0 \/ \E b \in answers : b[1] = n

GivenInv ==
  /\ \A o \in Ops : Given(row[o].grant, approved[o])
  /\ \A w \in Workers : wpc[w] # "idle" => Given(loc[w].grant, approved[wop[w]])
  /\ \A c \in Clients : cpc[c] # "idle" => Given(copy[c].grant, approved[cop[c]])

\* What a step has to show: approvals are only added, and what it stores was given.
LEMMA GivenKept ==
  ASSUME TypeInv, GivenInv,
         \A o \in Ops : approved[o] \subseteq approved'[o],
         \A o \in Ops : row'[o] = row[o] \/ Given(row'[o].grant, approved'[o]),
         \A w \in Workers :
           \/ wpc[w] # "idle" /\ wop'[w] = wop[w] /\ loc'[w] = loc[w]
           \/ wpc'[w] = "idle"
           \/ Given(loc'[w].grant, approved'[wop'[w]]),
         \A c \in Clients :
           \/ cpc[c] # "idle" /\ cop'[c] = cop[c] /\ copy'[c] = copy[c]
           \/ cpc'[c] = "idle"
           \/ Given(copy'[c].grant, approved'[cop'[c]])
  PROVE  GivenInv'
<1>1. ASSUME NEW o \in Ops, NEW n, Given(n, approved[o])  PROVE Given(n, approved'[o])
  BY <1>1 DEF Given
<1>2. \A o \in Ops : Given(row'[o].grant, approved'[o])
  BY <1>1 DEF GivenInv
<1>3. ASSUME NEW w \in Workers, wpc'[w] # "idle"
      PROVE  Given(loc'[w].grant, approved'[wop'[w]])
  <2>1. CASE wpc[w] # "idle" /\ wop'[w] = wop[w] /\ loc'[w] = loc[w]
    BY <1>1, <2>1 DEF GivenInv, TypeInv, WorkersOK
  <2> QED BY <1>3, <2>1
<1>4. ASSUME NEW c \in Clients, cpc'[c] # "idle"
      PROVE  Given(copy'[c].grant, approved'[cop'[c]])
  <2>1. CASE cpc[c] # "idle" /\ cop'[c] = cop[c] /\ copy'[c] = copy[c]
    BY <1>1, <2>1 DEF GivenInv, TypeInv, ClientsOK
  <2> QED BY <1>4, <2>1
<1> QED BY <1>2, <1>3, <1>4 DEF GivenInv

\* A step of a worker that stores a grant of its copy or of the row, and keeps one of
\* them, or none, in its copy.
LEMMA GivenRun ==
  ASSUME TypeInv, GivenInv, NEW w \in Workers, wpc[w] # "idle",
         UNCHANGED clientVars, UNCHANGED approved,
         \A o \in Ops : o # wop[w] => row'[o] = row[o],
         row'[wop[w]].grant \in {row[wop[w]].grant, loc[w].grant},
         \A v \in Workers : v # w => UNCHANGED <<wpc[v], wop[v], loc[v]>>,
         \/ wpc'[w] = "idle"
         \/ wop'[w] = wop[w] /\ loc'[w].grant \in {0, row[wop[w]].grant, loc[w].grant}
  PROVE  GivenInv'
<1>1. wop[w] \in Ops
  BY BusyOK
<1>2. Given(row[wop[w]].grant, approved[wop[w]]) /\ Given(loc[w].grant, approved[wop[w]])
  BY <1>1 DEF GivenInv
<1>3. \A o \in Ops : row'[o] = row[o] \/ Given(row'[o].grant, approved'[o])
  BY <1>2
<1>4. wpc'[w] = "idle" \/ Given(loc'[w].grant, approved'[wop'[w]])
  BY <1>2 DEF Given
<1>5. \A v \in Workers : \/ wpc[v] # "idle" /\ wop'[v] = wop[v] /\ loc'[v] = loc[v]
                         \/ wpc'[v] = "idle"
                         \/ Given(loc'[v].grant, approved'[wop'[v]])
  BY <1>4
<1>6. \A c \in Clients : \/ cpc[c] # "idle" /\ cop'[c] = cop[c] /\ copy'[c] = copy[c]
                         \/ cpc'[c] = "idle"
  BY DEF clientVars
<1> QED BY <1>3, <1>5, <1>6, GivenKept

LEMMA GivenWorker ==
  ASSUME TypeInv, GivenInv, NEW w \in Workers, RunStep(w)
  PROVE  GivenInv'
<1> DEFINE q == row[wop[w]]
<1>1. wpc[w] # "idle" /\ UNCHANGED clientVars /\ UNCHANGED approved
  BY DEF RunStep, FailOrphan, Acquire, CancelBeforeStart, Start, Check, Mark, Tool, Record, Replan,
         SavePlan, Save, Publish, StepSucceeds, StepWaits, StepInterrupted, StepFails, StepRaises,
         MayPerform, Perform, history
<1>2. /\ wop[w] \in Ops /\ loc[w] \in Row /\ q \in Row
      /\ row \in [Ops -> Row] /\ loc \in [Workers -> Row]
      /\ wpc \in [Workers -> WorkerPC] /\ wop \in [Workers -> Ops \cup {None}]
  BY <1>1, BusyOK DEF TypeInv, TablesOK, WorkersOK
<1>3. ASSUME NEW to, NEW l, Goto(w, to, l), UNCHANGED wop, l.grant \in {0, q.grant, loc[w].grant},
             NEW r, row' = row \/ row' = [row EXCEPT ![wop[w]] = r], r.grant \in {q.grant, loc[w].grant}
      PROVE  GivenInv'
  <2>1. /\ \A o \in Ops : o # wop[w] => row'[o] = row[o]
        /\ row'[wop[w]].grant \in {q.grant, loc[w].grant}
    BY <1>2, <1>3
  <2>2. /\ \A v \in Workers : v # w => UNCHANGED <<wpc[v], wop[v], loc[v]>>
        /\ wop'[w] = wop[w] /\ loc'[w].grant \in {0, q.grant, loc[w].grant}
    BY <1>2, <1>3 DEF Goto
  <2> QED BY <1>1, <2>1, <2>2, GivenRun
<1>4. ASSUME Release(w), NEW r, row' = row \/ row' = [row EXCEPT ![wop[w]] = r],
             r.grant \in {q.grant, loc[w].grant}
      PROVE  GivenInv'
  <2>1. /\ \A o \in Ops : o # wop[w] => row'[o] = row[o]
        /\ row'[wop[w]].grant \in {q.grant, loc[w].grant}
    BY <1>2, <1>4
  <2>2. /\ \A v \in Workers : v # w => UNCHANGED <<wpc[v], wop[v], loc[v]>>
        /\ wpc'[w] = "idle"
    BY <1>2, <1>4 DEF Release
  <2> QED BY <1>1, <2>1, <2>2, GivenRun
<1>5. CASE FailOrphan(w)
  <2>1. [loc[w] EXCEPT !.status = "failed"].grant = loc[w].grant
    BY <1>2 DEF Row
  <2> QED BY <1>4, <1>5, <2>1 DEF FailOrphan
<1>6. CASE Acquire(w)
  <2>1. \A d : [q EXCEPT !.done = d].grant = q.grant
    BY <1>2 DEF Row
  <2> QED BY <1>3, <1>6, <2>1 DEF Acquire, rowVars
<1>7. CASE CancelBeforeStart(w)
  <2>1. row' = [row EXCEPT ![wop[w]] = [q EXCEPT !.status = "cancelled"]]
    BY <1>2, <1>7 DEF CancelBeforeStart
  <2>2. /\ [q EXCEPT !.status = "cancelled"].grant = q.grant
        /\ [loc[w] EXCEPT !.status = "cancelled"].grant = loc[w].grant
    BY <1>2 DEF Row
  <2> QED BY <1>3, <1>7, <2>1, <2>2 DEF CancelBeforeStart
<1>8. CASE Start(w)
  <2>1. row' = [row EXCEPT ![wop[w]] = [q EXCEPT !.status = "running"]]
    BY <1>2, <1>8 DEF Start
  <2>2. /\ [q EXCEPT !.status = "running"].grant = q.grant
        /\ [loc[w] EXCEPT !.status = "running"].grant = loc[w].grant
    BY <1>2 DEF Row
  <2> QED BY <1>3, <1>8, <2>1, <2>2 DEF Start
<1>9. CASE Check(w)
  <2>1. /\ \A s : [loc[w] EXCEPT !.status = s].grant = loc[w].grant
        /\ Refreshed(w).grant = loc[w].grant
        /\ \A s : [Refreshed(w) EXCEPT !.status = s].grant = loc[w].grant
    BY <1>2 DEF Refreshed, Row
  <2>2. row' = row /\ UNCHANGED wop /\ q.grant \in {q.grant, loc[w].grant}
    BY <1>9 DEF Check, rowVars
  <2>3. \E to, l : Goto(w, to, l) /\ l.grant = loc[w].grant
    BY <1>9, <2>1 DEF Check, End
  <2> QED BY <1>3, <2>2, <2>3
<1>10. CASE Mark(w)
  <2>1. row' = [row EXCEPT ![wop[w]] = [q EXCEPT !.step = loc[w].step]]
    BY <1>2, <1>10 DEF Mark
  <2>2. [q EXCEPT !.step = loc[w].step].grant = q.grant
    BY <1>2 DEF Row
  <2> QED BY <1>3, <1>10, <2>1, <2>2 DEF Mark
<1>11. CASE Tool(w)
  <2>1. row' = row /\ UNCHANGED wop /\ q.grant \in {q.grant, loc[w].grant}
    BY <1>11 DEF Tool, rowVars
  <2>2. /\ [loc[w] EXCEPT !.done = @ \cup {Current(w)}, !.step = @ + 1, !.grant = 0].grant = 0
        /\ [loc[w] EXCEPT !.status = "waiting_user", !.attn = "blocker", !.about = None].grant = loc[w].grant
        /\ [loc[w] EXCEPT !.status = "waiting_user", !.attn = "approval", !.about = Current(w)].grant
             = loc[w].grant
        /\ [loc[w] EXCEPT !.status = "cancelled", !.cancel = TRUE].grant = loc[w].grant
        /\ [loc[w] EXCEPT !.status = "failed"].grant = loc[w].grant
    BY <1>2 DEF Row
  <2>3. \E to, l : Goto(w, to, l) /\ l.grant \in {0, loc[w].grant}
    BY <1>11, <2>2 DEF Tool, StepSucceeds, StepWaits, StepInterrupted, StepFails, StepRaises, End
  <2> QED BY <1>3, <2>1, <2>3
<1>12. CASE Record(w)
  <2> DEFINE r == [WithConfig(q, loc[w]) EXCEPT !.step = loc[w].step, !.done = loc[w].done]
  <2>1. r.grant = loc[w].grant
    BY <1>2 DEF WithConfig, Row
  <2> QED BY <1>3, <1>12, <2>1 DEF Record
<1>13. CASE Replan(w)
  <2>1. row' = row /\ UNCHANGED wop /\ q.grant \in {q.grant, loc[w].grant}
    BY <1>13 DEF Replan, rowVars
  <2>2. /\ \A p : [loc[w] EXCEPT !.plan = p, !.step = 1].grant = loc[w].grant
        /\ [loc[w] EXCEPT !.status = "failed"].grant = loc[w].grant
    BY <1>2 DEF Row
  <2>3. \E to, l : Goto(w, to, l) /\ l.grant = loc[w].grant
    BY <1>13, <2>2 DEF Replan, End
  <2> QED BY <1>3, <2>1, <2>3
<1>14. CASE SavePlan(w)
  <2> DEFINE r == [WithConfig(q, loc[w]) EXCEPT !.plan = loc[w].plan, !.step = loc[w].step]
  <2>1. r.grant = loc[w].grant
    BY <1>2 DEF WithConfig, Row
  <2> QED BY <1>3, <1>14, <2>1 DEF SavePlan
<1>15. CASE Save(w)
  BY <1>3, <1>15 DEF Save
<1>16. CASE Publish(w)
  BY <1>4, <1>16 DEF Publish, rowVars
<1> QED BY <1>5, <1>6, <1>7, <1>8, <1>9, <1>10, <1>11, <1>12, <1>13, <1>14, <1>15, <1>16 DEF RunStep

LEMMA GivenTakeCrash ==
  ASSUME TypeInv, GivenInv,
         \/ \E w \in Workers, o \in Ops : Take(w, o)
         \/ \E p \in Procs : Crash(p)
  PROVE  GivenInv'
<1>1. ASSUME NEW w \in Workers, NEW o \in Ops, Take(w, o)  PROVE GivenInv'
  <2>1. /\ row' = row /\ UNCHANGED clientVars /\ UNCHANGED approved
        /\ wop'[w] = o /\ loc'[w] = row[o]
        /\ \A v \in Workers : v # w => UNCHANGED <<wpc[v], wop[v], loc[v]>>
    BY <1>1 DEF Take, Goto, history, TypeInv, WorkersOK
  <2> QED BY <2>1 DEF GivenInv, clientVars
<1>2. ASSUME NEW p \in Procs, Crash(p)  PROVE GivenInv'
  <2>1. /\ row' = row /\ UNCHANGED approved
        /\ \A w \in Workers : wpc'[w] = "idle" \/ UNCHANGED <<wpc[w], wop[w], loc[w]>>
        /\ \A c \in Clients : cpc'[c] = "idle" \/ UNCHANGED <<cpc[c], cop[c], copy[c]>>
    BY <1>2 DEF Crash, history, clientVars
  <2> QED BY <2>1 DEF GivenInv
<1> QED BY <1>1, <1>2

\* A handler stores a grant of its copy, and resume() the number it was answered for.
LEMMA GivenClient ==
  ASSUME TypeInv, GivenInv, NEW c \in Clients, ClientStep(c)
  PROVE  GivenInv'
<1> DEFINE o == cop[c]
<1>1. /\ row \in [Ops -> Row] /\ copy \in [Clients -> Row] /\ cpc \in [Clients -> ClientPC]
      /\ cop \in [Clients -> Ops \cup {None}] /\ approved \in [Ops -> SUBSET (Nat \X (Steps \cup {None}))]
  BY DEF TypeInv, TablesOK, ClientsOK, HistoryOK
<1>2. cpc[c] # "idle" => o \in Ops /\ copy[c] \in Row /\ Given(copy[c].grant, approved[o])
  BY DEF TypeInv, ClientsOK, GivenInv
<1>3. ASSUME NEW p \in Ops, NEW r, row' = row \/ row' = [row EXCEPT ![p] = r],
             \A x \in Ops : approved[x] \subseteq approved'[x],
             Given(r.grant, approved'[p]) \/ row' = row,
             NEW to, NEW h, NEW l, Handle(c, to, h, l), UNCHANGED workerVars,
             to = "idle" \/ (h \in Ops /\ Given(l.grant, approved'[h]))
      PROVE  GivenInv'
  <2>1. \A x \in Ops : row'[x] = row[x] \/ Given(row'[x].grant, approved'[x])
    BY <1>1, <1>3
  <2>2. \A d \in Clients : d # c => UNCHANGED <<cpc[d], cop[d], copy[d]>>
    BY <1>1, <1>3 DEF Handle
  <2>3. cpc'[c] = to /\ cop'[c] = h /\ copy'[c] = l
    BY <1>1, <1>3 DEF Handle
  <2>4. \A d \in Clients :
           \/ cpc[d] # "idle" /\ cop'[d] = cop[d] /\ copy'[d] = copy[d]
           \/ cpc'[d] = "idle"
           \/ Given(copy'[d].grant, approved'[cop'[d]])
    BY <1>3, <2>2, <2>3
  <2>5. \A w \in Workers :
           \/ wpc[w] # "idle" /\ wop'[w] = wop[w] /\ loc'[w] = loc[w]
           \/ wpc'[w] = "idle"
    BY <1>3 DEF workerVars
  <2> QED BY <1>3, <2>1, <2>4, <2>5, GivenKept
<1>4. NoRow.grant = 0 /\ \A n : Given(0, n)
  BY DEF NoRow, Given
<1>5. ASSUME NEW p \in Ops, Create(c, p)  PROVE GivenInv'
  <2>1. PICK q \in Plans : /\ row' = [row EXCEPT ![p] = NewRow(q)]
                           /\ Handle(c, "submit", p, NewRow(q))
    BY <1>5 DEF Create
  <2>2. NewRow(q).grant = 0
    BY DEF NewRow, NoRow
  <2> QED BY <1>3, <1>4, <1>5, <2>1, <2>2 DEF Create, history
<1>6. CASE Submit(c)
  <2>1. cpc[c] # "idle" /\ row' = row /\ UNCHANGED approved /\ UNCHANGED workerVars
    BY <1>6 DEF Submit, history
  <2>2. \E to : Handle(c, to, o, copy[c])
    BY <1>6 DEF Submit
  <2> QED BY <1>2, <1>3, <2>1, <2>2
<1>7. CASE SaveQueueConfig(c)
  <2>1. cpc[c] # "idle" /\ UNCHANGED approved /\ UNCHANGED workerVars
    BY <1>7 DEF SaveQueueConfig, history
  <2>2. WithConfig(row[o], copy[c]).grant = copy[c].grant
    BY <1>1, <1>2, <2>1 DEF WithConfig, Row
  <2>3. row' = [row EXCEPT ![o] = WithConfig(row[o], copy[c])]
    BY <1>1, <1>7 DEF SaveQueueConfig
  <2>4. Handle(c, "linkread", o, copy[c]) \/ Handle(c, "idle", None, NoRow)
    BY <1>7 DEF SaveQueueConfig, Answer
  <2> QED BY <1>2, <1>3, <2>1, <2>2, <2>3, <2>4
<1>8. CASE LinkRead(c)
  <2>1. /\ cpc[c] # "idle" /\ row' = row /\ UNCHANGED approved /\ UNCHANGED workerVars
        /\ Handle(c, "linksave", o, row[o])
    BY <1>8 DEF LinkRead, history, rowVars
  <2>2. Given(row[o].grant, approved[o])
    BY <1>2, <2>1 DEF GivenInv
  <2> QED BY <1>2, <1>3, <2>1, <2>2
<1>9. CASE LinkSave(c)
  <2> DEFINE r == WithConfig(row[o], [copy[c] EXCEPT !.link = TRUE])
  <2>1. cpc[c] # "idle" /\ UNCHANGED approved /\ UNCHANGED workerVars /\ Handle(c, "idle", None, NoRow)
    BY <1>9 DEF LinkSave, history, Answer
  <2>2. r.grant = copy[c].grant
    BY <1>1, <1>2, <2>1 DEF WithConfig, Row
  <2>3. row' = [row EXCEPT ![o] = r]
    BY <1>1, <1>9 DEF LinkSave
  <2> QED BY <1>2, <1>3, <2>1, <2>2, <2>3
<1>10. ASSUME NEW p \in Ops, CancelRead(c, p)  PROVE GivenInv'
  <2>1. row' = row /\ UNCHANGED approved /\ UNCHANGED workerVars /\ Handle(c, "cancel", p, NoRow)
    BY <1>10 DEF CancelRead, history, rowVars
  <2> QED BY <1>3, <1>4, <2>1
<1>11. CASE CancelSave(c)
  <2> DEFINE r == [row[o] EXCEPT !.cancel = TRUE, !.status = "cancelling"]
  <2>1. cpc[c] # "idle" /\ UNCHANGED approved /\ UNCHANGED workerVars /\ Handle(c, "idle", None, NoRow)
    BY <1>11 DEF CancelSave, Answer
  <2>2. r.grant = row[o].grant /\ Given(row[o].grant, approved[o])
    BY <1>1, <1>2, <2>1 DEF Row, GivenInv
  <2>3. row' = [row EXCEPT ![o] = r]
    BY <1>1, <1>2, <1>11, <2>1 DEF CancelSave
  <2> QED BY <1>2, <1>3, <2>1, <2>2, <2>3
<1>12. ASSUME NEW p \in Ops, ResumeRead(c, p)  PROVE GivenInv'
  <2>1. row' = row /\ UNCHANGED approved /\ UNCHANGED workerVars /\ Handle(c, "resume", p, row[p])
    BY <1>12 DEF ResumeRead, history, rowVars
  <2>2. Given(row[p].grant, approved[p])
    BY DEF GivenInv
  <2> QED BY <1>3, <2>1, <2>2
<1>13. CASE ResumeSave(c)
  <2> DEFINE l == Resumed(copy[c])
             d == WithConfig(row[o], l)
             r == [d EXCEPT !.status = l.status, !.cancel = l.cancel]
  <2>1. /\ cpc[c] # "idle" /\ UNCHANGED workerVars /\ Handle(c, "resubmit", o, l)
        /\ row' = [row EXCEPT ![o] = r]
    BY <1>13 DEF ResumeSave
  <2>2. l \in Row /\ l.grant = IF copy[c].attn = "approval" THEN copy[c].step ELSE copy[c].grant
    BY <1>2, <2>1, ResumedIsRow DEF Resumed, Row
  <2>3. /\ \A x \in Ops : approved[x] \subseteq approved'[x]
        /\ copy[c].attn = "approval" => <<copy[c].step, copy[c].about>> \in approved'[o]
    BY <1>1, <1>2, <1>13, <2>1 DEF ResumeSave
  <2> HIDE DEF l
  <2>4. Given(l.grant, approved'[o])
    BY <1>2, <2>1, <2>2, <2>3 DEF Given
  <2>5. d.grant = l.grant /\ d \in Row
    BY <1>1, <1>2, <2>1, <2>2, WithConfigIsRow DEF WithConfig, Row
  <2> HIDE DEF d
  <2>6. r.grant = l.grant
    BY <2>5 DEF Row
  <2> HIDE DEF r
  <2> QED BY <1>2, <1>3, <2>1, <2>3, <2>4, <2>6
<1> QED BY <1>5, <1>6, <1>7, <1>8, <1>9, <1>10, <1>11, <1>12, <1>13 DEF ClientStep

LEMMA GivenStep ==
  ASSUME TypeInv, GivenInv, PlansNeverApproveThemselves, [Next]_vars
  PROVE  GivenInv' /\ PlansNeverApproveThemselves'
<1>1. GivenInv'
  <2>1. CASE UNCHANGED vars
    BY <2>1 DEF vars, rowVars, clientVars, workerVars, history, GivenInv
  <2> QED BY <2>1, GivenClient, GivenWorker, GivenTakeCrash DEF Next, WorkerStep
<1>2. approved \in [Ops -> SUBSET (Nat \X (Steps \cup {None}))] /\ acted \in [Ops -> SUBSET (Nat \X Steps)]
  BY DEF TypeInv, HistoryOK
<1>3. ASSUME UNCHANGED acted, \A o \in Ops : approved[o] \subseteq approved'[o]
      PROVE  PlansNeverApproveThemselves'
  BY <1>3 DEF PlansNeverApproveThemselves
<1>4. ASSUME NEW c \in Clients, ClientStep(c)  PROVE PlansNeverApproveThemselves'
  <2>1. UNCHANGED acted /\ \A o \in Ops : approved[o] \subseteq approved'[o]
    BY <1>2, <1>4 DEF ClientStep, Create, Submit, SaveQueueConfig, LinkRead, LinkSave, CancelRead,
       CancelSave, ResumeRead, ResumeSave, history
  <2> QED BY <1>3, <2>1
<1>5. ASSUME NEW w \in Workers, Tool(w)  PROVE PlansNeverApproveThemselves'
  <2>1. CASE UNCHANGED history
    BY <1>3, <2>1 DEF history
  <2>2. CASE Perform(w)
    <3>1. /\ wop[w] \in Ops /\ loc[w].step \in Nat \ {0}
          /\ Given(loc[w].grant, approved[wop[w]])
      BY <1>5, BusyOK DEF Tool, GivenInv
    <3>2. \A o \in Ops : acted'[o] \subseteq
            acted[o] \cup (IF o = wop[w] /\ Current(w) \in Sensitive THEN {<<loc[w].step, Current(w)>>} ELSE {})
      BY <1>2, <2>2 DEF Perform
    <3>3. Current(w) \in Sensitive => \E b \in approved[wop[w]] : b[1] = loc[w].step
      BY <2>2, <3>1 DEF Perform, Allowed, Confirmed, Given
    <3>4. UNCHANGED approved
      BY <2>2 DEF Perform
    <3>5. ASSUME NEW o \in Ops, NEW a \in acted'[o]  PROVE \E b \in approved[o] : b[1] = a[1]
      <4>1. CASE a \in acted[o]
        BY <4>1 DEF PlansNeverApproveThemselves
      <4>2. CASE a \notin acted[o]
        BY <3>2, <3>3, <3>5, <4>2
      <4> QED BY <4>1, <4>2
    <3> QED BY <3>4, <3>5 DEF PlansNeverApproveThemselves
  <2> QED BY <1>5, <2>1, <2>2 DEF Tool, StepSucceeds, StepWaits, StepInterrupted, StepFails,
         StepRaises, MayPerform
<1>6. ASSUME NEW w \in Workers, WorkerStep(w), ~Tool(w)  PROVE PlansNeverApproveThemselves'
  <2>1. UNCHANGED history
    BY <1>6 DEF WorkerStep, RunStep, FailOrphan, Acquire, CancelBeforeStart, Start, Check, Mark, Record,
       Replan, SavePlan, Save, Publish, Take
  <2> QED BY <1>3, <2>1 DEF history
<1>7. ASSUME NEW p \in Procs, Crash(p)  PROVE PlansNeverApproveThemselves'
  BY <1>3, <1>7 DEF Crash, history
<1>8. ASSUME UNCHANGED vars  PROVE PlansNeverApproveThemselves'
  <2>1. approved' = approved /\ acted' = acted
    BY <1>8 DEF vars, history
  <2> QED BY <1>3, <2>1
<1> QED BY <1>1, <1>4, <1>5, <1>6, <1>7, <1>8 DEF Next

\* No plan, replanned plan or rewritten configuration approves a step: a consequential
\* step is performed only under a number the user was asked about and resumed, for any
\* number of replans, overlapping requests, processes, duplicate runs and crashes.
THEOREM NoPlanApprovesItself == Spec => []PlansNeverApproveThemselves
<1>1. Init => GivenInv /\ PlansNeverApproveThemselves
  BY DEF Init, GivenInv, PlansNeverApproveThemselves, NoRow, Given
<1>2. TypeInv /\ GivenInv /\ PlansNeverApproveThemselves /\ [Next]_vars
        => (GivenInv /\ PlansNeverApproveThemselves)'
  BY GivenStep
<1> QED BY <1>1, <1>2, TypeInvariant, PTL DEF Spec
-----------------------------------------------------------------------------
(***************************************************************************)
(* One user at a time.  With one thread that serves requests an operation  *)
(* is owed at most one run, or has at most one in progress, and a row that *)
(* shows an end has neither.  Nothing is assumed of processes and crashes. *)
(***************************************************************************)
OneClient == \A c, d \in Clients : c = d

Ended == {"completed", "failed", "cancelled", "waiting_user"}

\* Handler c is about to submit a run of o; worker w runs o and may still store it.
Owing(c, o) == cop[c] = o /\ cpc[c] \in {"submit", "resubmit"}
Busy(w, o)  == wop[w] = o /\ wpc[w] \notin {"idle", "publish"}

LoneAt(o) ==
  /\ jobs[o] \in 0..1
  /\ jobs[o] = 1 => (\A c \in Clients : ~Owing(c, o)) /\ (\A w \in Workers : ~Busy(w, o))
  /\ \A c \in Clients : Owing(c, o) => \A w \in Workers : ~Busy(w, o)
  /\ \A v, w \in Workers : Busy(v, o) /\ Busy(w, o) => v = w
  /\ row[o].status \in Ended \cup {"absent"} =>
       /\ jobs[o] = 0
       /\ \A c \in Clients : ~Owing(c, o)
       /\ \A w \in Workers : ~Busy(w, o)

LoneInv ==
  /\ \A o \in Ops : LoneAt(o)
  /\ \A c \in Clients : cpc[c] = "resume" => row[cop[c]].status \in Resumable
  /\ \A w \in Workers :
       /\ wpc[w] = "idle" => wop[w] = None
       /\ wpc[w] \in {"save", "publish"} => loc[w].status \in Ended

\* What a step has to show that gives nobody a run but of o.
LEMMA LoneKept ==
  ASSUME TypeInv, LoneInv, NEW o \in Ops, NEW r, row' = [row EXCEPT ![o] = r],
         \A p \in Ops \ {o} : jobs'[p] = jobs[p],
         \A c \in Clients, p \in Ops \ {o} : Owing(c, p)' => Owing(c, p),
         \A w \in Workers, p \in Ops \ {o} : Busy(w, p)' => Busy(w, p),
         LoneAt(o)'
  PROVE  \A p \in Ops : LoneAt(p)'
<1>1. \A p \in Ops \ {o} : row'[p] = row[p]
  BY DEF TypeInv, TablesOK
<1>2. ASSUME NEW p \in Ops \ {o}
      PROVE  LoneAt(p)'
  BY <1>1, <1>2 DEF LoneInv, LoneAt
<1>3. QED
  BY <1>2

\* A step of the run w that leaves r in the row: if r shows an end, the run is over.
LEMMA LoneRun ==
  ASSUME TypeInv, LoneInv, NEW w \in Workers, wpc[w] \notin {"idle", "publish"},
         NEW r, row' = [row EXCEPT ![wop[w]] = r],
         UNCHANGED <<jobs, clientVars>>,
         \A v \in Workers \ {w} : wpc'[v] = wpc[v] /\ wop'[v] = wop[v] /\ loc'[v] = loc[v],
         \/ wpc'[w] = "idle" /\ wop'[w] = None
         \/ wpc'[w] # "idle" /\ wop'[w] = wop[w],
         wpc'[w] \in {"save", "publish"} => loc'[w].status \in Ended,
         r.status \in Ended \cup {"absent"} => wpc'[w] \in {"idle", "publish"}
  PROVE  LoneInv'
<1>0. PICK o \in Ops : o = wop[w]
  BY DEF TypeInv, WorkersOK
<1>1. o \in Ops /\ Busy(w, o) /\ LoneAt(o) /\ row'[o] = r
  BY <1>0 DEF TypeInv, TablesOK, LoneInv, Busy
<1>2. /\ jobs[o] = 0
      /\ \A c \in Clients : ~Owing(c, o)
      /\ \A v \in Workers : Busy(v, o) => v = w
      /\ row[o].status \notin Ended
  BY <1>1 DEF LoneAt
<1>3. /\ \A c \in Clients, p \in Ops : Owing(c, p)' => Owing(c, p)
      /\ \A v \in Workers, p \in Ops : Busy(v, p)' => Busy(v, p)
      /\ \A p \in Ops : jobs'[p] = jobs[p]
  BY <1>0, <1>1 DEF Owing, Busy, clientVars
<1>4. wpc'[w] \in {"idle", "publish"} => ~Busy(w, o)'
  BY DEF Busy
<1>5. LoneAt(o)'
  <2>1. jobs'[o] = 0 /\ \A c \in Clients : ~Owing(c, o)'
    BY <1>1, <1>2, <1>3
  <2>2. \A v \in Workers : Busy(v, o)' => v = w
    BY <1>1, <1>2, <1>3
  <2>3. row'[o].status \in Ended \cup {"absent"} => \A v \in Workers : ~Busy(v, o)'
    BY <1>1, <1>4, <2>2
  <2>4. QED
    BY <2>1, <2>2, <2>3 DEF LoneAt
<1>6. \A p \in Ops : LoneAt(p)'
  <2>1. o \in Ops /\ row' = [row EXCEPT ![o] = r]
    BY <1>0
  <2>2. /\ \A p \in Ops \ {o} : jobs'[p] = jobs[p]
        /\ \A c \in Clients, p \in Ops \ {o} : Owing(c, p)' => Owing(c, p)
        /\ \A v \in Workers, p \in Ops \ {o} : Busy(v, p)' => Busy(v, p)
    BY <1>3
  <2>3. QED
    BY <1>5, <2>1, <2>2, LoneKept
<1>7. ASSUME NEW c \in Clients, cpc'[c] = "resume"
      PROVE  row'[cop'[c]].status \in Resumable
  <2>1. cpc[c] = "resume" /\ cop' = cop /\ cop[c] \in Ops /\ row[cop[c]].status \in Resumable
    BY <1>7 DEF LoneInv, clientVars, TypeInv, ClientsOK
  <2>2. cop[c] # o
    BY <1>2, <2>1 DEF Ended, Resumable
  <2>3. QED
    BY <1>0, <2>1, <2>2 DEF TypeInv, TablesOK
<1>8. ASSUME NEW v \in Workers
      PROVE  /\ wpc'[v] = "idle" => wop'[v] = None
             /\ wpc'[v] \in {"save", "publish"} => loc'[v].status \in Ended
  BY DEF LoneInv
<1>9. QED
  BY <1>6, <1>7, <1>8 DEF LoneInv

\* A step of the run w that goes on with the copy l.
LEMMA LoneGoto ==
  ASSUME TypeInv, LoneInv, NEW w \in Workers, wpc[w] \notin {"idle", "publish"},
         NEW r, row' = [row EXCEPT ![wop[w]] = r], NEW to, NEW l, Goto(w, to, l),
         UNCHANGED <<jobs, clientVars, wop>>, to # "idle",
         to \in {"save", "publish"} => l.status \in Ended,
         r.status \in Ended \cup {"absent"} => to = "publish"
  PROVE  LoneInv'
<1>1. wpc'[w] = to /\ loc'[w] = l /\ \A v \in Workers \ {w} : wpc'[v] = wpc[v] /\ loc'[v] = loc[v]
  BY DEF Goto, TypeInv, WorkersOK
<1>2. /\ wop'[w] = wop[w] /\ (\A v \in Workers \ {w} : wop'[v] = wop[v])
      /\ UNCHANGED <<jobs, clientVars>>
  OBVIOUS
<1>3. QED
  BY <1>1, <1>2, LoneRun

\* Each step of a run but the last.
LEMMA LoneRuns ==
  ASSUME TypeInv, LoneInv, NEW w \in Workers, RunStep(w), ~Publish(w)
  PROVE  LoneInv'
<1> DEFINE q == row[wop[w]]
<1>1. wpc[w] \notin {"idle", "publish"} /\ UNCHANGED <<jobs, clientVars>>
  BY DEF RunStep, FailOrphan, Acquire, CancelBeforeStart, Start, Check, Mark, Tool, Record,
         Replan, SavePlan, Save, rowVars
<1>2. /\ wop[w] \in Ops /\ loc[w] \in Row /\ q \in Row
      /\ row = [row EXCEPT ![wop[w]] = q]
      /\ q.status \notin Ended \cup {"absent"}
  <2>1. PICK o \in Ops : o = wop[w]
    BY <1>1 DEF TypeInv, WorkersOK
  <2>2. Busy(w, o) /\ LoneAt(o) /\ row[o] \in Row /\ row = [row EXCEPT ![o] = row[o]]
    BY <1>1, <2>1 DEF Busy, LoneInv, TypeInv, TablesOK
  <2>3. row[o].status \notin Ended \cup {"absent"}
    BY <2>2 DEF LoneAt
  <2>4. QED
    BY <1>1, <2>1, <2>2, <2>3, BusyOK
<1> HIDE DEF q
<1>3. \A r \in Row, s \in STRING : [r EXCEPT !.status = s].status = s
  BY DEF Row
<1>4. CASE FailOrphan(w)
  <2>1. /\ row' = [row EXCEPT ![wop[w]] = [loc[w] EXCEPT !.status = "failed"]]
        /\ wpc'[w] = "idle" /\ wop'[w] = None
        /\ \A v \in Workers \ {w} : wpc'[v] = wpc[v] /\ wop'[v] = wop[v] /\ loc'[v] = loc[v]
    BY <1>4 DEF FailOrphan, Release, TypeInv, WorkersOK
  <2>2. QED
    BY <1>1, <2>1, LoneRun
<1>5. CASE Acquire(w)
  <2>1. PICK to, l : to \in {"precancel", "start"} /\ Goto(w, to, l)
    BY <1>5 DEF Acquire
  <2>2. row' = [row EXCEPT ![wop[w]] = q] /\ UNCHANGED wop
    BY <1>2, <1>5 DEF Acquire, rowVars
  <2>3. QED
    BY <1>1, <1>2, <2>1, <2>2, LoneGoto
<1>6. CASE CancelBeforeStart(w)
  <2> DEFINE l == [loc[w] EXCEPT !.status = "cancelled"]
             r == [q EXCEPT !.status = "cancelled"]
  <2>1. row' = [row EXCEPT ![wop[w]] = r] /\ UNCHANGED wop /\ Goto(w, "publish", l)
    BY <1>2, <1>6 DEF CancelBeforeStart, q
  <2>2. l.status \in Ended
    BY <1>2, <1>3 DEF Ended
  <2> HIDE DEF l, r
  <2>3. QED
    BY <1>1, <2>1, <2>2, LoneGoto
<1>7. CASE Start(w)
  <2> DEFINE l == [loc[w] EXCEPT !.status = "running"]
             r == [q EXCEPT !.status = "running"]
  <2>1. row' = [row EXCEPT ![wop[w]] = r] /\ UNCHANGED wop /\ Goto(w, "check", l)
    BY <1>2, <1>7 DEF Start, q
  <2>2. r.status \notin Ended \cup {"absent"}
    BY <1>2, <1>3 DEF Ended
  <2> HIDE DEF l, r
  <2>3. QED
    BY <1>1, <2>1, <2>2, LoneGoto
<1>8. ASSUME row' = row, UNCHANGED wop,
             \/ \E to \in {"check", "mark", "tool", "record", "replan", "saveplan"} : \E l : Goto(w, to, l)
             \/ \E l : Goto(w, "save", l) /\ l.status \in Ended
      PROVE  LoneInv'
  <2>1. PICK to, l :
          /\ to \in {"check", "mark", "tool", "record", "replan", "saveplan", "save"}
          /\ Goto(w, to, l) /\ (to = "save" => l.status \in Ended)
    BY <1>8
  <2>2. row' = [row EXCEPT ![wop[w]] = q]
    BY <1>2, <1>8
  <2>3. QED
    BY <1>1, <1>2, <1>8, <2>1, <2>2, LoneGoto
<1>9. /\ [loc[w] EXCEPT !.status = "completed"].status \in Ended
      /\ [loc[w] EXCEPT !.status = "failed"].status \in Ended
      /\ [Refreshed(w) EXCEPT !.status = "cancelled"].status \in Ended
      /\ [loc[w] EXCEPT !.status = "cancelled", !.cancel = TRUE].status \in Ended
      /\ [loc[w] EXCEPT !.status = "waiting_user", !.attn = "blocker", !.about = None].status \in Ended
      /\ [loc[w] EXCEPT !.status = "waiting_user", !.attn = "approval", !.about = Current(w)].status \in Ended
  BY <1>2 DEF Row, Refreshed, Ended
<1>10. CASE Check(w)
  BY <1>8, <1>9, <1>10 DEF Check, End, rowVars
<1>11. CASE Tool(w)
  <2>1. row' = row /\ UNCHANGED wop
    BY <1>11 DEF Tool, rowVars
  <2>2. \/ \E l : Goto(w, "record", l) \/ Goto(w, "replan", l)
        \/ \E l : Goto(w, "save", l) /\ l.status \in Ended
    BY <1>9, <1>11 DEF Tool, StepSucceeds, StepWaits, StepInterrupted, StepFails, StepRaises, End
  <2>3. QED
    BY <1>8, <2>1, <2>2
<1>12. CASE Replan(w)
  BY <1>8, <1>9, <1>12 DEF Replan, End, rowVars
<1>13. ASSUME NEW r, row' = [row EXCEPT ![wop[w]] = r], r.status = q.status, UNCHANGED wop,
              NEW to \in {"check", "tool"}, NEW l, Goto(w, to, l)
       PROVE  LoneInv'
  BY <1>1, <1>2, <1>13, LoneGoto
<1>14. CASE Mark(w)
  <2> DEFINE r == [q EXCEPT !.step = loc[w].step]
  <2>1. row' = [row EXCEPT ![wop[w]] = r] /\ UNCHANGED wop /\ Goto(w, "tool", loc[w])
    BY <1>2, <1>14 DEF Mark, q
  <2>2. r.status = q.status
    BY <1>2 DEF Row
  <2> HIDE DEF r
  <2>3. QED
    BY <1>13, <2>1, <2>2
<1>15. CASE Record(w)
  <2> DEFINE r == [WithConfig(q, loc[w]) EXCEPT !.step = loc[w].step, !.done = loc[w].done]
  <2>1. row' = [row EXCEPT ![wop[w]] = r] /\ UNCHANGED wop /\ Goto(w, "check", loc[w])
    BY <1>2, <1>15 DEF Record, q
  <2>2. r.status = q.status
    BY <1>2 DEF Row, WithConfig
  <2> HIDE DEF r
  <2>3. QED
    BY <1>13, <2>1, <2>2
<1>16. CASE SavePlan(w)
  <2> DEFINE r == [WithConfig(q, loc[w]) EXCEPT !.plan = loc[w].plan, !.step = loc[w].step]
  <2>1. row' = [row EXCEPT ![wop[w]] = r] /\ UNCHANGED wop /\ Goto(w, "check", loc[w])
    BY <1>2, <1>16 DEF SavePlan, q
  <2>2. r.status = q.status
    BY <1>2 DEF Row, WithConfig
  <2> HIDE DEF r
  <2>3. QED
    BY <1>13, <2>1, <2>2
<1>17. CASE Save(w)
  <2>1. /\ row' = [row EXCEPT ![wop[w]] = loc[w]] /\ UNCHANGED wop
        /\ Goto(w, "publish", loc[w]) /\ wpc[w] = "save"
    BY <1>17 DEF Save
  <2>2. loc[w].status \in Ended
    BY <2>1 DEF LoneInv
  <2>3. QED
    BY <1>1, <2>1, <2>2, LoneGoto
<1>18. QED
  BY <1>4, <1>5, <1>6, <1>7, <1>10, <1>11, <1>12, <1>14, <1>15, <1>16, <1>17 DEF RunStep

\* A run is begun where one was owed, left where it has been told, and lost in a crash.
LEMMA LoneEnds ==
  ASSUME TypeInv, LoneInv,
         \/ \E w \in Workers : Publish(w) \/ \E o \in Ops : Take(w, o)
         \/ \E p \in Procs : Crash(p)
  PROVE  LoneInv'
<1>1. ASSUME NEW w \in Workers, NEW o \in Ops, Take(w, o)
      PROVE  LoneInv'
  <2>1. /\ wpc[w] = "idle" /\ jobs[o] > 0 /\ row' = row /\ UNCHANGED clientVars
        /\ wpc'[w] \in {"orphan", "lock"} /\ wop'[w] = o
        /\ \A v \in Workers \ {w} : wpc'[v] = wpc[v] /\ wop'[v] = wop[v] /\ loc'[v] = loc[v]
        /\ jobs'[o] = jobs[o] - 1 /\ \A p \in Ops \ {o} : jobs'[p] = jobs[p]
    BY <1>1 DEF Take, Goto, TypeInv, WorkersOK, TablesOK
  <2>2. /\ jobs[o] = 1 /\ jobs'[o] = 0 /\ row[o].status \notin Ended \cup {"absent"}
        /\ \A c \in Clients : ~Owing(c, o)
        /\ \A v \in Workers : ~Busy(v, o)
    BY <2>1 DEF LoneInv, LoneAt
  <2>3. /\ \A c \in Clients, p \in Ops : Owing(c, p)' => Owing(c, p)
        /\ \A v \in Workers : Busy(v, o)' => v = w
        /\ \A v \in Workers, p \in Ops \ {o} : Busy(v, p)' => Busy(v, p)
    BY <2>1, <2>2 DEF Owing, Busy, clientVars
  <2>4. LoneAt(o)'
    BY <2>1, <2>2, <2>3 DEF LoneAt
  <2>5. row' = [row EXCEPT ![o] = row[o]]
    BY <2>1 DEF TypeInv, TablesOK
  <2>6. \A p \in Ops : LoneAt(p)'
    BY <2>1, <2>3, <2>4, <2>5, LoneKept
  <2>7. \A c \in Clients : cpc'[c] = "resume" => row'[cop'[c]].status \in Resumable
    BY <2>1 DEF LoneInv, clientVars
  <2>8. \A v \in Workers : /\ wpc'[v] = "idle" => wop'[v] = None
                           /\ wpc'[v] \in {"save", "publish"} => loc'[v].status \in Ended
    BY <2>1 DEF LoneInv
  <2>9. QED
    BY <2>6, <2>7, <2>8 DEF LoneInv
<1>2. ASSUME row' = row, \A o \in Ops : jobs'[o] \in {0, jobs[o]},
             \A c \in Clients : \/ cpc'[c] = cpc[c] /\ cop'[c] = cop[c]
                                \/ cpc'[c] = "idle",
             \A w \in Workers : \/ wpc'[w] = wpc[w] /\ wop'[w] = wop[w] /\ loc'[w] = loc[w]
                                \/ wpc'[w] = "idle" /\ wop'[w] = None
      PROVE  LoneInv'
  <2>1. /\ \A c \in Clients, o \in Ops : Owing(c, o)' => Owing(c, o)
        /\ \A w \in Workers, o \in Ops : Busy(w, o)' => Busy(w, o)
    BY <1>2 DEF Owing, Busy
  <2>2. \A o \in Ops : LoneAt(o)'
    BY <1>2, <2>1 DEF LoneInv, LoneAt
  <2>3. \A c \in Clients : cpc'[c] = "resume" => row'[cop'[c]].status \in Resumable
    BY <1>2 DEF LoneInv
  <2>4. \A w \in Workers : /\ wpc'[w] = "idle" => wop'[w] = None
                           /\ wpc'[w] \in {"save", "publish"} => loc'[w].status \in Ended
    BY <1>2 DEF LoneInv
  <2>5. QED
    BY <2>2, <2>3, <2>4 DEF LoneInv
<1>3. ASSUME NEW w \in Workers, Publish(w)
      PROVE  LoneInv'
  <2>1. /\ row' = row /\ jobs' = jobs /\ UNCHANGED clientVars
        /\ wpc'[w] = "idle" /\ wop'[w] = None
        /\ \A v \in Workers \ {w} : wpc'[v] = wpc[v] /\ wop'[v] = wop[v] /\ loc'[v] = loc[v]
    BY <1>3 DEF Publish, Release, rowVars, TypeInv, WorkersOK
  <2>2. QED
    BY <1>2, <2>1 DEF clientVars
<1>4. ASSUME NEW p \in Procs, Crash(p)
      PROVE  LoneInv'
  <2>1. /\ row' = row
        /\ \A w \in Workers : \/ wpc'[w] = wpc[w] /\ wop'[w] = wop[w] /\ loc'[w] = loc[w]
                              \/ wpc'[w] = "idle" /\ wop'[w] = None
    BY <1>4 DEF Crash
  <2>2. /\ \A o \in Ops : jobs'[o] \in {0, jobs[o]}
        /\ \A c \in Clients : \/ cpc'[c] = cpc[c] /\ cop'[c] = cop[c]
                              \/ cpc'[c] = "idle"
    BY <1>4 DEF Crash, clientVars
  <2>3. QED
    BY <1>2, <2>1, <2>2
<1>5. QED
  BY <1>1, <1>3, <1>4

\* A handler that keeps every status and promises no run.
LEMMA LoneHandler ==
  ASSUME OneClient, TypeInv, LoneInv, NEW c \in Clients, UNCHANGED <<jobs, workerVars>>,
         \A o \in Ops : row'[o].status = row[o].status,
         cpc'[c] \notin {"submit", "resubmit"},
         cpc'[c] = "resume" => row[cop'[c]].status \in Resumable /\ cop'[c] \in Ops
  PROVE  LoneInv'
<1>1. /\ \A d \in Clients, o \in Ops : ~Owing(d, o)'
      /\ \A w \in Workers, o \in Ops : Busy(w, o)' <=> Busy(w, o)
  BY DEF OneClient, Owing, Busy, workerVars
<1>2. \A o \in Ops : LoneAt(o)'
  BY <1>1 DEF LoneInv, LoneAt
<1>3. \A d \in Clients : cpc'[d] = "resume" => row'[cop'[d]].status \in Resumable
  BY DEF OneClient
<1>4. QED
  BY <1>2, <1>3 DEF LoneInv, workerVars

\* A handler that leaves r in the row of o, which had no run or has a status that shows none.
LEMMA LoneOwes ==
  ASSUME OneClient, TypeInv, LoneInv, NEW c \in Clients, UNCHANGED workerVars,
         NEW o \in Ops, NEW r, row' = [row EXCEPT ![o] = r], r.status \notin Ended \cup {"absent"},
         cpc'[c] # "resume",
         \A p \in Ops \ {o} : jobs'[p] = jobs[p] /\ ~Owing(c, p)',
         \/ jobs'[o] = jobs[o] /\ ~Owing(c, o)'
         \/ /\ \A w \in Workers : ~Busy(w, o)
            /\ jobs'[o] \in 0..1
            /\ jobs'[o] = 1 => ~Owing(c, o)'
  PROVE  LoneInv'
<1>1. \A w \in Workers, p \in Ops : Busy(w, p)' <=> Busy(w, p)
  BY DEF Busy, workerVars
<1>2. \A d \in Clients : d = c
  BY DEF OneClient
<1>3. row'[o].status \notin Ended \cup {"absent"} /\ LoneAt(o)
  BY DEF TypeInv, TablesOK, LoneInv
<1>4. LoneAt(o)'
  BY <1>1, <1>2, <1>3 DEF LoneAt
<1>5. /\ \A d \in Clients, p \in Ops \ {o} : Owing(d, p)' => Owing(d, p)
      /\ \A w \in Workers, p \in Ops \ {o} : Busy(w, p)' => Busy(w, p)
      /\ \A p \in Ops \ {o} : jobs'[p] = jobs[p]
  BY <1>1, <1>2
<1>6. \A p \in Ops : LoneAt(p)'
  BY <1>4, <1>5, LoneKept
<1>7. QED
  BY <1>2, <1>6 DEF LoneInv, workerVars

\* The handlers.
LEMMA LoneClient ==
  ASSUME OneClient, TypeInv, LoneInv, NEW c \in Clients, ClientStep(c)
  PROVE  LoneInv'
<1>0. /\ UNCHANGED workerVars
      /\ cpc \in [Clients -> ClientPC] /\ cop \in [Clients -> Ops \cup {None}]
      /\ row \in [Ops -> Row] /\ jobs \in [Ops -> Nat]
      /\ \A d \in Clients : d = c
  BY DEF ClientStep, Create, Submit, SaveQueueConfig, LinkRead, LinkSave, CancelRead,
         CancelSave, ResumeRead, ResumeSave, TypeInv, ClientsOK, TablesOK, OneClient
<1>a. ASSUME NEW to, NEW o, NEW r, Handle(c, to, o, r)
      PROVE  cpc'[c] = to /\ cop'[c] = o
  BY <1>0, <1>a DEF Handle
<1>b. ASSUME Answer(c)
      PROVE  cpc'[c] = "idle"
  BY <1>0, <1>b DEF Handle, Answer
<1>1. ASSUME NEW o \in Ops, Create(c, o)
      PROVE  LoneInv'
  <2>1. PICK p \in Plans : row' = [row EXCEPT ![o] = NewRow(p)] /\ Handle(c, "submit", o, NewRow(p))
    BY <1>1 DEF Create
  <2>2. NewRow(p).status = "queued"
    BY DEF NewRow, NoRow
  <2>3. row[o].status = "absent" /\ jobs' = jobs /\ cpc'[c] = "submit" /\ cop'[c] = o
    BY <1>1, <1>a, <2>1 DEF Create
  <2>4. jobs[o] = 0 /\ \A w \in Workers : ~Busy(w, o)
    BY <2>3 DEF LoneInv, LoneAt
  <2>5. \A p2 \in Ops \ {o} : jobs'[p2] = jobs[p2] /\ ~Owing(c, p2)'
    BY <2>3 DEF Owing
  <2>6. jobs'[o] \in 0..1 /\ (jobs'[o] = 1 => ~Owing(c, o)') /\ cpc'[c] # "resume"
    BY <2>3, <2>4
  <2>7. NewRow(p).status \notin Ended \cup {"absent"}
    BY <2>2 DEF Ended
  <2>8. QED
    BY <1>0, <2>1, <2>4, <2>5, <2>6, <2>7, LoneOwes
<1>2. CASE Submit(c)
  <2>1. PICK o \in Ops : o = cop[c]
    BY <1>2 DEF Submit, TypeInv, ClientsOK
  <2>2. Owing(c, o) /\ LoneAt(o)
    BY <1>2, <2>1 DEF Submit, Owing, LoneInv
  <2>3. /\ jobs[o] = 0 /\ row[o].status \notin Ended \cup {"absent"}
        /\ \A w \in Workers : ~Busy(w, o)
    BY <2>2 DEF LoneAt
  <2>4. jobs' = [jobs EXCEPT ![o] = 1] /\ cpc'[c] \in {"queueconfig", "requeueconfig"}
    BY <1>0, <1>2, <1>a, <2>1, <2>3 DEF Submit
  <2>5. jobs'[o] = 1 /\ \A p \in Ops \ {o} : jobs'[p] = jobs[p]
    BY <1>0, <2>4
  <2>6. \A p \in Ops : ~Owing(c, p)'
    BY <2>4 DEF Owing
  <2>7. row' = [row EXCEPT ![o] = row[o]] /\ cpc'[c] # "resume"
    BY <1>0, <1>2, <2>4 DEF Submit
  <2>9. jobs'[o] \in 0..1 /\ (jobs'[o] = 1 => ~Owing(c, o)')
    BY <2>5, <2>6
  <2>8. QED
    BY <1>0, <2>3, <2>5, <2>6, <2>7, <2>9, LoneOwes
<1>3. ASSUME NEW a, NEW b, row' = [row EXCEPT ![cop[c]] = WithConfig(@, b)], jobs' = jobs,
             cop[c] \in Ops, cpc'[c] \in {"idle", "linkread"}
      PROVE  LoneInv'
  <2>1. \A o \in Ops : row'[o].status = row[o].status
    BY <1>0, <1>3 DEF WithConfig, Row
  <2>2. QED
    BY <1>0, <1>3, <2>1, LoneHandler
<1>4. CASE SaveQueueConfig(c)
  <2>1. cop[c] \in Ops
    BY <1>4 DEF SaveQueueConfig, TypeInv, ClientsOK
  <2>2. cpc'[c] \in {"idle", "linkread"}
    BY <1>4, <1>a, <1>b DEF SaveQueueConfig
  <2>3. QED
    BY <1>3, <1>4, <2>1, <2>2 DEF SaveQueueConfig
<1>5. CASE LinkRead(c)
  <2>1. cpc'[c] = "linksave" /\ row' = row /\ jobs' = jobs
    BY <1>5, <1>a DEF LinkRead, rowVars
  <2>2. QED
    BY <1>0, <2>1, LoneHandler
<1>6. CASE LinkSave(c)
  <2>1. cop[c] \in Ops
    BY <1>6 DEF LinkSave, TypeInv, ClientsOK
  <2>2. cpc'[c] = "idle"
    BY <1>6, <1>b DEF LinkSave
  <2>3. QED
    BY <1>3, <1>6, <2>1, <2>2 DEF LinkSave
<1>7. ASSUME NEW o \in Ops, CancelRead(c, o)
      PROVE  LoneInv'
  <2>1. cpc'[c] = "cancel" /\ row' = row /\ jobs' = jobs
    BY <1>7, <1>a DEF CancelRead, rowVars
  <2>2. QED
    BY <1>0, <2>1, LoneHandler
<1>8. CASE CancelSave(c)
  <2>1. PICK o \in Ops : o = cop[c]
    BY <1>8 DEF CancelSave, TypeInv, ClientsOK
  <2> DEFINE r == [row[o] EXCEPT !.cancel = TRUE, !.status = "cancelling"]
  <2>2. row' = [row EXCEPT ![o] = r] /\ jobs' = jobs /\ cpc'[c] = "idle"
    BY <1>0, <1>8, <1>b, <2>1 DEF CancelSave
  <2>3. r.status = "cancelling"
    BY <1>0 DEF Row
  <2> HIDE DEF r
  <2>4. \A p \in Ops : ~Owing(c, p)' /\ jobs'[p] = jobs[p]
    BY <2>2 DEF Owing
  <2>5. QED
    BY <1>0, <2>2, <2>3, <2>4, LoneOwes DEF Ended
<1>9. ASSUME NEW o \in Ops, ResumeRead(c, o)
      PROVE  LoneInv'
  <2>1. cpc'[c] = "resume" /\ cop'[c] = o /\ row' = row /\ jobs' = jobs /\ row[o].status \in Resumable
    BY <1>9, <1>a DEF ResumeRead, rowVars
  <2>2. QED
    BY <1>0, <2>1, LoneHandler
<1>10. CASE ResumeSave(c)
  <2>1. PICK o \in Ops : o = cop[c]
    BY <1>10 DEF ResumeSave, TypeInv, ClientsOK
  <2> DEFINE t == Resumed(copy[c])
             r == [WithConfig(row[o], t) EXCEPT !.status = t.status, !.cancel = t.cancel]
  <2>2. row' = [row EXCEPT ![o] = r] /\ jobs' = jobs /\ cpc[c] = "resume"
        /\ cpc'[c] = "resubmit" /\ cop'[c] = o
    BY <1>0, <1>10, <1>a, <2>1 DEF ResumeSave
  <2>3. copy[c] \in Row
    BY DEF TypeInv, ClientsOK
  <2>4. r.status = "queued"
    BY <1>0, <2>3 DEF Row, Resumed, WithConfig
  <2> HIDE DEF r
  <2>5. row[o].status \in Ended
    BY <2>1, <2>2 DEF LoneInv, Ended, Resumable
  <2>6. jobs[o] = 0 /\ \A w \in Workers : ~Busy(w, o)
    BY <2>5 DEF LoneInv, LoneAt
  <2>7. jobs'[o] = 0 /\ \A p \in Ops \ {o} : jobs'[p] = jobs[p] /\ ~Owing(c, p)'
    BY <2>2, <2>6 DEF Owing
  <2>8. /\ jobs'[o] \in 0..1 /\ (jobs'[o] = 1 => ~Owing(c, o)') /\ cpc'[c] # "resume"
        /\ r.status \notin Ended \cup {"absent"}
    BY <2>2, <2>4, <2>7 DEF Ended
  <2>9. QED
    BY <1>0, <2>2, <2>6, <2>7, <2>8, LoneOwes
<1>11. QED
  BY <1>1, <1>2, <1>4, <1>5, <1>6, <1>7, <1>8, <1>9, <1>10 DEF ClientStep

LEMMA LoneStep ==
  ASSUME OneClient, TypeInv, LoneInv, [Next]_vars
  PROVE  LoneInv'
<1>1. CASE UNCHANGED vars
  BY <1>1 DEF LoneInv, LoneAt, Owing, Busy, vars, rowVars, clientVars, workerVars
<1>2. CASE Next
  BY <1>2, LoneRuns, LoneEnds, LoneClient DEF Next, WorkerStep
<1>3. QED
  BY <1>1, <1>2

LEMMA LoneInvariant ==
  ASSUME OneClient
  PROVE  Spec => [](TypeInv /\ LoneInv)
<1>1. Init => LoneInv
  BY DEF Init, LoneInv, LoneAt, Owing, Busy, NoRow
<1>2. TypeInv /\ LoneInv /\ [Next]_vars => LoneInv'
  BY LoneStep
<1>3. QED
  BY <1>1, <1>2, TypeInvariant, PTL DEF Spec

(***************************************************************************)
(* Cancellation.  An accepted request is in the row until the row shows an *)
(* end, and the head of the loop reads it: after the step in progress      *)
(* nobody is on the way to a tool.                                         *)
(***************************************************************************)
LateAt(o) ==
  /\ late[o] # -1 => row[o].status # "absent" /\ (row[o].cancel \/ row[o].status \in Ended)
  /\ late[o] = 1 => \A w \in Workers : Busy(w, o) => wpc[w] \notin {"mark", "tool"}
  /\ late[o] < 2

LateInv == \A o \in Ops : LateAt(o)

\* A step of the run w of o that leaves r in the row.
LEMMA LateRun ==
  ASSUME TypeInv, LoneInv, LateInv, NEW w \in Workers, NEW o \in Ops, Busy(w, o),
         NEW r, row' = [row EXCEPT ![o] = r],
         r.status # "absent", r.status \in Ended \/ r.cancel = row[o].cancel,
         \A v \in Workers \ {w} : wpc'[v] = wpc[v] /\ wop'[v] = wop[v],
         wpc'[w] = "idle" \/ wop'[w] = o,
         \/ /\ late' = late
            /\ wpc'[w] \in {"mark", "tool"} => wpc[w] \in {"mark", "tool"} \/ ~row[o].cancel
         \/ /\ wpc[w] = "tool" /\ wpc'[w] \notin {"mark", "tool"}
            /\ late' = [late EXCEPT ![o] = IF @ \in {0, 1} THEN @ + 1 ELSE @]
  PROVE  LateInv'
<1>1. /\ \A p \in Ops \ {o} : row'[p] = row[p] /\ late'[p] = late[p]
      /\ row'[o] = r /\ late[o] \in -1..2 /\ late \in [Ops -> -1..2]
  BY DEF TypeInv, TablesOK, HistoryOK
<1>2. \A v \in Workers, p \in Ops : Busy(v, p)' /\ v # w => Busy(v, p) /\ wpc'[v] = wpc[v]
  BY DEF Busy
<1>3. \A p \in Ops \ {o} : ~Busy(w, p)'
  BY DEF Busy
<1>4. /\ \A v \in Workers : Busy(v, o) => v = w
      /\ row[o].status \notin Ended \cup {"absent"}
  BY DEF LoneInv, LoneAt
<1>5. ASSUME NEW p \in Ops \ {o}
      PROVE  LateAt(p)'
  BY <1>1, <1>2, <1>3, <1>5 DEF LateInv, LateAt
<1>6. LateAt(o)'
  <2>1. LateAt(o) /\ (late[o] # -1 => row[o].cancel)
    BY <1>4 DEF LateInv, LateAt
  <2>2. late'[o] # -1 => late[o] # -1
    BY <1>1
  <2>3. late'[o] # -1 => r.status # "absent" /\ (r.cancel \/ r.status \in Ended)
    BY <2>1, <2>2
  <2>4. wpc[w] = "tool" => late[o] \in {-1, 0}
    BY <1>1, <2>1 DEF LateAt
  <2>5. late'[o] < 2
    BY <1>1, <2>1, <2>4 DEF LateAt
  <2>6. late'[o] = 1 => wpc'[w] \notin {"mark", "tool"}
    BY <1>1, <2>1 DEF LateAt
  <2>7. \A v \in Workers : Busy(v, o)' => v = w
    BY <1>2, <1>4
  <2>8. QED
    BY <1>1, <2>3, <2>5, <2>6, <2>7 DEF LateAt
<1>7. QED
  BY <1>5, <1>6 DEF LateInv

LEMMA LateRuns ==
  ASSUME TypeInv, LoneInv, LateInv, NEW w \in Workers, RunStep(w), ~Publish(w)
  PROVE  LateInv'
<1>0. wpc[w] \notin {"idle", "publish"}
  BY DEF RunStep, FailOrphan, Acquire, CancelBeforeStart, Start, Check, Mark, Tool, Record,
         Replan, SavePlan, Save
<1>1. PICK o \in Ops : o = wop[w]
  BY <1>0 DEF TypeInv, WorkersOK
<1> DEFINE q == row[o]
<1>2. /\ Busy(w, o) /\ loc[w] \in Row /\ q \in Row
      /\ row = [row EXCEPT ![o] = q]
      /\ q.status \notin Ended \cup {"absent"}
  <2>1. Busy(w, o) /\ LoneAt(o) /\ row[o] \in Row /\ row = [row EXCEPT ![o] = row[o]]
    BY <1>0, <1>1 DEF Busy, LoneInv, TypeInv, TablesOK
  <2>2. row[o].status \notin Ended \cup {"absent"}
    BY <2>1 DEF LoneAt
  <2>3. QED
    BY <1>0, <2>1, <2>2, BusyOK
<1> HIDE DEF q
<1>3. ASSUME NEW to, NEW l, Goto(w, to, l), wop' = wop, late' = late, NEW r, row' = [row EXCEPT ![o] = r],
             r.status # "absent", r.status \in Ended \/ r.cancel = q.cancel,
             to \in {"mark", "tool"} => wpc[w] \in {"mark", "tool"} \/ ~q.cancel
      PROVE  LateInv'
  <2>1. /\ wpc'[w] = to /\ wop'[w] = o
        /\ \A v \in Workers \ {w} : wpc'[v] = wpc[v] /\ wop'[v] = wop[v]
    BY <1>1, <1>3 DEF Goto, TypeInv, WorkersOK
  <2>2. r.status \in Ended \/ r.cancel = row[o].cancel
    BY <1>3 DEF q
  <2>3. wpc'[w] \in {"mark", "tool"} => wpc[w] \in {"mark", "tool"} \/ ~row[o].cancel
    BY <1>3, <2>1 DEF q
  <2>4. QED
    BY <1>2, <1>3, <2>1, <2>2, <2>3, LateRun, ZenonT(60)
<1>4. ASSUME NEW to, NEW l, Goto(w, to, l), UNCHANGED <<row, wop, late>>,
             to \in {"mark", "tool"} => wpc[w] \in {"mark", "tool"} \/ ~q.cancel
      PROVE  LateInv'
  <2>1. row' = [row EXCEPT ![o] = q] /\ q.status # "absent" /\ wop' = wop /\ late' = late
    BY <1>2, <1>4
  <2>2. QED
    BY <1>3, <1>4, <2>1
<1>5. CASE FailOrphan(w)
  <2> DEFINE r == [loc[w] EXCEPT !.status = "failed"]
  <2>1. /\ row' = [row EXCEPT ![o] = r] /\ late' = late /\ wpc'[w] = "idle"
        /\ \A v \in Workers \ {w} : wpc'[v] = wpc[v] /\ wop'[v] = wop[v]
    BY <1>1, <1>5 DEF FailOrphan, Release, TypeInv, WorkersOK, history
  <2>2. r.status = "failed"
    BY <1>2 DEF Row
  <2> HIDE DEF r
  <2>3. QED
    BY <1>2, <2>1, <2>2, LateRun DEF Ended
<1>6. CASE Acquire(w)
  <2>1. UNCHANGED <<row, wop, late>> /\ \E to \in {"precancel", "start"} : \E l : Goto(w, to, l)
    BY <1>6 DEF Acquire, rowVars, history
  <2>2. QED
    BY <1>4, <2>1
<1>7. CASE CancelBeforeStart(w) \/ Start(w)
  <2>1. PICK s, to, l :
          s \in {"cancelled", "running"} /\ to \in {"publish", "check"} /\ row' = [row EXCEPT ![o] = [q EXCEPT !.status = s]] /\ Goto(w, to, l)
    BY <1>1, <1>2, <1>7 DEF CancelBeforeStart, Start, q
  <2>2. wop' = wop /\ late' = late
    BY <1>7 DEF CancelBeforeStart, Start, history
  <2> DEFINE r == [q EXCEPT !.status = s]
  <2>3. r.status # "absent" /\ r.cancel = q.cancel /\ row' = [row EXCEPT ![o] = r]
    BY <1>2, <2>1 DEF Row
  <2> HIDE DEF r
  <2>4. QED
    BY <1>3, <2>1, <2>2, <2>3
<1>8. CASE Check(w)
  <2>1. UNCHANGED <<row, wop, late>>
    BY <1>8 DEF Check, rowVars, history
  <2>2. \/ \E l : Goto(w, "save", l)
        \/ ~Refreshed(w).cancel /\ \E l : Goto(w, "mark", l)
    BY <1>8 DEF Check, End
  <2>3. Refreshed(w).cancel = q.cancel
    BY <1>1, <1>2 DEF Refreshed, Row, q
  <2>4. QED
    BY <1>4, <2>1, <2>2, <2>3
<1>9. CASE Replan(w)
  <2>1. UNCHANGED <<row, wop, late>> /\ \E to \in {"saveplan", "save"} : \E l : Goto(w, to, l)
    BY <1>9 DEF Replan, End, rowVars, history
  <2>2. QED
    BY <1>4, <2>1
<1>10. CASE Tool(w)
  <2>1. row' = row /\ wop' = wop /\ wpc[w] = "tool"
    BY <1>10 DEF Tool, rowVars
  <2>2. PICK to, l : to \in {"record", "replan", "save"} /\ Goto(w, to, l)
    BY <1>10 DEF Tool, StepSucceeds, StepWaits, StepInterrupted, StepFails, StepRaises, End
  <2>3. \/ late' = late
        \/ late' = [late EXCEPT ![o] = IF @ \in {0, 1} THEN @ + 1 ELSE @]
    BY <1>1, <1>10 DEF Tool, StepSucceeds, StepWaits, StepInterrupted, StepFails, StepRaises,
                       MayPerform, Perform, history
  <2>4. /\ wpc'[w] = to /\ wop'[w] = o
        /\ \A v \in Workers \ {w} : wpc'[v] = wpc[v] /\ wop'[v] = wop[v]
    BY <1>1, <2>1, <2>2 DEF Goto, TypeInv, WorkersOK
  <2>5. row' = [row EXCEPT ![o] = q] /\ q.status # "absent" /\ q.cancel = row[o].cancel
    BY <1>2, <2>1 DEF q
  <2>6. wpc'[w] \notin {"mark", "tool"}
    BY <2>2, <2>4
  <2>7. \/ /\ late' = late
           /\ wpc'[w] \in {"mark", "tool"} => wpc[w] \in {"mark", "tool"} \/ ~row[o].cancel
        \/ /\ wpc[w] = "tool" /\ wpc'[w] \notin {"mark", "tool"}
           /\ late' = [late EXCEPT ![o] = IF @ \in {0, 1} THEN @ + 1 ELSE @]
    BY <2>1, <2>3, <2>6
  <2>8. QED
    BY <1>2, <2>4, <2>5, <2>7, LateRun
<1>11. CASE Mark(w) \/ Record(w) \/ SavePlan(w)
  <2> DEFINE a == [q EXCEPT !.step = loc[w].step]
             b == [WithConfig(q, loc[w]) EXCEPT !.step = loc[w].step, !.done = loc[w].done]
             d == [WithConfig(q, loc[w]) EXCEPT !.plan = loc[w].plan, !.step = loc[w].step]
  <2>1. wop' = wop /\ late' = late
    BY <1>11 DEF Mark, Record, SavePlan, history
  <2>2. \/ wpc[w] = "mark" /\ Goto(w, "tool", loc[w]) /\ row' = [row EXCEPT ![o] = a]
        \/ Goto(w, "check", loc[w]) /\ row' = [row EXCEPT ![o] = b]
        \/ Goto(w, "check", loc[w]) /\ row' = [row EXCEPT ![o] = d]
    BY <1>1, <1>2, <1>11 DEF Mark, Record, SavePlan, q
  <2>3. /\ a.status = q.status /\ a.cancel = q.cancel
        /\ b.status = q.status /\ b.cancel = q.cancel
        /\ d.status = q.status /\ d.cancel = q.cancel
    BY <1>2 DEF Row, WithConfig
  <2> HIDE DEF a, b, d
  <2>4. \A r \in {a, b, d} : r.status # "absent" /\ r.cancel = q.cancel
    BY <1>2, <2>3
  <2>5. QED
    BY <1>3, <2>1, <2>2, <2>4
<1>12. CASE Save(w)
  <2>1. /\ row' = [row EXCEPT ![o] = loc[w]] /\ wop' = wop /\ late' = late
        /\ Goto(w, "publish", loc[w]) /\ wpc[w] = "save"
    BY <1>1, <1>12 DEF Save, history
  <2>2. loc[w].status \in Ended /\ loc[w].status # "absent"
    BY <2>1 DEF LoneInv, Ended
  <2>3. "publish" \notin {"mark", "tool"}
    OBVIOUS
  <2>4. QED
    BY <1>3, <2>1, <2>2, <2>3
<1>13. QED
  BY <1>5, <1>6, <1>7, <1>8, <1>9, <1>10, <1>11, <1>12 DEF RunStep

\* The other steps: only cancel() and resume() change what is late.
LEMMA LateStep ==
  ASSUME OneClient, TypeInv, LoneInv, LateInv, [Next]_vars
  PROVE  LateInv'
<1>1. ASSUME row' = row, late' = late,
             \A w \in Workers, o \in Ops : Busy(w, o)' /\ wpc'[w] \in {"mark", "tool"} =>
               Busy(w, o) /\ wpc'[w] = wpc[w]
      PROVE  LateInv'
  BY <1>1 DEF LateInv, LateAt
<1>2. CASE UNCHANGED vars
  BY <1>1, <1>2 DEF Busy, vars, rowVars, workerVars, history
<1>3. ASSUME NEW w \in Workers, Publish(w) \/ \E o \in Ops : Take(w, o)
      PROVE  LateInv'
  <2>1. row' = row /\ late' = late
    BY <1>3 DEF Publish, Take, rowVars, history
  <2>2. /\ wpc'[w] \notin {"mark", "tool"}
        /\ \A v \in Workers \ {w} : wpc'[v] = wpc[v] /\ wop'[v] = wop[v]
    BY <1>3 DEF Publish, Take, Release, Goto, TypeInv, WorkersOK
  <2>3. \A v \in Workers \ {w}, o \in Ops : Busy(v, o)' => Busy(v, o) /\ wpc'[v] = wpc[v]
    BY <2>2 DEF Busy
  <2>4. \A v \in Workers, o \in Ops : Busy(v, o)' /\ wpc'[v] \in {"mark", "tool"} =>
          Busy(v, o) /\ wpc'[v] = wpc[v]
    BY <2>2, <2>3
  <2>5. QED
    BY <1>1, <2>1, <2>4
<1>4. ASSUME NEW p \in Procs, Crash(p)
      PROVE  LateInv'
  <2>1. row' = row /\ late' = late
    BY <1>4 DEF Crash, history
  <2>2. \A w \in Workers : wpc'[w] = "idle" \/ (wpc'[w] = wpc[w] /\ wop'[w] = wop[w])
    BY <1>4 DEF Crash
  <2>3. QED
    BY <1>1, <2>1, <2>2 DEF Busy
<1>5. ASSUME UNCHANGED workerVars, NEW o \in Ops, NEW r, row' = [row EXCEPT ![o] = r],
             \A p \in Ops \ {o} : late'[p] = late[p],
             \/ late'[o] = -1
             \/ /\ r.cancel /\ r.status # "absent"
                /\ late'[o] = IF late[o] = -1 THEN 0 ELSE late[o]
             \/ late'[o] = late[o] /\ r.status = row[o].status /\ r.cancel = row[o].cancel
      PROVE  LateInv'
  <2>1. \A w \in Workers, p \in Ops : (Busy(w, p)' <=> Busy(w, p)) /\ wpc'[w] = wpc[w]
    BY <1>5 DEF Busy, workerVars
  <2>2. row'[o] = r /\ \A p \in Ops \ {o} : row'[p] = row[p]
    BY <1>5 DEF TypeInv, TablesOK
  <2>3. \A p \in Ops \ {o} : LateAt(p)'
    BY <1>5, <2>1, <2>2 DEF LateInv, LateAt
  <2>4. LateAt(o)'
    BY <1>5, <2>1, <2>2 DEF LateInv, LateAt
  <2>5. QED
    BY <2>3, <2>4 DEF LateInv
<1>6. ASSUME NEW c \in Clients, ClientStep(c)
      PROVE  LateInv'
  <2>0. UNCHANGED workerVars /\ late \in [Ops -> -1..2] /\ row \in [Ops -> Row] /\ copy[c] \in Row
    BY <1>6 DEF ClientStep, Create, Submit, SaveQueueConfig, LinkRead, LinkSave, CancelRead,
                CancelSave, ResumeRead, ResumeSave, TypeInv, TablesOK, ClientsOK, HistoryOK
  <2>1. ASSUME row' = row, late' = late
        PROVE  LateInv'
    BY <1>1, <2>0, <2>1 DEF Busy, workerVars
  <2>2. ASSUME NEW o \in Ops, Create(c, o)
        PROVE  LateInv'
    <3>1. PICK p \in Plans : row' = [row EXCEPT ![o] = NewRow(p)]
      BY <2>2 DEF Create
    <3>2. late' = late /\ late[o] = -1
      BY <2>2 DEF Create, history, LateInv, LateAt
    <3>3. QED
      BY <1>5, <2>0, <3>1, <3>2
  <2>3. ASSUME NEW b, row' = [row EXCEPT ![cop[c]] = WithConfig(@, b)], late' = late, cpc[c] # "idle"
        PROVE  LateInv'
    <3>1. PICK o \in Ops : o = cop[c]
      BY <2>3 DEF TypeInv, ClientsOK
    <3> DEFINE r == WithConfig(row[o], b)
    <3>2. row' = [row EXCEPT ![o] = r] /\ r.status = row[o].status /\ r.cancel = row[o].cancel
      BY <2>0, <2>3, <3>1 DEF WithConfig, Row
    <3> HIDE DEF r
    <3>3. QED
      BY <1>5, <2>0, <2>3, <3>2
  <2>4. CASE SaveQueueConfig(c) \/ LinkSave(c)
    BY <2>3, <2>4 DEF SaveQueueConfig, LinkSave, history
  <2>5. CASE CancelSave(c)
    <3>1. PICK o \in Ops : o = cop[c]
      BY <2>5 DEF CancelSave, TypeInv, ClientsOK
    <3> DEFINE r == [row[o] EXCEPT !.cancel = TRUE, !.status = "cancelling"]
    <3>2. row' = [row EXCEPT ![o] = r] /\ r.cancel /\ r.status # "absent"
      BY <2>0, <2>5, <3>1 DEF CancelSave, Row
    <3>3. /\ \A p \in Ops \ {o} : late'[p] = late[p]
          /\ late'[o] = IF late[o] = -1 THEN 0 ELSE late[o]
      BY <2>0, <2>5, <3>1 DEF CancelSave
    <3> HIDE DEF r
    <3>4. QED
      BY <1>5, <2>0, <3>2, <3>3
  <2>6. CASE ResumeSave(c)
    <3>1. PICK o \in Ops : o = cop[c]
      BY <2>6 DEF ResumeSave, TypeInv, ClientsOK
    <3> DEFINE t == Resumed(copy[c])
               r == [WithConfig(row[o], t) EXCEPT !.status = t.status, !.cancel = t.cancel]
    <3>2. row' = [row EXCEPT ![o] = r] /\ late' = [late EXCEPT ![o] = -1]
      BY <2>6, <3>1 DEF ResumeSave
    <3>3. late'[o] = -1 /\ \A p \in Ops \ {o} : late'[p] = late[p]
      BY <2>0, <3>2
    <3> HIDE DEF r
    <3>4. QED
      BY <1>5, <2>0, <3>2, <3>3
  <2>7. QED
    BY <1>6, <2>1, <2>2, <2>4, <2>5, <2>6
       DEF ClientStep, Submit, LinkRead, CancelRead, ResumeRead, rowVars, history
<1>7. QED
  BY <1>2, <1>3, <1>4, <1>6, LateRuns DEF Next, WorkerStep

\* After cancel() has stored its request at most one more step is performed until
\* the operation is resumed, for any plans, workers, processes and crashes, while
\* one thread serves the requests.
THEOREM CancelStops ==
  ASSUME OneClient
  PROVE  Spec => []CancelStopsWithinAStep
<1>1. Init => LateInv
  BY DEF Init, LateInv, LateAt
<1>2. TypeInv /\ LoneInv /\ LateInv /\ [Next]_vars => LateInv'
  BY LateStep
<1>3. LateInv => CancelStopsWithinAStep
  BY DEF LateInv, LateAt, CancelStopsWithinAStep
<1>4. QED
  BY <1>1, <1>2, <1>3, LoneInvariant, PTL DEF Spec

-----------------------------------------------------------------------------
(***************************************************************************)
(* The refinement.  One request at a time, so that an operation is owed or *)
(* runs once; and no process dies, because a crash takes a run away with   *)
(* no end stored, which OperationLifecycle does not know.  The steps that  *)
(* change no status, promise no run and store no end stutter.              *)
(***************************************************************************)
NoCrash == MaxCrashes = 0

Shown  == [o \in Ops |-> row[o].status]
Asked  == [o \in Ops |-> Cardinality(At(o, {"cancel"}))]
Owed   == [o \in Ops |-> jobs[o] + Cardinality(At(o, {"submit", "resubmit"}))]
Runs   == [o \in Ops |-> Cardinality(RunsOf(o))]
Ending == [o \in Ops |-> {loc[w].status : w \in {v \in RunsOf(o) : wpc[v] = "publish"}}]

\* The abstract step, or a stutter.
LifecycleStep == [Lifecycle!Next]_(Lifecycle!vars)

LEMMA Stutters ==
  ASSUME UNCHANGED <<Shown, Asked, Owed, Runs, Ending, notice>>
  PROVE  LifecycleStep
BY DEF LifecycleStep, Lifecycle!vars, Shown, Asked, Owed, Runs, Ending

LEMMA Counted ==
  ASSUME OneClient, NEW c \in Clients, NEW S \in SUBSET Clients
  PROVE  Cardinality(S) = IF c \in S THEN 1 ELSE 0
<1>1. CASE c \in S
  <2>1. S = {c}
    BY <1>1 DEF OneClient
  <2>2. QED
    BY <1>1, <2>1, FS_Singleton
<1>2. CASE c \notin S
  <2>1. S = {}
    BY <1>2 DEF OneClient
  <2>2. QED
    BY <1>2, <2>1, FS_EmptySet
<1>3. QED
  BY <1>1, <1>2

LEMMA RunCounted ==
  ASSUME IsFiniteSet(Workers), NEW S \in SUBSET Workers, NEW w \in Workers \ S
  PROVE  /\ Cardinality(S) \in Nat
         /\ Cardinality(S \cup {w}) = Cardinality(S) + 1
BY FS_Subset, FS_CardinalityType, FS_AddElement

\* What one handler asks and owes, before its step and after it.
LEMMA HandlerCounts ==
  ASSUME OneClient, NEW c \in Clients, NEW o \in Ops
  PROVE  /\ Asked[o] = IF cop[c] = o /\ cpc[c] = "cancel" THEN 1 ELSE 0
         /\ Asked'[o] = IF cop'[c] = o /\ cpc'[c] = "cancel" THEN 1 ELSE 0
         /\ Owed[o] = jobs[o] + (IF Owing(c, o) THEN 1 ELSE 0)
         /\ Owed'[o] = jobs'[o] + (IF Owing(c, o)' THEN 1 ELSE 0)
<1>1. /\ At(o, {"cancel"}) \in SUBSET Clients /\ At(o, {"submit", "resubmit"}) \in SUBSET Clients
      /\ At(o, {"cancel"})' \in SUBSET Clients /\ At(o, {"submit", "resubmit"})' \in SUBSET Clients
  BY DEF At
<1>2. /\ c \in At(o, {"cancel"}) <=> cop[c] = o /\ cpc[c] = "cancel"
      /\ c \in At(o, {"cancel"})' <=> cop'[c] = o /\ cpc'[c] = "cancel"
      /\ c \in At(o, {"submit", "resubmit"}) <=> Owing(c, o)
      /\ c \in At(o, {"submit", "resubmit"})' <=> Owing(c, o)'
  BY DEF At, Owing
<1>3. /\ Cardinality(At(o, {"cancel"})) = IF c \in At(o, {"cancel"}) THEN 1 ELSE 0
      /\ Cardinality(At(o, {"cancel"})') = IF c \in At(o, {"cancel"})' THEN 1 ELSE 0
      /\ Cardinality(At(o, {"submit", "resubmit"})) = IF c \in At(o, {"submit", "resubmit"}) THEN 1 ELSE 0
      /\ Cardinality(At(o, {"submit", "resubmit"})') = IF c \in At(o, {"submit", "resubmit"})' THEN 1 ELSE 0
  BY <1>1, Counted
<1>4. QED
  BY <1>2, <1>3 DEF Asked, Owed

\* A step of a handler leaves the runs alone.
LEMMA HandlerFrame ==
  ASSUME UNCHANGED workerVars
  PROVE  Runs' = Runs /\ Ending' = Ending
BY DEF Runs, Ending, RunsOf, workerVars

\* A step of a worker leaves what was asked alone, and what is owed but for the queue.
LEMMA WorkerFrame ==
  ASSUME UNCHANGED clientVars
  PROVE  Asked' = Asked /\ (jobs' = jobs => Owed' = Owed)
BY DEF Asked, Owed, At, clientVars

\* A run that goes on: it is still counted, and when it comes to publish its end is stored.
LEMMA RunGoesOn ==
  ASSUME TypeInv, NEW w \in Workers, NEW o \in Ops, o = wop[w], wpc[w] \notin {"idle", "publish"},
         NEW to, NEW l, Goto(w, to, l), wop' = wop
  PROVE  /\ Runs' = Runs
         /\ to # "publish" => Ending' = Ending
         /\ to = "publish" => Ending' = [Ending EXCEPT ![o] = @ \cup {l.status}]
<1>1. /\ wpc'[w] = to /\ loc'[w] = l
      /\ \A v \in Workers \ {w} : wpc'[v] = wpc[v] /\ loc'[v] = loc[v]
  BY DEF Goto, TypeInv, WorkersOK
<1>2. \A p \in Ops : RunsOf(p)' = RunsOf(p)
  BY DEF RunsOf
<1>3. Runs' = Runs
  BY <1>2 DEF Runs
<1>4. ASSUME NEW p \in Ops
      PROVE  Ending'[p] = IF p = o /\ to = "publish" THEN Ending[p] \cup {l.status} ELSE Ending[p]
  <2>1. /\ Ending[p] = {loc[v].status : v \in {x \in Workers : wop[x] = p /\ wpc[x] = "publish"}}
        /\ Ending'[p] = {loc'[v].status : v \in {x \in Workers : wop[x] = p /\ wpc'[x] = "publish"}}
    BY DEF Ending, RunsOf
  <2>2. CASE p = o /\ to = "publish"
    <3>1. {x \in Workers : wop[x] = p /\ wpc'[x] = "publish"}
            = {x \in Workers : wop[x] = p /\ wpc[x] = "publish"} \cup {w}
      BY <1>1, <2>2
    <3>2. \A x \in {x \in Workers : wop[x] = p /\ wpc[x] = "publish"} : loc'[x] = loc[x]
      BY <1>1
    <3>3. QED
      BY <1>1, <2>1, <2>2, <3>1, <3>2
  <2>3. CASE ~(p = o /\ to = "publish")
    <3>1. {x \in Workers : wop[x] = p /\ wpc'[x] = "publish"}
            = {x \in Workers : wop[x] = p /\ wpc[x] = "publish"}
      BY <1>1, <2>3
    <3>2. \A x \in {x \in Workers : wop[x] = p /\ wpc[x] = "publish"} : loc'[x] = loc[x]
      BY <1>1
    <3>3. QED
      BY <2>1, <2>3, <3>1, <3>2
  <2>4. QED
    BY <2>2, <2>3
<1>5. Ending \in [Ops -> SUBSET {loc[v].status : v \in Workers}] /\ DOMAIN Ending' = Ops
  BY DEF Ending, RunsOf
<1>6. Ending' = [p \in Ops |-> Ending'[p]] /\ Ending = [p \in Ops |-> Ending[p]]
  BY DEF Ending
<1>7. to # "publish" => Ending' = Ending
  BY <1>4, <1>6
<1>8. to = "publish" => Ending' = [Ending EXCEPT ![o] = @ \cup {l.status}]
  BY <1>4, <1>6
<1>9. QED
  BY <1>3, <1>7, <1>8

\* A run that is over is not counted any more, and what it stored is told.
LEMMA RunIsOver ==
  ASSUME IsFiniteSet(Workers), TypeInv, NEW w \in Workers, NEW o \in Ops, o = wop[w], Release(w)
  PROVE  /\ Runs[o] > 0
         /\ Runs' = [Runs EXCEPT ![o] = @ - 1]
         /\ wpc[w] # "publish" => Ending' = Ending
         /\ wpc[w] = "publish" =>
              /\ loc[w].status \in Ending[o]
              /\ \E left \in {Ending[o], Ending[o] \ {loc[w].status}} : Ending' = [Ending EXCEPT ![o] = left]
<1>1. /\ wpc'[w] = "idle" /\ wop'[w] = None /\ None \notin Ops
      /\ \A v \in Workers \ {w} : wpc'[v] = wpc[v] /\ wop'[v] = wop[v] /\ loc'[v] = loc[v]
  BY ConstantAssumption DEF Release, TypeInv, WorkersOK
<1>2. /\ \A p \in Ops \ {o} : RunsOf(p)' = RunsOf(p)
      /\ RunsOf(o) = RunsOf(o)' \cup {w} /\ w \notin RunsOf(o)'
      /\ RunsOf(o)' \in SUBSET Workers
  BY <1>1 DEF RunsOf
<1>3. /\ Cardinality(RunsOf(o)') \in Nat
      /\ Cardinality(RunsOf(o)' \cup {w}) = Cardinality(RunsOf(o)') + 1
  BY <1>2, RunCounted
<1>4. /\ Runs[o] = Runs'[o] + 1 /\ Runs'[o] \in Nat
      /\ \A p \in Ops \ {o} : Runs'[p] = Runs[p]
  BY <1>2, <1>3 DEF Runs
<1>5. /\ Runs = [p \in Ops |-> Runs[p]] /\ Runs' = [p \in Ops |-> Runs'[p]]
      /\ Ending = [p \in Ops |-> Ending[p]] /\ Ending' = [p \in Ops |-> Ending'[p]]
  BY DEF Runs, Ending
<1>6. Runs[o] > 0 /\ Runs' = [Runs EXCEPT ![o] = @ - 1]
  BY <1>4, <1>5
<1> DEFINE Telling(p) == {x \in Workers : wop[x] = p /\ wpc[x] = "publish"}
<1>7. /\ \A p \in Ops : Ending[p] = {loc[v].status : v \in Telling(p)}
      /\ \A p \in Ops : Ending'[p] = {loc'[v].status : v \in {x \in Workers : wop'[x] = p /\ wpc'[x] = "publish"}}
  BY DEF Ending, RunsOf
<1>8. \A p \in Ops : {x \in Workers : wop'[x] = p /\ wpc'[x] = "publish"} = Telling(p) \ {w}
  BY <1>1
<1>9. \A p \in Ops : Ending'[p] = {loc[v].status : v \in Telling(p) \ {w}}
  BY <1>1, <1>7, <1>8
<1>10. \A p \in Ops \ {o} : Ending'[p] = Ending[p]
  <2>1. \A p \in Ops \ {o} : Telling(p) \ {w} = Telling(p)
    OBVIOUS
  <2>2. QED
    BY <1>7, <1>9, <2>1
<1>11. CASE wpc[w] # "publish"
  <2>1. Telling(o) \ {w} = Telling(o)
    BY <1>11
  <2>2. Ending'[o] = Ending[o]
    BY <1>7, <1>9, <2>1
  <2>3. Ending' = Ending
    BY <1>5, <1>10, <2>2
  <2>4. QED
    BY <1>6, <1>11, <2>3
<1>12. CASE wpc[w] = "publish"
  <2>1. w \in Telling(o) /\ loc[w].status \in Ending[o]
    BY <1>7, <1>12
  <2>2. Ending[o] = Ending'[o] \cup {loc[w].status}
    BY <1>7, <1>9, <2>1
  <2>3. Ending'[o] \in {Ending[o], Ending[o] \ {loc[w].status}}
    BY <2>2
  <2>4. Ending' = [Ending EXCEPT ![o] = Ending'[o]]
    BY <1>5, <1>10
  <2>5. QED
    BY <1>6, <1>12, <2>1, <2>3, <2>4
<1>13. QED
  BY <1>11, <1>12

\* The status of one operation changes.
LEMMA ShownBecomes ==
  ASSUME TypeInv, NEW o \in Ops, NEW r, row' = [row EXCEPT ![o] = r]
  PROVE  /\ Shown' = [Shown EXCEPT ![o] = r.status]
         /\ r.status = row[o].status => Shown' = Shown
BY DEF Shown, TypeInv, TablesOK

\* The steps of a run.
LEMMA TakeRefines ==
  ASSUME IsFiniteSet(Workers), TypeInv, LoneInv, NEW w \in Workers, NEW o \in Ops, Take(w, o)
  PROVE  LifecycleStep
<1>1. /\ wpc[w] = "idle" /\ wop[w] = None /\ None \notin Ops /\ jobs[o] > 0
      /\ wpc'[w] \in {"orphan", "lock"} /\ wop'[w] = o
      /\ \A v \in Workers \ {w} : wpc'[v] = wpc[v] /\ wop'[v] = wop[v] /\ loc'[v] = loc[v]
      /\ jobs' = [jobs EXCEPT ![o] = @ - 1] /\ UNCHANGED <<row, clientVars, notice>>
  BY ConstantAssumption DEF Take, Goto, TypeInv, WorkersOK, LoneInv
<1>2. /\ \A p \in Ops \ {o} : RunsOf(p)' = RunsOf(p)
      /\ RunsOf(o)' = RunsOf(o) \cup {w} /\ w \notin RunsOf(o)
      /\ RunsOf(o) \in SUBSET Workers
  BY <1>1 DEF RunsOf
<1>3. Cardinality(RunsOf(o) \cup {w}) = Cardinality(RunsOf(o)) + 1
  BY <1>2, RunCounted
<1>4. Runs' = [Runs EXCEPT ![o] = @ + 1]
  BY <1>2, <1>3 DEF Runs
<1>5. \A p \in Ops : Ending'[p] = Ending[p]
  <2>1. ASSUME NEW p \in Ops
        PROVE  Ending'[p] = Ending[p]
    <3>1. /\ Ending[p] = {loc[v].status : v \in {x \in Workers : wop[x] = p /\ wpc[x] = "publish"}}
          /\ Ending'[p] = {loc'[v].status : v \in {x \in Workers : wop'[x] = p /\ wpc'[x] = "publish"}}
      BY DEF Ending, RunsOf
    <3>2. {x \in Workers : wop'[x] = p /\ wpc'[x] = "publish"} = {x \in Workers : wop[x] = p /\ wpc[x] = "publish"}
      BY <1>1
    <3>3. \A x \in {x \in Workers : wop[x] = p /\ wpc[x] = "publish"} : loc'[x] = loc[x]
      BY <1>1
    <3>4. QED
      BY <3>1, <3>2, <3>3
  <2>2. QED
    BY <2>1
<1>6. Ending' = Ending
  BY <1>5 DEF Ending
<1>7. /\ \A p \in Ops : At(p, {"submit", "resubmit"})' = At(p, {"submit", "resubmit"})
      /\ \A p \in Ops : At(p, {"cancel"})' = At(p, {"cancel"})
  BY <1>1 DEF At, clientVars
<1>8. \A c \in Clients : ~Owing(c, o)
  BY <1>1 DEF LoneInv, LoneAt
<1>9. At(o, {"submit", "resubmit"}) = {}
  BY <1>8 DEF At, Owing
<1>10. Owed[o] = jobs[o] /\ jobs \in [Ops -> Nat]
  <2>1. Cardinality(At(o, {"submit", "resubmit"})) = 0 /\ jobs \in [Ops -> Nat]
    BY <1>9, FS_EmptySet DEF TypeInv, TablesOK
  <2>2. QED
    BY <2>1 DEF Owed
<1>11. Owed' = [Owed EXCEPT ![o] = @ - 1]
  <2>1. Owed'[o] = jobs[o] - 1
    <3>1. Cardinality(At(o, {"submit", "resubmit"})') = 0
      BY <1>7, <1>9, FS_EmptySet
    <3>2. jobs'[o] = jobs[o] - 1 /\ jobs[o] - 1 \in Int
      BY <1>1, <1>10
    <3>3. QED
      BY <3>1, <3>2 DEF Owed
  <2>2. \A p \in Ops \ {o} : Owed'[p] = Owed[p]
    BY <1>1, <1>7, <1>10 DEF Owed
  <2>3. Owed = [p \in Ops |-> Owed[p]] /\ Owed' = [p \in Ops |-> Owed'[p]]
    BY DEF Owed
  <2>4. QED
    BY <1>10, <2>1, <2>2, <2>3
<1>12. UNCHANGED <<Shown, Asked, notice>>
  BY <1>1, <1>7 DEF Shown, Asked
<1>13. Lifecycle!Take(o)
  BY <1>1, <1>4, <1>6, <1>10, <1>11, <1>12 DEF Lifecycle!Take, Shown, Asked, Owed, Runs, Ending
<1>14. QED
  BY <1>13 DEF LifecycleStep, Lifecycle!Next

\* What a busy run finds in the row.
LEMMA BusyShows ==
  ASSUME TypeInv, LoneInv, NEW w \in Workers, NEW o \in Ops, o = wop[w], wpc[w] \notin {"idle", "publish"}
  PROVE  /\ row[o] \in Row /\ loc[w] \in Row /\ row = [row EXCEPT ![o] = row[o]]
         /\ Shown[o] = row[o].status
         /\ row[o].status \in {"queued", "running", "cancelling"}
<1>1. Busy(w, o) /\ LoneAt(o)
  BY DEF Busy, LoneInv
<1>2. row[o] \in Row /\ loc[w] \in Row /\ row = [row EXCEPT ![o] = row[o]]
  BY DEF TypeInv, TablesOK, WorkersOK
<1>3. row[o].status \notin Ended \cup {"absent"}
  BY <1>1 DEF LoneAt
<1>4. row[o].status \in Status
  BY <1>2 DEF Row
<1>5. QED
  BY <1>2, <1>3, <1>4 DEF Shown, Status, Ended, Terminal, Resumable

\* A run in progress is counted.
LEMMA BusyCounts ==
  ASSUME IsFiniteSet(Workers), NEW w \in Workers, NEW o \in Ops, o = wop[w]
  PROVE  Runs[o] > 0
<1>1. PICK S \in SUBSET Workers : S = RunsOf(o) \ {w}
  BY DEF RunsOf
<1>2. RunsOf(o) = S \cup {w} /\ w \notin S
  BY <1>1 DEF RunsOf
<1>3. Cardinality(S) \in Nat /\ Cardinality(S \cup {w}) = Cardinality(S) + 1
  BY <1>2, RunCounted
<1>4. Runs[o] = Cardinality(S \cup {w})
  BY <1>2 DEF Runs
<1>5. QED
  BY <1>3, <1>4

\* A step of a run that keeps the status and stores no end.
LEMMA RunStutters ==
  ASSUME TypeInv, NEW w \in Workers, NEW o \in Ops, o = wop[w], wpc[w] \notin {"idle", "publish"},
         NEW to, to # "publish", NEW l, Goto(w, to, l), UNCHANGED <<wop, jobs, clientVars, notice>>,
         NEW r, row' = [row EXCEPT ![o] = r], r.status = row[o].status
  PROVE  LifecycleStep
<1>1. wop' = wop /\ jobs' = jobs /\ UNCHANGED clientVars /\ notice' = notice
  OBVIOUS
<1>2. Asked' = Asked /\ Owed' = Owed
  BY <1>1, WorkerFrame
<1>3. Runs' = Runs /\ Ending' = Ending
  BY <1>1, RunGoesOn
<1>4. Shown' = Shown
  BY ShownBecomes
<1>5. QED
  BY <1>1, <1>2, <1>3, <1>4, Stutters

\* A step of a run that stores an end.
LEMMA RunStops ==
  ASSUME IsFiniteSet(Workers), TypeInv, LoneInv, NEW w \in Workers, NEW o \in Ops, o = wop[w],
         wpc[w] \notin {"idle", "publish"},
         NEW l, Goto(w, "publish", l), UNCHANGED <<wop, jobs, clientVars, notice>>, l.status \in Ended,
         NEW r, row' = [row EXCEPT ![o] = r], r.status = l.status
  PROVE  LifecycleStep
<1>1. wop' = wop /\ jobs' = jobs /\ UNCHANGED clientVars /\ notice' = notice
  OBVIOUS
<1>2. Asked' = Asked /\ Owed' = Owed
  BY <1>1, WorkerFrame
<1>3. Runs' = Runs /\ Ending' = [Ending EXCEPT ![o] = @ \cup {l.status}]
  BY <1>1, RunGoesOn
<1>4. Shown' = [Shown EXCEPT ![o] = l.status]
  BY ShownBecomes, ZenonT(60)
<1>5. Runs[o] > 0 /\ Shown[o] \in {"queued", "running", "cancelling"}
  BY BusyCounts, BusyShows
<1>6. Lifecycle!Stop(o, l.status)
  BY <1>1, <1>2, <1>3, <1>4, <1>5 DEF Lifecycle!Stop, Lifecycle!Become, Shown, Asked, Owed, Runs, Ending
<1>7. l.status \in Lifecycle!Ended
  BY DEF Ended, Lifecycle!Ended
<1>8. QED
  BY <1>6, <1>7 DEF LifecycleStep, Lifecycle!Next

LEMMA RunRefines ==
  ASSUME IsFiniteSet(Workers), TypeInv, LoneInv, NEW w \in Workers, RunStep(w)
  PROVE  LifecycleStep
<1>0. wpc[w] # "idle"
  BY DEF RunStep, FailOrphan, Acquire, CancelBeforeStart, Start, Check, Mark, Tool, Record,
         Replan, SavePlan, Save, Publish
<1>1. PICK o \in Ops : o = wop[w]
  BY <1>0 DEF TypeInv, WorkersOK
<1>2. CASE Publish(w)
  <2>0. PICK t : t = loc[w].status
    OBVIOUS
  <2>1. /\ Release(w) /\ wpc[w] = "publish" /\ notice' = [notice EXCEPT ![o] = t]
        /\ UNCHANGED <<row, jobs>> /\ UNCHANGED clientVars
    BY <1>1, <1>2, <2>0 DEF Publish, rowVars
  <2>2. /\ Runs[o] > 0 /\ Runs' = [Runs EXCEPT ![o] = @ - 1] /\ t \in Ending[o]
        /\ \E left \in {Ending[o], Ending[o] \ {t}} : Ending' = [Ending EXCEPT ![o] = left]
    BY <1>1, <2>0, <2>1, RunIsOver
  <2>3. Asked' = Asked /\ Owed' = Owed /\ Shown' = Shown
    BY <2>1, WorkerFrame DEF Shown
  <2>4. Lifecycle!Tell(o, t)
    BY <2>1, <2>2, <2>3 DEF Lifecycle!Tell, Shown, Asked, Owed, Runs, Ending
  <2>5. t \in Lifecycle!Ended
    BY <2>0, <2>1 DEF LoneInv, Ended, Lifecycle!Ended
  <2>6. QED
    BY <2>4, <2>5 DEF LifecycleStep, Lifecycle!Next
<1>3. CASE FailOrphan(w)
  <2> DEFINE r == [loc[w] EXCEPT !.status = "failed"]
  <2>1. /\ Release(w) /\ wpc[w] = "orphan" /\ row' = [row EXCEPT ![o] = r]
        /\ UNCHANGED <<jobs, notice>> /\ UNCHANGED clientVars
    BY <1>1, <1>3 DEF FailOrphan
  <2>2. r.status = "failed"
    BY DEF TypeInv, WorkersOK, Row
  <2> HIDE DEF r
  <2>3. Runs[o] > 0 /\ Runs' = [Runs EXCEPT ![o] = @ - 1] /\ Ending' = Ending
    BY <1>1, <2>1, RunIsOver
  <2>4. Asked' = Asked /\ Owed' = Owed
    BY <2>1, WorkerFrame
  <2>5. Shown' = [Shown EXCEPT ![o] = "failed"]
    BY <2>1, <2>2, ShownBecomes
  <2>6. Lifecycle!GiveUp(o)
    BY <2>1, <2>3, <2>4, <2>5 DEF Lifecycle!GiveUp, Lifecycle!Become, Shown, Asked, Owed, Runs, Ending
  <2>7. QED
    BY <2>6 DEF LifecycleStep, Lifecycle!Next
<1>4. ASSUME wpc[w] \notin {"idle", "publish"}
      PROVE  /\ row[o] \in Row /\ loc[w] \in Row /\ row = [row EXCEPT ![o] = row[o]]
             /\ Shown[o] = row[o].status /\ row[o].status \in {"queued", "running", "cancelling"}
             /\ Runs[o] > 0
  BY <1>1, <1>4, BusyShows, BusyCounts
<1>5. ASSUME wpc[w] \notin {"idle", "publish"}, UNCHANGED <<row, wop, jobs, clientVars, notice>>,
             NEW to, to # "publish", NEW l, Goto(w, to, l)
      PROVE  LifecycleStep
  <2>1. row' = [row EXCEPT ![o] = row[o]]
    BY <1>4, <1>5
  <2>2. QED
    BY <1>1, <1>5, <2>1, RunStutters
<1>6. CASE Acquire(w) \/ Check(w) \/ Tool(w) \/ Replan(w)
  <2>1. wpc[w] \notin {"idle", "publish"} /\ UNCHANGED <<row, wop, jobs, clientVars, notice>>
    BY <1>6 DEF Acquire, Check, Tool, Replan, rowVars
  <2>2. \/ \E l : Goto(w, "precancel", l) \/ Goto(w, "start", l) \/ Goto(w, "mark", l)
        \/ \E l : Goto(w, "save", l) \/ Goto(w, "record", l) \/ Goto(w, "replan", l) \/ Goto(w, "saveplan", l)
    BY <1>6 DEF Acquire, Check, Tool, Replan, StepSucceeds, StepWaits, StepInterrupted, StepFails,
                StepRaises, End
  <2>3. PICK to, l : Goto(w, to, l) /\ to # "publish"
    BY <2>2
  <2>4. QED
    BY <1>5, <2>1, <2>3
<1>7. CASE Mark(w) \/ Record(w) \/ SavePlan(w)
  <2> DEFINE q == row[o]
             a == [q EXCEPT !.step = loc[w].step]
             b == [WithConfig(q, loc[w]) EXCEPT !.step = loc[w].step, !.done = loc[w].done]
             d == [WithConfig(q, loc[w]) EXCEPT !.plan = loc[w].plan, !.step = loc[w].step]
  <2>1. wpc[w] \notin {"idle", "publish"} /\ UNCHANGED <<wop, jobs, clientVars, notice>>
    BY <1>7 DEF Mark, Record, SavePlan
  <2>2. \/ Goto(w, "tool", loc[w]) /\ row' = [row EXCEPT ![o] = a]
        \/ Goto(w, "check", loc[w]) /\ row' = [row EXCEPT ![o] = b]
        \/ Goto(w, "check", loc[w]) /\ row' = [row EXCEPT ![o] = d]
    BY <1>1, <1>4, <1>7, <2>1 DEF Mark, Record, SavePlan
  <2>3. a.status = row[o].status /\ b.status = row[o].status /\ d.status = row[o].status
    BY <1>4, <2>1 DEF Row, WithConfig
  <2> HIDE DEF a, b, d
  <2>4. PICK to, l, r : Goto(w, to, l) /\ to # "publish" /\ row' = [row EXCEPT ![o] = r] /\ r.status = row[o].status
    BY <2>2, <2>3
  <2>5. QED
    BY <1>1, <2>1, <2>4, RunStutters
<1>8. CASE Start(w)
  <2> DEFINE r == [row[o] EXCEPT !.status = "running"]
             l == [loc[w] EXCEPT !.status = "running"]
  <2>1. /\ wpc[w] \notin {"idle", "publish"} /\ UNCHANGED <<wop, jobs, clientVars, notice>>
        /\ wop' = wop /\ jobs' = jobs /\ notice' = notice /\ UNCHANGED clientVars
        /\ row' = [row EXCEPT ![o] = r] /\ Goto(w, "check", l)
    BY <1>1, <1>8 DEF Start
  <2>2. r.status = "running"
    BY <1>4, <2>1 DEF Row
  <2> HIDE DEF r, l
  <2>3. CASE row[o].status = "running"
    BY <1>1, <2>1, <2>2, <2>3, RunStutters
  <2>4. CASE row[o].status # "running"
    <3>1. Asked' = Asked /\ Owed' = Owed
      BY <2>1, WorkerFrame
    <3>2. Runs' = Runs /\ Ending' = Ending
      BY <1>1, <2>1, RunGoesOn
    <3>3. Shown' = [Shown EXCEPT ![o] = "running"]
      BY <2>1, <2>2, ShownBecomes
    <3>4. Runs[o] > 0 /\ Shown[o] \in {"queued", "cancelling"}
      BY <1>4, <2>1, <2>4
    <3>5. Lifecycle!Start(o)
      BY <2>1, <3>1, <3>2, <3>3, <3>4 DEF Lifecycle!Start, Lifecycle!Become, Shown, Asked, Owed, Runs, Ending
    <3>6. QED
      BY <3>5 DEF LifecycleStep, Lifecycle!Next
  <2>5. QED
    BY <2>3, <2>4
<1>9. CASE CancelBeforeStart(w)
  <2> DEFINE r == [row[o] EXCEPT !.status = "cancelled"]
             l == [loc[w] EXCEPT !.status = "cancelled"]
  <2>1. /\ wpc[w] \notin {"idle", "publish"} /\ UNCHANGED <<wop, jobs, clientVars, notice>>
        /\ row' = [row EXCEPT ![o] = r] /\ Goto(w, "publish", l)
    BY <1>1, <1>9 DEF CancelBeforeStart
  <2>2. r.status = l.status /\ l.status \in Ended
    BY <1>4, <2>1 DEF Row, Ended
  <2> HIDE DEF r, l
  <2>3. QED
    BY <1>1, <2>1, <2>2, RunStops
<1>10. CASE Save(w)
  <2>1. /\ wpc[w] = "save" /\ UNCHANGED <<wop, jobs, clientVars, notice>>
        /\ row' = [row EXCEPT ![o] = loc[w]] /\ Goto(w, "publish", loc[w])
    BY <1>1, <1>10 DEF Save
  <2>2. loc[w].status \in Ended /\ wpc[w] \notin {"idle", "publish"}
    BY <2>1 DEF LoneInv
  <2>3. QED
    BY <1>1, <2>1, <2>2, RunStops
<1>11. QED
  BY <1>2, <1>3, <1>6, <1>7, <1>8, <1>9, <1>10 DEF RunStep

\* The steps of a handler: six stutter, four are steps of the lifecycle.
LEMMA ClientRefines ==
  ASSUME OneClient, TypeInv, LoneInv, NEW c \in Clients, ClientStep(c)
  PROVE  LifecycleStep
<1>0. /\ UNCHANGED workerVars /\ notice' = notice /\ copy[c] \in Row
      /\ cpc \in [Clients -> ClientPC] /\ cop \in [Clients -> Ops \cup {None}]
      /\ row \in [Ops -> Row] /\ jobs \in [Ops -> Nat]
      /\ Runs' = Runs /\ Ending' = Ending
  BY HandlerFrame DEF ClientStep, Create, Submit, SaveQueueConfig, LinkRead, LinkSave, CancelRead,
         CancelSave, ResumeRead, ResumeSave, TypeInv, ClientsOK, TablesOK
<1>a. ASSUME NEW to, NEW o, NEW r, Handle(c, to, o, r)
      PROVE  cpc'[c] = to /\ cop'[c] = o
  BY <1>0, <1>a DEF Handle
<1>b. ASSUME Answer(c)
      PROVE  cpc'[c] = "idle"
  BY <1>0, <1>b DEF Handle, Answer
<1>c. /\ Asked = [o \in Ops |-> Asked[o]] /\ Asked' = [o \in Ops |-> Asked'[o]]
      /\ Owed = [o \in Ops |-> Owed[o]] /\ Owed' = [o \in Ops |-> Owed'[o]]
      /\ Shown = [o \in Ops |-> Shown[o]] /\ Shown' = [o \in Ops |-> Shown'[o]]
      /\ \A o \in Ops : Shown[o] = row[o].status /\ Shown'[o] = row'[o].status
  BY DEF Asked, Owed, Shown
<1>d. \A o \in Ops : /\ Asked[o] = IF cop[c] = o /\ cpc[c] = "cancel" THEN 1 ELSE 0
                     /\ Asked'[o] = IF cop'[c] = o /\ cpc'[c] = "cancel" THEN 1 ELSE 0
                     /\ Owed[o] = jobs[o] + (IF Owing(c, o) THEN 1 ELSE 0)
                     /\ Owed'[o] = jobs'[o] + (IF Owing(c, o)' THEN 1 ELSE 0)
  BY HandlerCounts
<1>1. ASSUME \A o \in Ops : row'[o].status = row[o].status, jobs' = jobs,
             \A o \in Ops : Owing(c, o)' <=> Owing(c, o),
             cpc[c] # "cancel", cpc'[c] # "cancel"
      PROVE  LifecycleStep
  <2>1. Shown' = Shown
    BY <1>1, <1>c
  <2>2. \A o \in Ops : Asked'[o] = Asked[o] /\ Owed'[o] = Owed[o]
    BY <1>1, <1>d
  <2>3. Asked' = Asked /\ Owed' = Owed
    BY <1>c, <2>2
  <2>4. QED
    BY <1>0, <2>1, <2>3, Stutters
<1>2. ASSUME NEW o \in Ops, Create(c, o)
      PROVE  LifecycleStep
  <2>1. PICK p \in Plans : row' = [row EXCEPT ![o] = NewRow(p)] /\ Handle(c, "submit", o, NewRow(p))
    BY <1>2 DEF Create
  <2>2. NewRow(p).status = "queued"
    BY DEF NewRow, NoRow
  <2>3. row[o].status = "absent" /\ jobs' = jobs /\ cpc[c] = "idle" /\ cpc'[c] = "submit" /\ cop'[c] = o
    BY <1>2, <1>a, <2>1 DEF Create
  <2>4. Shown' = [Shown EXCEPT ![o] = "queued"] /\ Shown[o] = "absent"
    <3>1. Shown' = [Shown EXCEPT ![o] = NewRow(p).status]
      BY <2>1, ShownBecomes
    <3>2. QED
      BY <1>c, <2>2, <2>3, <3>1
  <2>5. /\ \A p2 \in Ops : ~Owing(c, p2) /\ (Owing(c, p2)' <=> p2 = o)
        /\ \A p2 \in Ops : jobs'[p2] = jobs[p2] /\ jobs[p2] \in Nat
    BY <1>0, <2>3 DEF Owing
  <2>6. /\ \A p2 \in Ops : Asked'[p2] = Asked[p2]
        /\ \A p2 \in Ops : Owed'[p2] = IF p2 = o THEN Owed[p2] + 1 ELSE Owed[p2]
    BY <1>d, <2>3, <2>5
  <2>7. Asked' = Asked /\ Owed' = [Owed EXCEPT ![o] = @ + 1]
    BY <1>c, <2>6
  <2>8. Lifecycle!Create(o)
    BY <1>0, <2>4, <2>7 DEF Lifecycle!Create, Lifecycle!Become, Shown, Asked, Owed, Runs, Ending
  <2>9. QED
    BY <2>8 DEF LifecycleStep, Lifecycle!Next
<1>3. CASE Submit(c)
  <2>1. PICK o \in Ops : o = cop[c]
    BY <1>3 DEF Submit, TypeInv, ClientsOK
  <2>2. /\ jobs' = [jobs EXCEPT ![o] = @ + 1] /\ cpc'[c] \in {"queueconfig", "requeueconfig"}
        /\ cpc[c] \in {"submit", "resubmit"} /\ row' = row
    BY <1>3, <1>a, <2>1 DEF Submit
  <2>3. \A p \in Ops : /\ ~Owing(c, p)' /\ (Owing(c, p) <=> p = o) /\ jobs[p] \in Nat
                       /\ jobs'[p] = IF p = o THEN jobs[p] + 1 ELSE jobs[p]
    BY <1>0, <2>1, <2>2 DEF Owing
  <2>4. \A p \in Ops : Asked'[p] = Asked[p] /\ Owed'[p] = Owed[p]
    BY <1>d, <2>2, <2>3
  <2>5. Shown' = Shown /\ Asked' = Asked /\ Owed' = Owed
    BY <1>c, <2>2, <2>4
  <2>6. QED
    BY <1>0, <2>5, Stutters
<1>4. ASSUME NEW b, row' = [row EXCEPT ![cop[c]] = WithConfig(@, b)], jobs' = jobs,
             cop[c] \in Ops, cpc[c] \in {"queueconfig", "requeueconfig", "linksave"},
             cpc'[c] \in {"idle", "linkread"}
      PROVE  LifecycleStep
  <2>1. \A o \in Ops : row'[o].status = row[o].status
    BY <1>0, <1>4 DEF WithConfig, Row
  <2>2. \A o \in Ops : Owing(c, o)' <=> Owing(c, o)
    BY <1>4 DEF Owing
  <2>3. QED
    BY <1>1, <1>4, <2>1, <2>2
<1>5. CASE SaveQueueConfig(c)
  <2>1. cop[c] \in Ops
    BY <1>5 DEF SaveQueueConfig, TypeInv, ClientsOK
  <2>2. cpc'[c] \in {"idle", "linkread"}
    BY <1>5, <1>a, <1>b DEF SaveQueueConfig
  <2>3. QED
    BY <1>4, <1>5, <2>1, <2>2 DEF SaveQueueConfig
<1>6. CASE LinkSave(c)
  <2>1. cop[c] \in Ops
    BY <1>6 DEF LinkSave, TypeInv, ClientsOK
  <2>2. cpc'[c] = "idle"
    BY <1>6, <1>b DEF LinkSave
  <2>3. QED
    BY <1>4, <1>6, <2>1, <2>2 DEF LinkSave
<1>7. CASE LinkRead(c) \/ \E o \in Ops : ResumeRead(c, o)
  <2>1. row' = row /\ jobs' = jobs /\ cpc[c] \in {"linkread", "idle"} /\ cpc'[c] \in {"linksave", "resume"}
    BY <1>7, <1>a DEF LinkRead, ResumeRead, rowVars
  <2>2. \A o \in Ops : Owing(c, o)' <=> Owing(c, o)
    BY <2>1 DEF Owing
  <2>3. QED
    BY <1>1, <2>1, <2>2
<1>8. ASSUME NEW o \in Ops, CancelRead(c, o)
      PROVE  LifecycleStep
  <2>1. /\ row' = row /\ jobs' = jobs /\ cpc[c] = "idle" /\ cpc'[c] = "cancel" /\ cop'[c] = o
        /\ row[o].status \notin Terminal \cup {"absent"}
    BY <1>8, <1>a DEF CancelRead, rowVars
  <2>2. \A p \in Ops : ~Owing(c, p)' /\ ~Owing(c, p) /\ jobs[p] \in Nat /\ jobs'[p] = jobs[p]
    BY <1>0, <2>1 DEF Owing
  <2>3. \A p \in Ops : Owed'[p] = Owed[p] /\ Asked'[p] = IF p = o THEN Asked[p] + 1 ELSE Asked[p]
    BY <1>d, <2>1, <2>2
  <2>4. Shown' = Shown /\ Owed' = Owed /\ Asked' = [Asked EXCEPT ![o] = @ + 1]
    BY <1>c, <2>1, <2>3
  <2>5. Shown[o] \notin Lifecycle!Closed \cup {"absent"}
    BY <1>c, <2>1 DEF Terminal, Lifecycle!Closed, Lifecycle!Ended
  <2>6. Lifecycle!AskCancel(o)
    BY <1>0, <2>4, <2>5 DEF Lifecycle!AskCancel, Shown, Asked, Owed, Runs, Ending
  <2>7. QED
    BY <2>6 DEF LifecycleStep, Lifecycle!Next
<1>9. CASE CancelSave(c)
  <2>1. PICK o \in Ops : o = cop[c]
    BY <1>9 DEF CancelSave, TypeInv, ClientsOK
  <2> DEFINE r == [row[o] EXCEPT !.cancel = TRUE, !.status = "cancelling"]
  <2>2. row' = [row EXCEPT ![o] = r] /\ jobs' = jobs /\ cpc[c] = "cancel" /\ cpc'[c] = "idle"
    BY <1>0, <1>9, <1>b, <2>1 DEF CancelSave
  <2>3. r.status = "cancelling"
    BY <1>0 DEF Row
  <2> HIDE DEF r
  <2>4. Shown' = [Shown EXCEPT ![o] = "cancelling"]
    BY <2>2, <2>3, ShownBecomes, ZenonT(60)
  <2>5. \A p \in Ops : ~Owing(c, p)' /\ ~Owing(c, p) /\ jobs[p] \in Nat /\ jobs'[p] = jobs[p]
    BY <1>0, <2>2 DEF Owing
  <2>6. \A p \in Ops : Owed'[p] = Owed[p] /\ Asked'[p] = IF p = o THEN Asked[p] - 1 ELSE Asked[p]
    BY <1>d, <2>1, <2>2, <2>5
  <2>7. Owed' = Owed /\ Asked' = [Asked EXCEPT ![o] = @ - 1] /\ Asked[o] > 0
    BY <1>c, <1>d, <2>1, <2>2, <2>6
  <2>8. Lifecycle!StoreCancel(o)
    BY <1>0, <2>4, <2>7 DEF Lifecycle!StoreCancel, Lifecycle!Become, Shown, Asked, Owed, Runs, Ending
  <2>9. QED
    BY <2>8 DEF LifecycleStep, Lifecycle!Next
<1>10. CASE ResumeSave(c)
  <2>1. PICK o \in Ops : o = cop[c]
    BY <1>10 DEF ResumeSave, TypeInv, ClientsOK
  <2> DEFINE t == Resumed(copy[c])
             r == [WithConfig(row[o], t) EXCEPT !.status = t.status, !.cancel = t.cancel]
  <2>2. row' = [row EXCEPT ![o] = r] /\ jobs' = jobs /\ cpc[c] = "resume"
        /\ cpc'[c] = "resubmit" /\ cop'[c] = o
    BY <1>0, <1>10, <1>a, <2>1 DEF ResumeSave
  <2>3. r.status = "queued"
    BY <1>0 DEF Row, Resumed, WithConfig
  <2> HIDE DEF r
  <2>4. Shown' = [Shown EXCEPT ![o] = "queued"]
    <3>1. Shown' = [Shown EXCEPT ![o] = r.status]
      BY <2>2, ShownBecomes
    <3>2. QED
      BY <2>3, <3>1
  <2>5. Shown[o] \in Lifecycle!Resumable
    BY <1>c, <2>1, <2>2 DEF LoneInv, Resumable, Lifecycle!Resumable, Lifecycle!Ended
  <2>6. \A p \in Ops : (Owing(c, p)' <=> p = o) /\ ~Owing(c, p) /\ jobs[p] \in Nat /\ jobs'[p] = jobs[p]
    BY <1>0, <2>2 DEF Owing
  <2>7. \A p \in Ops : Asked'[p] = Asked[p] /\ Owed'[p] = IF p = o THEN Owed[p] + 1 ELSE Owed[p]
    BY <1>d, <2>2, <2>6
  <2>8. Asked' = Asked /\ Owed' = [Owed EXCEPT ![o] = @ + 1]
    BY <1>c, <2>7
  <2>9. Lifecycle!Resume(o)
    BY <1>0, <2>4, <2>5, <2>8 DEF Lifecycle!Resume, Lifecycle!Become, Shown, Asked, Owed, Runs, Ending
  <2>10. QED
    BY <2>9 DEF LifecycleStep, Lifecycle!Next
<1>11. QED
  BY <1>2, <1>3, <1>5, <1>6, <1>7, <1>8, <1>9, <1>10 DEF ClientStep

LEMMA InitRefines == Init => Lifecycle!Init
<1>1. SUFFICES ASSUME Init  PROVE Lifecycle!Init
  OBVIOUS
<1>2. ASSUME NEW o \in Ops
      PROVE  /\ Shown[o] = "absent" /\ Asked[o] = 0 /\ Owed[o] = 0 /\ Runs[o] = 0 /\ Ending[o] = {}
  <2>1. At(o, {"cancel"}) = {} /\ At(o, {"submit", "resubmit"}) = {}
    BY <1>1 DEF Init, At
  <2>2. RunsOf(o) = {}
    BY <1>1, ConstantAssumption DEF Init, RunsOf
  <2>3. jobs[o] = 0 /\ row[o].status = "absent"
    BY <1>1 DEF Init, NoRow
  <2>4. QED
    BY <2>1, <2>2, <2>3, FS_EmptySet DEF Shown, Asked, Owed, Runs, Ending
<1>3. /\ Shown = [o \in Ops |-> "absent"] /\ Asked = [o \in Ops |-> 0] /\ Owed = [o \in Ops |-> 0]
      /\ Runs = [o \in Ops |-> 0] /\ Ending = [o \in Ops |-> {}] /\ notice = [o \in Ops |-> "absent"]
  BY <1>1, <1>2 DEF Shown, Asked, Owed, Runs, Ending, Init
<1>4. QED
  BY <1>3 DEF Lifecycle!Init, Shown, Asked, Owed, Runs, Ending

\* The runtime implements OperationLifecycle: whatever copies of the row handlers
\* and workers hold, a status shows running only while a run is in progress, a run
\* begins only where one was owed, and what the user is told is what a run stored.
THEOREM LifecycleImplemented ==
  ASSUME OneClient, NoCrash, IsFiniteSet(Workers)
  PROVE  Spec => ImplementsLifecycle
<1>1. TypeInv /\ LoneInv /\ [Next]_vars => LifecycleStep
  <2> SUFFICES ASSUME TypeInv, LoneInv, [Next]_vars  PROVE LifecycleStep
    OBVIOUS
  <2>1. CASE UNCHANGED vars
    <3>1. UNCHANGED <<Shown, Asked, Owed, Runs, Ending, notice>>
      BY <2>1 DEF vars, rowVars, clientVars, workerVars, Shown, Asked, Owed, Runs, Ending, At, RunsOf
    <3>2. QED
      BY <3>1, Stutters
  <2>2. ~\E p \in Procs : Crash(p)
    BY DEF Crash, NoCrash, TypeInv, TablesOK
  <2>3. QED
    BY <2>1, <2>2, TakeRefines, RunRefines, ClientRefines DEF Next, WorkerStep
<1>2. QED
  BY <1>1, InitRefines, LoneInvariant, PTL DEF Spec, LifecycleStep, ImplementsLifecycle, Lifecycle!Spec
=============================================================================
