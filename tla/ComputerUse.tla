---------------------------- MODULE ComputerUse ----------------------------
(***************************************************************************)
(* The runtime of a ComputerUseOperation: the durable database row, the    *)
(* HTTP handlers that create, cancel and resume it, the queue they submit  *)
(* to, and the worker threads that run its plan while they hold the        *)
(* in-process lock of the browser session.                                 *)
(*                                                                         *)
(* Every step is one database statement (or one call of a tool).  The ORM  *)
(* reads a row into memory and later writes it back, either whole          *)
(* (save()) or some columns (save(update_fields=...)), so each handler and *)
(* each worker works on a private copy that may be stale when it is saved. *)
(*                                                                         *)
(* Step numbers are one more than the source's list indices; 0 stands for  *)
(* "no approval granted".                                                  *)
(***************************************************************************)
EXTENDS Integers, Sequences, FiniteSets

CONSTANTS
  Ops,           \* operations
  Sessions,      \* browser sessions
  SessionOf,     \* the session of each operation
  Orphans,       \* operations whose session row is deleted before they run
  Delegated,     \* operations created by the Browser Agent
  Workers,       \* threads that run operations
  Procs,         \* operating-system processes
  ProcOf,        \* the process of each worker: the lock table is per process
  Clients,       \* threads that serve HTTP requests
  Steps,         \* the tool calls a plan can hold
  Sensitive,     \* steps BrowserSafetyPolicy finds consequential
  Interruptible, \* steps that poll cancel_requested while they run
  Plans,         \* plans the planner can return
  MaxReplans,    \* configuration["max_replans"]
  MaxSteps,      \* ECHO_COMPUTER_USE_MAX_STEPS
  QueueSurvives, \* TRUE: Celery broker; FALSE: in-process thread pool
  MaxRequests,   \* bound: cancel and resume requests accepted
  MaxCrashes,    \* bound: process crashes
  None           \* no worker, no operation, no step

ASSUME ConstantAssumption ==
  /\ SessionOf \in [Ops -> Sessions]
  /\ ProcOf \in [Workers -> Procs]
  /\ Orphans \subseteq Ops
  /\ Delegated \subseteq Ops
  /\ Sensitive \subseteq Steps
  /\ Interruptible \subseteq Steps
  /\ Plans \subseteq Seq(Steps) \ {<<>>}
  /\ MaxReplans \in Nat
  /\ MaxSteps \in Nat
  /\ QueueSurvives \in BOOLEAN
  /\ MaxRequests \in Nat
  /\ MaxCrashes \in Nat
  /\ None \notin Workers \cup Ops \cup Steps

VARIABLES
  row,       \* the ComputerUseOperation table
  jobs,      \* runs submitted to the queue and not yet taken, per operation
  cpc,       \* control state of a request handler
  cop,       \* the operation the handler serves
  copy,      \* the handler's in-memory instance of the row
  wpc,       \* control state of a worker
  wop,       \* the operation the worker runs
  loc,       \* the worker's in-memory instance of the row
  replans,   \* replan_count, a local of the run
  holder,    \* BrowserSessionService._locks of each process
  notice,    \* status last published to the user
  requests,  \* cancel and resume requests accepted so far
  crashes,   \* crashes so far
  approved,  \* history: what the user was asked to approve and approved: <<number, step>>
  acted,     \* history: consequential steps performed, with their numbers
  late       \* history: steps performed since an accepted cancellation

rowVars    == <<row, jobs>>
clientVars == <<cpc, cop, copy>>
workerVars == <<wpc, wop, loc, replans, holder>>
history    == <<approved, acted, late>>
bounds     == <<requests, crashes>>
vars == <<rowVars, clientVars, workerVars, notice, bounds, history>>

Terminal  == {"completed", "failed", "cancelled"}
Resumable == {"waiting_user", "failed", "cancelled"}
Status    == {"absent", "queued", "running", "cancelling"} \cup Terminal \cup Resumable

Row == [status : Status,
        cancel : BOOLEAN,                         \* cancel_requested
        step   : Nat \ {0},                       \* current_step + 1
        plan   : Seq(Steps),
        done   : SUBSET Steps,                    \* steps in result["steps"]
        grant  : Nat,                             \* approval_granted_for_step + 1
        attn   : {"none", "blocker", "approval"}, \* attention["type"]
        about  : Steps \cup {None},               \* what attention["detail"] asks for
        link   : BOOLEAN]                         \* agent_task_id is set

NoRow == [status |-> "absent", cancel |-> FALSE, step |-> 1, plan |-> <<>>, done |-> {},
          grant |-> 0, attn |-> "none", about |-> None, link |-> FALSE]

NewRow(p) == [NoRow EXCEPT !.status = "queued", !.plan = p]

\* The configuration column of `from', written over that of `to'.
WithConfig(to, from) ==
  [to EXCEPT !.grant = from.grant, !.attn = from.attn, !.about = from.about, !.link = from.link]

InRun == {"precancel", "start", "check", "mark", "tool", "record",
          "replan", "saveplan", "save", "publish"}
WorkerPC == {"idle", "orphan", "lock"} \cup InRun
ClientPC == {"idle", "cancel", "resume", "submit", "resubmit", "queueconfig",
             "requeueconfig", "linkread", "linksave"}

Init ==
  /\ row = [o \in Ops |-> NoRow]
  /\ jobs = [o \in Ops |-> 0]
  /\ cpc = [c \in Clients |-> "idle"]
  /\ cop = [c \in Clients |-> None]
  /\ copy = [c \in Clients |-> NoRow]
  /\ wpc = [w \in Workers |-> "idle"]
  /\ wop = [w \in Workers |-> None]
  /\ loc = [w \in Workers |-> NoRow]
  /\ replans = [w \in Workers |-> 0]
  /\ holder = [p \in Procs |-> [s \in Sessions |-> None]]
  /\ notice = [o \in Ops |-> "absent"]
  /\ requests = 0
  /\ crashes = 0
  /\ approved = [o \in Ops |-> {}]
  /\ acted = [o \in Ops |-> {}]
  /\ late = [o \in Ops |-> -1]

-----------------------------------------------------------------------------
(* Request handlers *)

Handle(c, to, o, r) ==
  /\ cpc' = [cpc EXCEPT ![c] = to]
  /\ cop' = [cop EXCEPT ![c] = o]
  /\ copy' = [copy EXCEPT ![c] = r]

Answer(c) == Handle(c, "idle", None, NoRow)

\* ComputerUseOperationService.create: the planner's plan becomes a queued row.
Create(c, o) ==
  /\ cpc[c] = "idle"
  /\ row[o].status = "absent"
  /\ \E p \in Plans :
       /\ row' = [row EXCEPT ![o] = NewRow(p)]
       /\ Handle(c, "submit", o, NewRow(p))
  /\ UNCHANGED <<jobs, workerVars, notice, bounds, history>>

\* dispatch: the run is submitted before the handler saves its configuration.
Submit(c) ==
  /\ cpc[c] \in {"submit", "resubmit"}
  /\ jobs' = [jobs EXCEPT ![cop[c]] = @ + 1]
  /\ Handle(c, IF cpc[c] = "submit" THEN "queueconfig" ELSE "requeueconfig", cop[c], copy[c])
  /\ UNCHANGED <<row, workerVars, notice, bounds, history>>

\* dispatch: queue and queue_task_id are added to the handler's own copy of the
\* configuration, which overwrites whatever the run has stored since.
SaveQueueConfig(c) ==
  /\ cpc[c] \in {"queueconfig", "requeueconfig"}
  /\ row' = [row EXCEPT ![cop[c]] = WithConfig(@, copy[c])]
  /\ IF cpc[c] = "queueconfig" /\ cop[c] \in Delegated
     THEN Handle(c, "linkread", cop[c], copy[c])
     ELSE Answer(c)
  /\ UNCHANGED <<jobs, workerVars, notice, bounds, history>>

\* BuiltinAgents.browser reads the operation again ...
LinkRead(c) ==
  /\ cpc[c] = "linkread"
  /\ Handle(c, "linksave", cop[c], row[cop[c]])
  /\ UNCHANGED <<rowVars, workerVars, notice, bounds, history>>

\* ... and saves its configuration with the ids of the agent task added.
LinkSave(c) ==
  /\ cpc[c] = "linksave"
  /\ row' = [row EXCEPT ![cop[c]] = WithConfig(@, [copy[c] EXCEPT !.link = TRUE])]
  /\ Answer(c)
  /\ UNCHANGED <<jobs, workerVars, notice, bounds, history>>

\* cancel: the row is read and its status tested; a terminal one is returned as is.
CancelRead(c, o) ==
  /\ cpc[c] = "idle"
  /\ requests < MaxRequests
  /\ row[o].status \notin Terminal \cup {"absent"}
  /\ requests' = requests + 1
  /\ Handle(c, "cancel", o, NoRow)
  /\ UNCHANGED <<rowVars, workerVars, notice, crashes, history>>

CancelSave(c) ==
  /\ cpc[c] = "cancel"
  /\ row' = [row EXCEPT ![cop[c]].cancel = TRUE, ![cop[c]].status = "cancelling"]
  /\ late' = [late EXCEPT ![cop[c]] = IF @ = -1 THEN 0 ELSE @]
  /\ Answer(c)
  /\ UNCHANGED <<jobs, workerVars, notice, bounds, approved, acted>>

\* Fault: a completed operation is taken back too.
ResumeReadAnyEnd(c, o) ==
  /\ cpc[c] = "idle"
  /\ requests < MaxRequests
  /\ row[o].status \in Resumable \cup Terminal
  /\ requests' = requests + 1
  /\ Handle(c, "resume", o, row[o])
  /\ UNCHANGED <<rowVars, workerVars, notice, crashes, history>>

\* resume: only an interrupted, failed or cancelled operation is taken back.
ResumeRead(c, o) ==
  /\ cpc[c] = "idle"
  /\ requests < MaxRequests
  /\ row[o].status \in Resumable
  /\ requests' = requests + 1
  /\ Handle(c, "resume", o, row[o])
  /\ UNCHANGED <<rowVars, workerVars, notice, crashes, history>>

\* Fault: every resume grants the current step, whatever the user was asked.
ResumedAlwaysGrants(r) ==
  [r EXCEPT !.status = "queued", !.cancel = FALSE, !.attn = "none", !.about = None,
            !.grant = r.step]

\* The instance resume() saves: attention cleared, the waiting step approved.
Resumed(r) ==
  [r EXCEPT !.status = "queued", !.cancel = FALSE, !.attn = "none", !.about = None,
            !.grant = IF r.attn = "approval" THEN r.step ELSE @]

ResumeSave(c) ==
  LET o == cop[c]
      r == Resumed(copy[c])
  IN /\ cpc[c] = "resume"
     /\ row' = [row EXCEPT ![o] =
                  [WithConfig(@, r) EXCEPT !.status = r.status, !.cancel = r.cancel]]
     /\ IF copy[c].attn = "approval"
        THEN approved' = [approved EXCEPT ![o] = @ \cup {<<copy[c].step, copy[c].about>>}]
        ELSE UNCHANGED approved
     /\ late' = [late EXCEPT ![o] = -1]
     /\ Handle(c, "resubmit", o, r)
     /\ UNCHANGED <<jobs, workerVars, notice, bounds, acted>>

-----------------------------------------------------------------------------
(* Workers *)

Goto(w, to, r) ==
  /\ wpc' = [wpc EXCEPT ![w] = to]
  /\ loc' = [loc EXCEPT ![w] = r]

Release(w) ==
  /\ wpc' = [wpc EXCEPT ![w] = "idle"]
  /\ wop' = [wop EXCEPT ![w] = None]
  /\ loc' = [loc EXCEPT ![w] = NoRow]
  /\ replans' = [replans EXCEPT ![w] = 0]

\* Fault: a run is started without taking a job from the queue's count.
TakeUncounted(w, o) ==
  /\ wpc[w] = "idle"
  /\ row[o].status = "queued"
  /\ jobs' = [jobs EXCEPT ![o] = @ - 1]
  /\ wop' = [wop EXCEPT ![w] = o]
  /\ Goto(w, IF o \in Orphans THEN "orphan" ELSE "lock", row[o])
  /\ UNCHANGED <<row, clientVars, replans, holder, notice, bounds, history>>

\* run: the thread takes the job and loads the row.
Take(w, o) ==
  /\ wpc[w] = "idle"
  /\ jobs[o] > 0
  /\ jobs' = [jobs EXCEPT ![o] = @ - 1]
  /\ wop' = [wop EXCEPT ![w] = o]
  /\ Goto(w, IF o \in Orphans THEN "orphan" ELSE "lock", row[o])
  /\ UNCHANGED <<row, clientVars, replans, holder, notice, bounds, history>>

\* run: without a browser session the operation fails and nothing is published.
FailOrphan(w) ==
  /\ wpc[w] = "orphan"
  /\ row' = [row EXCEPT ![wop[w]] = [loc[w] EXCEPT !.status = "failed"]]
  /\ Release(w)
  /\ UNCHANGED <<jobs, clientVars, holder, notice, bounds, history>>

\* Fault: the run does not wait for the session's lock.
AcquireUnlocked(w) ==
  LET o == wop[w]
      r == row[o]
  IN /\ wpc[w] = "lock"
     /\ holder' = [holder EXCEPT ![ProcOf[w]][SessionOf[o]] = w]
     /\ Goto(w, IF r.cancel THEN "precancel" ELSE "start",
             [r EXCEPT !.done = IF r.step = 1 THEN {} ELSE @])
     /\ UNCHANGED <<rowVars, clientVars, wop, replans, notice, bounds, history>>

\* Fault: the results of earlier steps are dropped when a run is continued.
AcquireForgetful(w) ==
  LET o == wop[w]
      r == row[o]
  IN /\ wpc[w] = "lock"
     /\ holder[ProcOf[w]][SessionOf[o]] = None
     /\ holder' = [holder EXCEPT ![ProcOf[w]][SessionOf[o]] = w]
     /\ Goto(w, IF r.cancel THEN "precancel" ELSE "start", [r EXCEPT !.done = {}])
     /\ UNCHANGED <<rowVars, clientVars, wop, replans, notice, bounds, history>>

\* run, _run_locked: the session's lock is taken and the row is read again.
\* The results of earlier steps are kept only when the run does not start over.
Acquire(w) ==
  LET o == wop[w]
      r == row[o]
  IN /\ wpc[w] = "lock"
     /\ holder[ProcOf[w]][SessionOf[o]] = None
     /\ holder' = [holder EXCEPT ![ProcOf[w]][SessionOf[o]] = w]
     /\ Goto(w, IF r.cancel THEN "precancel" ELSE "start",
             [r EXCEPT !.done = IF r.step = 1 THEN {} ELSE @])
     /\ UNCHANGED <<rowVars, clientVars, wop, replans, notice, bounds, history>>

\* An operation cancelled while it was queued never starts.
CancelBeforeStart(w) ==
  /\ wpc[w] = "precancel"
  /\ row' = [row EXCEPT ![wop[w]].status = "cancelled"]
  /\ Goto(w, "publish", [loc[w] EXCEPT !.status = "cancelled"])
  /\ UNCHANGED <<jobs, clientVars, wop, replans, holder, notice, bounds, history>>

Start(w) ==
  /\ wpc[w] = "start"
  /\ row' = [row EXCEPT ![wop[w]].status = "running"]
  /\ Goto(w, "check", [loc[w] EXCEPT !.status = "running"])
  /\ UNCHANGED <<jobs, clientVars, wop, replans, holder, notice, bounds, history>>

\* The end of a run: the instance is changed in memory and saved whole next.
End(w, r) == Goto(w, "save", r)

\* The steps the run goes through: of the plan it starts with the first MaxSteps,
\* of a plan it made itself (it has counted a replan then) all.
LastStep(w) ==
  IF replans[w] = 0 /\ MaxSteps < Len(loc[w].plan) THEN MaxSteps ELSE Len(loc[w].plan)

\* refresh_from_db(fields=["cancel_requested", "status"])
Refreshed(w) == [loc[w] EXCEPT !.cancel = row[wop[w]].cancel, !.status = row[wop[w]].status]

\* Fault: cancel_requested is tested in memory and not read again.
CheckStale(w) ==
  /\ wpc[w] = "check"
  /\ \/ /\ loc[w].step > LastStep(w)
        /\ End(w, [loc[w] EXCEPT !.status = "completed"])
     \/ /\ loc[w].step <= LastStep(w)
        /\ ~loc[w].cancel
        /\ Goto(w, "mark", loc[w])
  /\ UNCHANGED <<rowVars, clientVars, wop, replans, holder, notice, bounds, history>>

\* The head of the step loop: the plan is exhausted, or the runtime limit is
\* exceeded, or cancel_requested and status are read again.
Check(w) ==
  /\ wpc[w] = "check"
  /\ \/ /\ loc[w].step > LastStep(w)
        /\ End(w, [loc[w] EXCEPT !.status = "completed"])
     \/ /\ loc[w].step <= LastStep(w)
        /\ \/ End(w, [loc[w] EXCEPT !.status = "failed"])
           \/ /\ Refreshed(w).cancel
              /\ End(w, [Refreshed(w) EXCEPT !.status = "cancelled"])
           \/ /\ ~Refreshed(w).cancel
              /\ Goto(w, "mark", Refreshed(w))
  /\ UNCHANGED <<rowVars, clientVars, wop, replans, holder, notice, bounds, history>>

\* current_step is stored before the tool is called.
Mark(w) ==
  /\ wpc[w] = "mark"
  /\ row' = [row EXCEPT ![wop[w]].step = loc[w].step]
  /\ Goto(w, "tool", loc[w])
  /\ UNCHANGED <<jobs, clientVars, wop, replans, holder, notice, bounds, history>>

Current(w)   == loc[w].plan[loc[w].step]
Confirmed(w) == loc[w].grant = loc[w].step
Allowed(w)   == Current(w) \in Sensitive => Confirmed(w)

\* The browser carries out the current step.
Perform(w) ==
  /\ Allowed(w)
  /\ acted' = [acted EXCEPT ![wop[w]] =
                 IF Current(w) \in Sensitive THEN @ \cup {<<loc[w].step, Current(w)>>} ELSE @]
  /\ late' = [late EXCEPT ![wop[w]] = IF @ \in {0, 1} THEN @ + 1 ELSE @]
  /\ UNCHANGED approved

\* The step is performed and verified.
StepSucceeds(w) ==
  /\ Perform(w)
  /\ Goto(w, "record", [loc[w] EXCEPT !.done = @ \cup {Current(w)}, !.step = @ + 1, !.grant = 0])

\* A step that does not succeed may have been performed all the same: the observation
\* that follows the action may refuse the page, or a record of it may not be saved.
MayPerform(w) == Perform(w) \/ UNCHANGED history

\* HumanInterventionRequired: a blocker on the page (captcha, login, MFA before the
\* action, a blocked destination after it as well), or a consequential step that
\* carries no confirmation.
StepWaits(w) ==
  \/ /\ MayPerform(w)
     /\ End(w, [loc[w] EXCEPT !.status = "waiting_user", !.attn = "blocker", !.about = None])
  \/ /\ ~Allowed(w)
     /\ End(w, [loc[w] EXCEPT !.status = "waiting_user", !.attn = "approval",
                              !.about = Current(w)])
     /\ UNCHANGED history

\* ComputerUseCancelled: a waiting tool saw cancel_requested in the database.
StepInterrupted(w) ==
  /\ Current(w) \in Interruptible
  /\ row[wop[w]].cancel
  /\ End(w, [loc[w] EXCEPT !.status = "cancelled", !.cancel = TRUE])
  /\ MayPerform(w)

\* ToolExecutionError (before the step was performed, or after it when its
\* effect could not be verified), or any other exception.
StepFails(w) ==
  /\ MayPerform(w)
  /\ \/ replans[w] < MaxReplans /\ Goto(w, "replan", loc[w])
     \/ replans[w] >= MaxReplans /\ End(w, [loc[w] EXCEPT !.status = "failed"])

StepRaises(w) ==
  /\ MayPerform(w)
  /\ End(w, [loc[w] EXCEPT !.status = "failed"])

Tool(w) ==
  /\ wpc[w] = "tool"
  /\ StepSucceeds(w) \/ StepWaits(w) \/ StepInterrupted(w) \/ StepFails(w) \/ StepRaises(w)
  /\ UNCHANGED <<rowVars, clientVars, wop, replans, holder, notice, bounds>>

\* current_step, result and configuration of the run's instance are stored.
Record(w) ==
  /\ wpc[w] = "record"
  /\ row' = [row EXCEPT ![wop[w]] =
               [WithConfig(@, loc[w]) EXCEPT !.step = loc[w].step, !.done = loc[w].done]]
  /\ Goto(w, "check", loc[w])
  /\ UNCHANGED <<jobs, clientVars, wop, replans, holder, notice, bounds, history>>

\* Fault: the attempts are not counted.
ReplanForever(w) ==
  /\ wpc[w] = "replan"
  /\ \/ \E p \in Plans : Goto(w, "saveplan", [loc[w] EXCEPT !.plan = p, !.step = 1])
     \/ End(w, [loc[w] EXCEPT !.status = "failed"])
  /\ UNCHANGED <<rowVars, clientVars, wop, replans, holder, notice, bounds, history>>

\* A new plan from the page as it is now, or none.
Replan(w) ==
  /\ wpc[w] = "replan"
  /\ replans' = [replans EXCEPT ![w] = @ + 1]
  /\ \/ \E p \in Plans : Goto(w, "saveplan", [loc[w] EXCEPT !.plan = p, !.step = 1])
     \/ End(w, [loc[w] EXCEPT !.status = "failed"])
  /\ UNCHANGED <<rowVars, clientVars, wop, holder, notice, bounds, history>>

\* Fault: the new plan is missing from update_fields.
SavePlanWithoutPlan(w) ==
  /\ wpc[w] = "saveplan"
  /\ row' = [row EXCEPT ![wop[w]] = [WithConfig(@, loc[w]) EXCEPT !.step = loc[w].step]]
  /\ Goto(w, "check", loc[w])
  /\ UNCHANGED <<jobs, clientVars, wop, replans, holder, notice, bounds, history>>

\* The new plan replaces the stored one; its first step is next.
SavePlan(w) ==
  /\ wpc[w] = "saveplan"
  /\ row' = [row EXCEPT ![wop[w]] =
               [WithConfig(@, loc[w]) EXCEPT !.plan = loc[w].plan, !.step = loc[w].step]]
  /\ Goto(w, "check", loc[w])
  /\ UNCHANGED <<jobs, clientVars, wop, replans, holder, notice, bounds, history>>

\* operation.save(): every column of the row is overwritten by the run's copy.
Save(w) ==
  /\ wpc[w] = "save"
  /\ row' = [row EXCEPT ![wop[w]] = loc[w]]
  /\ Goto(w, "publish", loc[w])
  /\ UNCHANGED <<jobs, clientVars, wop, replans, holder, notice, bounds, history>>

\* _publish_completion, and the return that releases the session's lock.
Publish(w) ==
  /\ wpc[w] = "publish"
  /\ notice' = [notice EXCEPT ![wop[w]] = loc[w].status]
  /\ holder' = [holder EXCEPT ![ProcOf[w]][SessionOf[wop[w]]] = None]
  /\ Release(w)
  /\ UNCHANGED <<rowVars, clientVars, bounds, history>>

\* A process dies: its runs and locks are gone.  With the in-process pool the
\* waiting jobs and the requests being served are gone as well.
Crash(p) ==
  LET dead == {w \in Workers : ProcOf[w] = p}
  IN /\ crashes < MaxCrashes
     /\ crashes' = crashes + 1
     /\ wpc' = [w \in Workers |-> IF w \in dead THEN "idle" ELSE wpc[w]]
     /\ wop' = [w \in Workers |-> IF w \in dead THEN None ELSE wop[w]]
     /\ loc' = [w \in Workers |-> IF w \in dead THEN NoRow ELSE loc[w]]
     /\ replans' = [w \in Workers |-> IF w \in dead THEN 0 ELSE replans[w]]
     /\ holder' = [holder EXCEPT ![p] = [s \in Sessions |-> None]]
     /\ IF QueueSurvives
        THEN UNCHANGED <<jobs, clientVars>>
        ELSE /\ jobs' = [o \in Ops |-> 0]
             /\ cpc' = [c \in Clients |-> "idle"]
             /\ cop' = [c \in Clients |-> None]
             /\ copy' = [c \in Clients |-> NoRow]
     /\ UNCHANGED <<row, notice, requests, history>>

-----------------------------------------------------------------------------

ClientStep(c) ==
  \/ \E o \in Ops : Create(c, o) \/ CancelRead(c, o) \/ ResumeRead(c, o)
  \/ Submit(c) \/ SaveQueueConfig(c) \/ LinkRead(c) \/ LinkSave(c)
  \/ CancelSave(c) \/ ResumeSave(c)

RunStep(w) ==
  \/ FailOrphan(w) \/ Acquire(w) \/ CancelBeforeStart(w) \/ Start(w) \/ Check(w)
  \/ Mark(w) \/ Tool(w) \/ Record(w) \/ Replan(w) \/ SavePlan(w) \/ Save(w) \/ Publish(w)

WorkerStep(w) == RunStep(w) \/ \E o \in Ops : Take(w, o)

Next ==
  \/ \E c \in Clients : ClientStep(c)
  \/ \E w \in Workers : WorkerStep(w)
  \/ \E p \in Procs : Crash(p)

Spec == Init /\ [][Next]_vars

\* Worker threads are scheduled by the operating system; nobody owes the system
\* a request, but a handler that has begun goes on.
FairSpec ==
  /\ Spec
  /\ \A w \in Workers : WF_vars(WorkerStep(w))
  /\ \A c \in Clients : WF_vars(Submit(c) \/ SaveQueueConfig(c) \/ LinkRead(c) \/ LinkSave(c)
                                \/ CancelSave(c) \/ ResumeSave(c))

-----------------------------------------------------------------------------
(* Properties *)

\* The tables, the in-memory instances and the control states keep their types.
TypeOK ==
  /\ row \in [Ops -> Row]
  /\ jobs \in [Ops -> Nat]
  /\ cpc \in [Clients -> ClientPC]
  /\ cop \in [Clients -> Ops \cup {None}]
  /\ copy \in [Clients -> Row]
  /\ wpc \in [Workers -> WorkerPC]
  /\ wop \in [Workers -> Ops \cup {None}]
  /\ loc \in [Workers -> Row]
  /\ replans \in [Workers -> 0..MaxReplans]
  /\ holder \in [Procs -> [Sessions -> Workers \cup {None}]]
  /\ notice \in [Ops -> Status]
  /\ requests \in 0..MaxRequests
  /\ crashes \in 0..MaxCrashes
  /\ approved \in [Ops -> SUBSET (Nat \X (Steps \cup {None}))]
  /\ acted \in [Ops -> SUBSET (Nat \X Steps)]
  /\ late \in [Ops -> -1..2]

\* Operations that share a mutable browser session are serialized: two runs are
\* never inside the locked part of run() for one session at the same time.
SessionSerialised ==
  \A v, w \in Workers :
    /\ v # w
    /\ wpc[v] \in InRun
    /\ wpc[w] \in InRun
    => SessionOf[wop[v]] # SessionOf[wop[w]]

\* What the API shows is what happens: while a tool runs, the row's plan and
\* current_step are those of the step being performed.  resume() relies on it
\* when it turns current_step into approval_granted_for_step.
ShownStepIsPerformed ==
  \A w \in Workers :
    wpc[w] = "tool" =>
      /\ row[wop[w]].plan = loc[w].plan
      /\ row[wop[w]].step = loc[w].step

\* An operation reported completed has performed and verified every step of the
\* plan it ended with, whatever was cancelled, resumed or replanned on the way,
\* as far as the limit on steps lets a run go.
CompletedCoversPlan ==
  \A o \in Ops :
    row[o].status = "completed" =>
      \A i \in 1..Len(row[o].plan) : i <= MaxSteps => row[o].plan[i] \in row[o].done

\* A consequential step is performed only after the user was asked for that step
\* and resumed the operation: an approval applies to that step only.
ConsentRespected ==
  \A o \in Ops : acted[o] \subseteq approved[o]

\* "Planner-generated payloads cannot self-approve": whatever is replanned, rewritten
\* by the Browser Agent, run twice or restarted, a consequential step is performed only
\* under a number that the user was asked about and approved.
PlansNeverApproveThemselves ==
  \A o \in Ops : \A a \in acted[o] : \E b \in approved[o] : b[1] = a[1]

\* After cancel() has stored its request at most one more step is performed (the
\* one in progress) until the user resumes the operation.
CancelStopsWithinAStep ==
  \A o \in Ops : late[o] < 2

\* cancel() is durable: the request stays in the row until the operation is
\* resumed; a run never erases it.
CancelIsDurable ==
  [][\A o \in Ops : row[o].cancel /\ ~row'[o].cancel =>
       \E c \in Clients : cpc[c] = "resume" /\ cop[c] = o /\ cpc'[c] # "resume"]_vars

\* No operation stays queued or running for ever while its process lives: it ends,
\* or waits for the user, or is being cancelled.
EveryOperationSettles ==
  \A o \in Ops :
    (row[o].status \in {"queued", "running"}) ~> (row[o].status \notin {"queued", "running"})

\* cancelling is a passing state: a cancellation that was accepted takes effect.
CancellationEnds ==
  \A o \in Ops : (row[o].status = "cancelling") ~> (row[o].status # "cancelling")

\* What a client of the runtime can rely on: the status, the runs owed and in
\* progress and the notice of every operation, as OperationLifecycle describes
\* them, whatever copies of the row the handlers and the workers hold.
At(o, pcs)  == {c \in Clients : cop[c] = o /\ cpc[c] \in pcs}
RunsOf(o)   == {w \in Workers : wop[w] = o}
Lifecycle   == INSTANCE OperationLifecycle WITH
  status <- [o \in Ops |-> row[o].status],
  asked  <- [o \in Ops |-> Cardinality(At(o, {"cancel"}))],
  owed   <- [o \in Ops |-> jobs[o] + Cardinality(At(o, {"submit", "resubmit"}))],
  runs   <- [o \in Ops |-> Cardinality(RunsOf(o))],
  ending <- [o \in Ops |-> {loc[w].status : w \in {v \in RunsOf(o) : wpc[v] = "publish"}}],
  told   <- notice

ImplementsLifecycle == Lifecycle!Spec
=============================================================================
