------------------------- MODULE AgentOrchestration -------------------------
(***************************************************************************)
(* One objective of a user in the Agent Manager: the request that creates  *)
(* the root task and delegates to an agent's child task, the browser       *)
(* operation the Browser Agent may have started (as OperationLifecycle     *)
(* sees it), the run that publishes its end into the task tree, and the    *)
(* requests that cancel or approve meanwhile.  Every step is one database  *)
(* statement, or one call of a tool; rows are read, changed in memory and  *)
(* saved later.                                                            *)
(***************************************************************************)
EXTENDS IntentRouter, FiniteSets

CONSTANTS
  Clients,      \* requests that cancel or approve at the same time
  Prompts,      \* the prompts that are sent
  Recent,       \* the environments that can be the recent one
  Outcomes,     \* what an agent that works in the request can answer
  Unready,      \* TRUE: a required tool or permission may be missing
  MaxRequests   \* bound: cancellations and approvals

\* What an agent answers, as far as the task tree tells the answers apart.
Answers == {"completed", "failed", "waiting", "not_found"}

ASSUME ConstantAssumption ==
  /\ Prompts \subseteq Prompt
  /\ Recent \subseteq Environments
  /\ Outcomes \subseteq Answers
  /\ Unready \in BOOLEAN
  /\ MaxRequests \in Nat

VARIABLES
  root,     \* the AgentTask of the objective
  child,    \* the AgentTask of the agent it is delegated to
  pc,       \* control state of the request
  prompt,   \* the prompt, until it is routed
  kind,     \* the decision: the agent, and whether post-actions are due
  res,      \* the agent's result, in memory
  op,       \* the browser operation's row
  jobs,     \* its runs that are submitted and wait for the session's lock
  run,      \* the run that has the lock: none, working, stepping, ending, publish, parent
  mem,      \* the run's copy of the operation
  cpc,      \* control states of the cancelling and approving requests
  snap,     \* what they read
  requests, \* cancellations and approvals accepted
  seen,     \* history: what has really happened to the objective
  acts,     \* history: approved actions performed
  posts,    \* history: post-actions of the operation performed
  resumes,  \* history: resumptions stored
  again     \* history: those of an interruption that another had resumed

tasks   == <<root, child>>
request == <<pc, prompt, kind, res>>
browser == <<op, jobs, run, mem>>
clients == <<cpc, snap, requests>>
history == <<seen, acts, posts, resumes, again>>
vars == <<tasks, request, browser, clients, history>>

Active   == {"running", "waiting"}
Done     == {"completed", "failed", "cancelled"}
Task     == [status : Active \cup Done \cup {"none"},
             cancel : BOOLEAN,   \* cancel_requested
             names  : BOOLEAN,   \* output_payload names the operation
             grant  : BOOLEAN]   \* output_payload holds a pending_action
NoTask   == [status |-> "none", cancel |-> FALSE, names |-> FALSE, grant |-> FALSE]
NewTask  == [NoTask EXCEPT !.status = "running"]
NoPrompt == [verb |-> "other", marks |-> {}]
NoKind   == [agent |-> "none", post |-> FALSE]
NoResult == [status |-> "none", names |-> FALSE, grant |-> FALSE]
Ended    == Done \cup {"waiting_user"}

\* The columns of the operation that matter here; link: its configuration names the task.
Operation   == [status : Ended \cup {"absent", "queued", "running", "cancelling"},
                cancel : BOOLEAN, link : BOOLEAN]
NoOperation == [status |-> "absent", cancel |-> FALSE, link |-> FALSE]
Unread      == [root |-> NoTask, child |-> NoTask, op |-> NoOperation, aim |-> "child", taken |-> 0]

Init ==
  /\ root = NoTask /\ child = NoTask
  /\ pc = "idle" /\ prompt \in Prompts /\ kind = NoKind /\ res = NoResult
  /\ op = NoOperation /\ jobs = 0 /\ run = "none" /\ mem = NoOperation
  /\ cpc = [c \in Clients |-> "idle"] /\ snap = [c \in Clients |-> Unread] /\ requests = 0
  /\ seen = {} /\ acts = 0 /\ posts = 0 /\ resumes = 0 /\ again = 0

Happens(what) == seen' = seen \cup {what}

-----------------------------------------------------------------------------
(* The request: AgentManagerOrchestrator.execute *)

\* The prompt is stored, then classified.  An ambiguous prompt is answered with
\* a question; a prompt that no earlier rule claims makes decide() raise.
Receive ==
  /\ pc = "idle"
  /\ \E env \in Recent :
       LET agent == Decide(prompt, env)
       IN  /\ kind' = [agent |-> agent, post |-> HasPostActions(prompt)]
           /\ pc' = CASE agent = "clarify" -> "done" [] agent = "raised" -> "raised"
                       [] OTHER -> "root"
  /\ prompt' = NoPrompt
  /\ UNCHANGED <<tasks, res, browser, clients, history>>

\* The durable root of the objective.  (The Planner's task of a complex objective is
\* written by the request alone, before the next one, and is left out.)
CreateRoot ==
  /\ pc = "root"
  /\ root' = NewTask
  /\ pc' = "delegate"
  /\ UNCHANGED <<child, prompt, kind, res, browser, clients, history>>

Delegate ==
  /\ pc = "delegate"
  /\ child' = NewTask
  /\ pc' = "agent"
  /\ UNCHANGED <<root, prompt, kind, res, browser, clients, history>>

Return(to, r) == pc' = to /\ res' = r

\* A missing tool or permission fails the objective before the agent has it.
AgentUnready ==
  /\ pc = "agent"
  /\ Unready /\ kind.agent \in {"memory", "knowledge", "browser", "computer"}
  /\ Return("complete", [NoResult EXCEPT !.status = "failed"])
  /\ Happens("failed")
  /\ UNCHANGED <<tasks, prompt, kind, browser, clients, acts, posts, resumes, again>>

\* An agent that works inside the request; a desktop action that needs approval
\* comes back as a pending action.
AgentWorks ==
  /\ pc = "agent"
  /\ kind.agent # "browser"
  /\ \E s \in Outcomes :
       /\ Return("child", [NoResult EXCEPT !.status = s,
                                           !.grant = kind.agent = "computer" /\ s = "waiting"])
       /\ Happens(s)
  /\ UNCHANGED <<tasks, prompt, kind, browser, clients, acts, posts, resumes, again>>

\* The Browser Agent answers a question about a video or says why no operation could
\* be started: the environment is missing, the user has to help, an error.
BrowserAnswers ==
  /\ pc = "agent"
  /\ kind.agent = "browser"
  /\ \E s \in {"completed", "failed", "waiting"} :
       Return("child", [NoResult EXCEPT !.status = s]) /\ Happens(s)
  /\ UNCHANGED <<tasks, prompt, kind, browser, clients, acts, posts, resumes, again>>

\* Or it creates an operation and dispatches it.
AgentStarts ==
  /\ pc = "agent"
  /\ kind.agent = "browser"
  /\ op' = [op EXCEPT !.status = "queued"]
  /\ jobs' = jobs + 1
  /\ Return("link", [NoResult EXCEPT !.status = "running", !.names = TRUE])
  /\ UNCHANGED <<tasks, prompt, kind, run, mem, clients, history>>

\* The operation is read and saved again with the ids of the task.
AgentLinks ==
  /\ pc = "link"
  /\ op' = [op EXCEPT !.link = TRUE]
  /\ pc' = "child"
  /\ UNCHANGED <<tasks, prompt, kind, res, jobs, run, mem, clients, history>>

\* Fault: what the agent still waits for is taken for success.
CompletedOptimist(t, r) ==
  [t EXCEPT !.status = IF r.status \in {"running", "failed"} THEN r.status ELSE "completed",
            !.names = r.names, !.grant = r.grant]

\* _complete_task: a status it does not know becomes completed.
Completed(t, r) ==
  [t EXCEPT !.status = IF r.status \in {"running", "failed", "waiting"}
                       THEN r.status ELSE "completed",
            !.names = r.names, !.grant = r.grant]

CompleteChild ==
  /\ pc = "child"
  /\ child' = Completed(child, res)
  /\ pc' = "complete"
  /\ UNCHANGED <<root, prompt, kind, res, browser, clients, history>>

CompleteRoot ==
  /\ pc = "complete"
  /\ root' = Completed(root, res)
  /\ Return("done", NoResult)
  /\ UNCHANGED <<child, prompt, kind, browser, clients, history>>

-----------------------------------------------------------------------------
(* A run of the operation, as far as the task tree is concerned.  Runs of one *)
(* session take turns; one that was submitted twice runs twice.               *)

\* The run reads the row, and its configuration with it.  A cancellation stored
\* before it starts is saved by columns, and published.
OperationLoads ==
  /\ jobs > 0 /\ run = "none"
  /\ jobs' = jobs - 1
  /\ IF op.cancel
     THEN /\ op' = [op EXCEPT !.status = "cancelled"]
          /\ mem' = [op EXCEPT !.status = "cancelled"]
          /\ run' = "publish"
     ELSE /\ op' = [op EXCEPT !.status = "running"]
          /\ mem' = [op EXCEPT !.status = "running"]
          /\ run' = "working"
  /\ UNCHANGED <<tasks, request, clients, history>>

\* The last test of cancel_requested, before a step (the tests before it changed
\* nothing): the run ends there, or with what the step or the last step brings.
OperationChecks ==
  /\ run = "working"
  /\ IF op.cancel
     THEN run' = "ending" /\ mem' = [mem EXCEPT !.cancel = TRUE, !.status = "cancelled"]
     ELSE run' = "stepping" /\ UNCHANGED mem
  /\ UNCHANGED <<tasks, request, op, jobs, clients, history>>

\* A tool that waits tests the row again.
OperationEnds ==
  /\ run = "stepping"
  /\ \E s \in Ended :
       /\ s = "cancelled" => op.cancel
       /\ mem' = [mem EXCEPT !.status = s, !.cancel = s = "cancelled"]
  /\ run' = "ending"
  /\ UNCHANGED <<tasks, request, op, jobs, clients, history>>

\* waiting_user is the one status the two tables spell differently.
Mapped(s) == IF s = "waiting_user" THEN "waiting" ELSE s

\* The run saves the row whole: what it read of the other columns as well.
OperationSaves ==
  /\ run = "ending"
  /\ op' = mem
  /\ run' = "publish"
  /\ Happens(Mapped(mem.status))
  /\ UNCHANGED <<tasks, request, jobs, mem, clients, acts, posts, resumes, again>>

Published(t) == [t EXCEPT !.status = Mapped(mem.status), !.names = TRUE]

\* Fault: the post-actions run whatever became of the operation.
PublishChildAlways ==
  /\ run = "publish"
  /\ mem.link
  /\ child' = Published(child)
  /\ posts' = posts + (IF kind.post THEN 1 ELSE 0)
  /\ run' = "parent"
  /\ UNCHANGED <<root, request, op, jobs, mem, clients, seen, acts, resumes, again>>

\* _publish_completion: the child task, then the post-actions of a completed
\* operation (knowledge.ingest, documents.report) with their completed tasks.
PublishChild ==
  /\ run = "publish"
  /\ mem.link
  /\ child' = Published(child)
  /\ posts' = posts + (IF kind.post /\ mem.status = "completed" THEN 1 ELSE 0)
  /\ run' = "parent"
  /\ UNCHANGED <<root, request, op, jobs, mem, clients, seen, acts, resumes, again>>

\* A run that does not know of the task tells only the user.
PublishUnlinked ==
  /\ run = "publish"
  /\ ~mem.link
  /\ run' = "none"
  /\ UNCHANGED <<tasks, request, op, jobs, mem, clients, history>>

PublishRoot ==
  /\ run = "parent"
  /\ root' = Published(root)
  /\ run' = "none"
  /\ UNCHANGED <<child, request, op, jobs, mem, clients, history>>

-----------------------------------------------------------------------------
(* cancel_latest, and AgentTaskCancelView *)

Goto(c, to) ==
  /\ cpc' = [cpc EXCEPT ![c] = to]
  /\ snap' = [snap EXCEPT ![c] = IF to = "idle" THEN Unread ELSE @]

Read(c, to, aim) ==
  /\ cpc[c] = "idle"
  /\ requests < MaxRequests
  /\ requests' = requests + 1
  /\ cpc' = [cpc EXCEPT ![c] = to]
  /\ snap' = [snap EXCEPT ![c] = [root |-> root, child |-> child, op |-> op, aim |-> aim, taken |-> resumes]]

\* The tree is read.  cancel_latest starts from any active task, the view from a
\* root that has not ended.
CancelRead(c) ==
  /\ root.status \in Active \/ child.status \in Active
  /\ Read(c, "cancelroot", "root")
  /\ Happens("cancelled")
  /\ UNCHANGED <<tasks, request, browser, acts, posts, resumes, again>>

\* The status is saved with the request, as it was read: a waiting task is
\* cancelled at once, a running one only asked to stop.
Cancelled(t, s) ==
  [t EXCEPT !.cancel = TRUE,
            !.status = IF s.status = "waiting" THEN "cancelled" ELSE s.status]

CancelRoot(c) ==
  /\ cpc[c] = "cancelroot"
  /\ root' = Cancelled(root, snap[c].root)
  /\ Goto(c, IF snap[c].root.names THEN "rootop" ELSE "cancelchild")
  /\ UNCHANGED <<child, request, browser, requests, history>>

CancelChild(c) ==
  /\ cpc[c] = "cancelchild"
  /\ child' = IF snap[c].child.status \in Active THEN Cancelled(child, snap[c].child) ELSE child
  /\ Goto(c, IF snap[c].child.status \in Active /\ snap[c].child.names THEN "childop" ELSE "idle")
  /\ UNCHANGED <<root, request, browser, requests, history>>

After(c) == IF cpc[c] \in {"rootop", "rootsave"} THEN "cancelchild" ELSE "idle"

\* ComputerUseOperationService.cancel, when the task that was read names an operation:
\* the operation is read, and unless it has ended the request is stored.
CancelLooks(c) ==
  /\ cpc[c] \in {"rootop", "childop"}
  /\ Goto(c, IF op.status \in Done THEN After(c) ELSE IF cpc[c] = "rootop" THEN "rootsave" ELSE "childsave")
  /\ UNCHANGED <<tasks, request, browser, requests, history>>

\* Three columns, whatever the run has stored meanwhile.
CancelOperation(c) ==
  /\ cpc[c] \in {"rootsave", "childsave"}
  /\ op' = [op EXCEPT !.status = "cancelling", !.cancel = TRUE]
  /\ Goto(c, After(c))
  /\ UNCHANGED <<tasks, request, jobs, run, mem, requests, history>>

-----------------------------------------------------------------------------
(* AgentTaskApproveView *)

Target(aim) == IF aim = "root" THEN root ELSE child

\* The task of the agent when it waits; else the task that was named, which may be the root.
ApproveRead(c) ==
  \E aim \in {"child", "root"} :
    /\ aim = "root" => child.status # "waiting"
    /\ Target(aim).status = "waiting"
    /\ Target(aim).grant \/ Target(aim).names
    /\ Read(c, IF Target(aim).grant THEN "perform" ELSE "resume", aim)
    /\ UNCHANGED <<tasks, request, browser, history>>

\* The desktop tool performs the action once more, now confirmed, or fails.
ApprovePerform(c) ==
  /\ cpc[c] = "perform"
  /\ \/ /\ acts' = acts + 1
        /\ Happens("completed")
        /\ Goto(c, IF snap[c].aim = "child" THEN "approved" ELSE "approveroot")
     \/ /\ Goto(c, "idle")
        /\ UNCHANGED <<acts, seen>>
  /\ UNCHANGED <<tasks, request, browser, requests, posts, resumes, again>>

\* The task is completed, with an output that holds no action any more, then its root.
Approved(t) == [t EXCEPT !.status = "completed", !.names = FALSE, !.grant = FALSE]

ApproveChild(c) ==
  /\ cpc[c] = "approved"
  /\ child' = Approved(child)
  /\ Goto(c, "approveroot")
  /\ UNCHANGED <<root, request, browser, requests, history>>

ApproveRoot(c) ==
  /\ cpc[c] = "approveroot"
  /\ root' = Approved(root)
  /\ Goto(c, "idle")
  /\ UNCHANGED <<child, request, browser, requests, history>>

\* ComputerUseOperationService.resume: the operation is read; what is not interrupted is
\* refused.
ResumeLooks(c) ==
  /\ cpc[c] = "resume"
  /\ IF op.status \in Ended \ {"completed"}
     THEN /\ cpc' = [cpc EXCEPT ![c] = "resave"]
          /\ snap' = [snap EXCEPT ![c].op = op, ![c].taken = resumes]
     ELSE Goto(c, "idle")
  /\ UNCHANGED <<tasks, request, browser, requests, history>>

\* It is saved as it was read, with its configuration, whatever has become of it since.
ApproveResume(c) ==
  /\ cpc[c] = "resave"
  /\ op' = [status |-> "queued", cancel |-> FALSE, link |-> snap[c].op.link]
  /\ resumes' = resumes + 1
  /\ again' = again + (IF resumes # snap[c].taken THEN 1 ELSE 0)
  /\ Goto(c, "submit")
  /\ UNCHANGED <<tasks, request, jobs, run, mem, requests, seen, acts, posts>>

\* dispatch submits a run, then saves the configuration once more.
ResumeSubmits(c) ==
  /\ cpc[c] = "submit"
  /\ jobs' = jobs + 1
  /\ Goto(c, "config")
  /\ UNCHANGED <<tasks, request, op, run, mem, requests, history>>

ResumeConfigures(c) ==
  /\ cpc[c] = "config"
  /\ op' = [op EXCEPT !.link = snap[c].op.link]
  /\ Goto(c, "resumed")
  /\ UNCHANGED <<tasks, request, jobs, run, mem, requests, history>>

\* Only the approved task is set running again.
ApproveRunning(c) ==
  /\ cpc[c] = "resumed"
  /\ IF snap[c].aim = "child"
     THEN child' = [child EXCEPT !.status = "running"] /\ UNCHANGED root
     ELSE root' = [root EXCEPT !.status = "running"] /\ UNCHANGED child
  /\ Goto(c, "idle")
  /\ UNCHANGED <<request, browser, requests, history>>

-----------------------------------------------------------------------------

Serve == Receive \/ CreateRoot \/ Delegate \/ AgentUnready \/ AgentWorks \/ BrowserAnswers
         \/ AgentStarts \/ AgentLinks \/ CompleteChild \/ CompleteRoot
Run   == OperationLoads \/ OperationChecks \/ OperationEnds \/ OperationSaves
         \/ PublishChild \/ PublishUnlinked \/ PublishRoot
Cancelling(c) == CancelRoot(c) \/ CancelChild(c) \/ CancelLooks(c) \/ CancelOperation(c)
Approving(c)  == ApprovePerform(c) \/ ApproveChild(c) \/ ApproveRoot(c) \/ ResumeLooks(c)
                 \/ ApproveResume(c) \/ ResumeSubmits(c) \/ ResumeConfigures(c) \/ ApproveRunning(c)

Next == Serve \/ Run \/ \E c \in Clients : CancelRead(c) \/ ApproveRead(c) \/ Cancelling(c) \/ Approving(c)

Spec == Init /\ [][Next]_vars

-----------------------------------------------------------------------------
(* Properties *)

\* Rows, copies and control states keep their types.
TypeOK ==
  /\ root \in Task /\ child \in Task
  /\ pc \in {"idle", "root", "delegate", "agent", "link", "child", "complete", "done", "raised"}
  /\ kind.agent \in {"none", "raised", "clarify", "browser", "computer", "chat", "memory",
                    "knowledge", "planner", "tasks", "documents", "projects", "workflow"}
  /\ op \in Operation /\ mem \in Operation /\ jobs \in Nat
  /\ run \in {"none", "working", "stepping", "ending", "publish", "parent"}
  /\ \A c \in Clients : snap[c].root \in Task /\ snap[c].child \in Task /\ snap[c].op \in Operation
  /\ requests \in 0..MaxRequests
  /\ seen \subseteq Answers \cup {"cancelled"}

\* Whatever overlaps, fails or is stored late, what the tree shows has happened: a task is
\* failed, waiting or cancelled only when the agent, the operation or the user made it so,
\* and completed only when its work was done -- or when a service found nothing to do it to,
\* which _complete_task takes for success.
StatusHasCause ==
  \A t \in {root, child} :
    /\ t.status \in {"failed", "waiting", "cancelled"} => t.status \in seen
    /\ t.status = "completed" => seen \cap {"completed", "not_found"} # {}

\* "The manager persists failure rather than fabricating success": a task is completed only
\* when its work was done.
NothingFabricated == "completed" \in {root.status, child.status} => "completed" \in seen

\* Verified research is handed on, once, and once more at most for each resumption of an
\* interruption that had been resumed already: no interruption, cancellation or overlapping
\* save repeats the post-actions by itself, and what did not complete is not handed on.
PostActionsOnce == posts <= 1 + again /\ (posts > 0 => "completed" \in seen)

\* "Desktop approvals are deliberately one-action grants": the action a task asks for is
\* performed at most once.
ApprovedActionOnce == acts <= 1

\* "Browser operations may continue asynchronously and update the same task graph": when
\* nobody works on the objective any more, the root shows what its child shows and the child
\* what the operation shows.  (The task of an agent that was not ready stays behind.)
Quiet == run = "none" /\ jobs = 0 /\ pc = "done" /\ \A c \in Clients : cpc[c] = "idle"

Abandoned == root.status = "failed" /\ child.status = "running" /\ op.status = "absent"

TreeAgrees ==
  Quiet /\ root.status # "none" =>
    /\ root.status = child.status \/ Abandoned
    /\ op.status \in Ended => child.status = Mapped(op.status)

\* "Cancellable root/child tasks propagate cancellation to linked computer-use operations":
\* a cancellation that began with a linked operation under way has reached it when it ends.
CancelPropagates ==
  [][\A c \in Clients :
       Cancelling(c) /\ cpc'[c] = "idle" /\ snap[c].op.link /\ snap[c].op.status \notin Done =>
         op'.cancel \/ op'.status \in Done]_vars
=============================================================================
