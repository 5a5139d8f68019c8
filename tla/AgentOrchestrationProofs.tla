----------------------- MODULE AgentOrchestrationProofs -----------------------
(***************************************************************************)
(* Theorems about AgentOrchestration, for any requests that cancel or      *)
(* approve, any prompts and answers of agents, and any bound on the        *)
(* cancellations and approvals.                                            *)
(***************************************************************************)
EXTENDS AgentOrchestration, TLAPS, FiniteSetTheorems

RequestStates == {"idle", "root", "delegate", "agent", "link", "child", "complete", "done", "raised"}
RunStates     == {"none", "working", "stepping", "ending", "publish", "parent"}
CancelStates  == {"cancelroot", "rootop", "rootsave", "cancelchild", "childop", "childsave"}
ApproveStates == {"perform", "approved", "approveroot", "resume", "resave", "submit", "config", "resumed"}
ClientStates  == {"idle"} \cup CancelStates \cup ApproveStates
ResultStates  == {"none", "running", "completed", "failed", "waiting", "not_found"}

Agents == {"none", "raised", "clarify", "browser", "computer", "chat", "memory",
           "knowledge", "planner", "tasks", "documents", "projects", "workflow"}

Kind   == [agent : Agents, post : BOOLEAN]
Result == [status : ResultStates, names : BOOLEAN, grant : BOOLEAN]
Copy   == [root : Task, child : Task, op : Operation, aim : {"child", "root"}, taken : Nat]

TypedClients ==
  /\ cpc \in [Clients -> ClientStates]
  /\ snap \in [Clients -> Copy]
  /\ requests \in 0 .. MaxRequests

TypedHistory ==
  /\ seen \subseteq Answers \cup {"cancelled"}
  /\ acts \in Nat /\ posts \in Nat /\ resumes \in Nat /\ again \in Nat

TypedBrowser ==
  /\ op \in Operation /\ mem \in Operation
  /\ jobs \in Nat
  /\ run \in RunStates
  /\ run \in {"ending", "publish", "parent"} => mem.status \in Ended

Types ==
  /\ root \in Task /\ child \in Task
  /\ pc \in RequestStates
  /\ prompt \in Prompts \cup {NoPrompt}
  /\ kind \in Kind
  /\ res \in Result
  /\ TypedBrowser
  /\ TypedClients
  /\ TypedHistory

\* What a task, an answer or an operation shows has a cause.
Caused(s, what) ==
  /\ s \in {"failed", "waiting", "cancelled"} => s \in what
  /\ s = "completed" => "completed" \in what \/ "not_found" \in what

Stopping == {"cancelroot", "rootop", "rootsave", "cancelchild", "childop", "childsave"}

CauseInv ==
  /\ Caused(root.status, seen) /\ Caused(child.status, seen)
  /\ pc \in {"link", "child", "complete"} =>
       /\ res.status \in {"running", "failed", "waiting", "completed", "not_found"}
       /\ res.status # "running" => res.status \in seen
  /\ op.cancel \/ mem.cancel => "cancelled" \in seen
  /\ run \in {"publish", "parent"} => Mapped(mem.status) \in seen
  /\ run = "ending" /\ mem.status = "cancelled" => "cancelled" \in seen
  /\ \A c \in Clients :
       /\ Caused(snap[c].root.status, seen) /\ Caused(snap[c].child.status, seen)
       /\ cpc[c] \in Stopping => "cancelled" \in seen
       /\ cpc[c] \in {"approved", "approveroot"} => "completed" \in seen

\* Resumptions whose run is stored but not submitted yet.
Pending == {c \in Clients : cpc[c] = "submit"}

\* 1 while a run may still hand on what it found.
Busy == IF run \in {"working", "stepping", "ending"} \/ (run = "publish" /\ mem.status = "completed")
        THEN 1 ELSE 0

\* What was handed on, and what still may be.
Due == posts + jobs + Busy + Cardinality(Pending)

Early == {"idle", "root", "delegate", "agent"}

\* The end of a run without success leaves room for the one run of a resumption.
CountInv ==
  /\ IsFiniteSet(Pending)
  /\ Due <= 1 + again
  /\ op.status \in Ended \ {"completed"} => Due <= again
  /\ \A c \in Clients : cpc[c] = "resave" =>
       /\ snap[c].taken <= resumes
       /\ snap[c].taken = resumes => Due <= again
  /\ pc \in Early =>
       /\ posts = 0 /\ jobs = 0 /\ run = "none" /\ op.status \notin Ended
       /\ \A c \in Clients : cpc[c] \notin {"resave", "submit"}
  /\ posts > 0 => "completed" \in seen

-----------------------------------------------------------------------------
(* Types *)

LEMMA DecideIsAnAgent ==
  ASSUME NEW p \in Prompt, NEW env \in Environments
  PROVE  Decide(p, env) \in Agents /\ HasPostActions(p) \in BOOLEAN
<1>1. Classify(p, env) \in Agents
  BY DEF Classify, Contextual, Opens, Agents
<1>2. p.verb \in DOMAIN AgentOf => AgentOf[p.verb] \in Agents
  BY DEF AgentOf, Agents
<1>3. QED
  BY <1>1, <1>2 DEF Decide, HasPostActions, Agents

LEMMA TasksOfRequests == NoTask \in Task /\ NewTask \in Task
  BY DEF NoTask, NewTask, Task, Active, Done

LEMMA UnreadIsACopy == Unread \in Copy
  BY TasksOfRequests DEF Unread, Copy, NoOperation, Operation

LEMMA CompletedIsATask ==
  ASSUME NEW t \in Task, NEW r \in Result
  PROVE  Completed(t, r) \in Task
  BY DEF Completed, Task, Result, Active, Done

LEMMA PublishedIsATask ==
  ASSUME NEW t \in Task, mem.status \in Ended
  PROVE  Published(t) \in Task
  BY DEF Published, Mapped, Ended, Task, Active, Done

LEMMA CancelledIsATask ==
  ASSUME NEW t \in Task, NEW s \in Task
  PROVE  Cancelled(t, s) \in Task
  BY DEF Cancelled, Task, Active, Done

LEMMA ApprovedIsATask ==
  ASSUME NEW t \in Task
  PROVE  Approved(t) \in Task
  BY DEF Approved, Task, Active, Done

\* A client goes on, or forgets what it read.
LEMMA GotoTypes ==
  ASSUME TypedClients, requests' = requests, NEW c \in Clients, NEW to \in ClientStates, Goto(c, to)
  PROVE  TypedClients'
  BY UnreadIsACopy DEF TypedClients, Goto

LEMMA HappensTypes ==
  ASSUME TypedHistory, NEW what \in Answers \cup {"cancelled"}, Happens(what),
         acts' \in Nat, posts' \in Nat, resumes' \in Nat, again' \in Nat
  PROVE  TypedHistory'
  BY DEF TypedHistory, Happens

\* The parts of a row.
LEMMA OperationParts ==
  ASSUME NEW o \in Operation, NEW s \in Ended \cup {"absent", "queued", "running", "cancelling"},
         NEW b \in BOOLEAN
  PROVE  /\ o.status \in Ended \cup {"absent", "queued", "running", "cancelling"}
         /\ o.cancel \in BOOLEAN /\ o.link \in BOOLEAN
         /\ [o EXCEPT !.status = s] \in Operation
         /\ [o EXCEPT !.link = b] \in Operation
         /\ [o EXCEPT !.cancel = b, !.status = s] \in Operation
         /\ [o EXCEPT !.status = s, !.cancel = b] \in Operation
  BY DEF Operation

LEMMA ServeTypes ==
  ASSUME ConstantAssumption, Types, Serve
  PROVE  Types'
<1> USE DEF tasks, request, browser, clients, history
<1>1. CASE Receive
  <2>1. prompt' \in Prompts \cup {NoPrompt}
    BY <1>1 DEF Receive
  <2>2. kind' \in Kind /\ pc' \in RequestStates
    <3>1. prompt \in Prompt
      BY DEF ConstantAssumption, Types, NoPrompt, Prompt, Topics
    <3>2. PICK env \in Environments :
            /\ kind' = [agent |-> Decide(prompt, env), post |-> HasPostActions(prompt)]
            /\ pc' \in {"done", "raised", "root"}
      BY <1>1 DEF Receive, ConstantAssumption
    <3>3. QED
      BY <3>1, <3>2, DecideIsAnAgent DEF Kind, RequestStates
  <2>3. QED
    BY <1>1, <2>1, <2>2 DEF Receive, Types, TypedClients, TypedBrowser, TypedHistory
<1>2. CASE CreateRoot
  <2>1. root' \in Task /\ pc' \in RequestStates
    BY <1>2, TasksOfRequests DEF CreateRoot, RequestStates
  <2>2. QED
    BY <1>2, <2>1 DEF CreateRoot, Types, TypedClients, TypedBrowser, TypedHistory
<1>3. CASE Delegate
  <2>1. child' \in Task /\ pc' \in RequestStates
    BY <1>3, TasksOfRequests DEF Delegate, RequestStates
  <2>2. QED
    BY <1>3, <2>1 DEF Delegate, Types, TypedClients, TypedBrowser, TypedHistory
<1>4. CASE AgentUnready
  <2>1. res' \in Result /\ pc' \in RequestStates
    BY <1>4 DEF AgentUnready, Return, NoResult, Result, ResultStates, RequestStates
  <2>2. TypedHistory'
    BY <1>4, HappensTypes DEF AgentUnready, Types, TypedHistory, Answers
  <2>3. QED
    BY <1>4, <2>1, <2>2 DEF AgentUnready, Return, Types, TypedClients, TypedBrowser
<1>5. CASE AgentWorks
  <2>1. PICK s \in Outcomes :
          /\ Return("child", [NoResult EXCEPT !.status = s,
                                              !.grant = kind.agent = "computer" /\ s = "waiting"])
          /\ Happens(s)
    BY <1>5 DEF AgentWorks
  <2>2. s \in Answers
    BY <2>1 DEF ConstantAssumption
  <2>3. res' \in Result /\ pc' \in RequestStates
    BY <2>1, <2>2 DEF Return, NoResult, Result, ResultStates, RequestStates, Answers
  <2>4. TypedHistory'
    BY <1>5, <2>1, <2>2, HappensTypes DEF AgentWorks, Types, TypedHistory
  <2>5. QED
    BY <1>5, <2>3, <2>4 DEF AgentWorks, Types, TypedClients, TypedBrowser
<1>6. CASE BrowserAnswers
  <2>1. PICK s \in {"completed", "failed", "waiting"} :
          Return("child", [NoResult EXCEPT !.status = s]) /\ Happens(s)
    BY <1>6 DEF BrowserAnswers
  <2>2. res' \in Result /\ pc' \in RequestStates
    BY <2>1 DEF Return, NoResult, Result, ResultStates, RequestStates
  <2>3. TypedHistory'
    BY <1>6, <2>1, HappensTypes DEF BrowserAnswers, Types, TypedHistory, Answers
  <2>4. QED
    BY <1>6, <2>2, <2>3 DEF BrowserAnswers, Types, TypedClients, TypedBrowser
<1>7. CASE AgentStarts
  <2>1. res' \in Result /\ pc' \in RequestStates
    BY <1>7 DEF AgentStarts, Return, NoResult, Result, ResultStates, RequestStates
  <2>2. op' \in Operation /\ jobs' \in Nat
    BY <1>7 DEF AgentStarts, Types, TypedBrowser, Operation
  <2>3. TypedBrowser'
    BY <1>7, <2>2 DEF AgentStarts, Types, TypedBrowser
  <2>4. QED
    BY <1>7, <2>1, <2>3 DEF AgentStarts, Types, TypedClients, TypedHistory
<1>8. CASE AgentLinks
  <2>1. op' \in Operation /\ pc' \in RequestStates
    BY <1>8, OperationParts DEF AgentLinks, Types, TypedBrowser, RequestStates
  <2>2. QED
    BY <1>8, <2>1 DEF AgentLinks, Types, TypedClients, TypedBrowser, TypedHistory
<1>9. CASE CompleteChild
  <2>1. child' \in Task /\ pc' \in RequestStates
    BY <1>9, CompletedIsATask DEF CompleteChild, Types, RequestStates
  <2>2. QED
    BY <1>9, <2>1 DEF CompleteChild, Types, TypedClients, TypedBrowser, TypedHistory
<1>10. CASE CompleteRoot
  <2>1. root' \in Task
    BY <1>10, CompletedIsATask DEF CompleteRoot, Types
  <2>2. res' \in Result /\ pc' \in RequestStates
    BY <1>10 DEF CompleteRoot, Return, NoResult, Result, ResultStates, RequestStates
  <2>3. QED
    BY <1>10, <2>1, <2>2 DEF CompleteRoot, Types, TypedClients, TypedBrowser, TypedHistory
<1>11. QED
  BY <1>1, <1>2, <1>3, <1>4, <1>5, <1>6, <1>7, <1>8, <1>9, <1>10 DEF Serve

LEMMA RunTypes ==
  ASSUME ConstantAssumption, Types, Run
  PROVE  Types'
<1> USE DEF tasks, request, browser, clients, history
<1>1. CASE OperationLoads
  <2>1. /\ op' \in Operation /\ mem' \in Operation /\ run' \in {"publish", "working"}
        /\ run' = "publish" => mem'.status \in Ended
    <3>1. op \in Operation
      BY DEF Types, TypedBrowser
    <3>2. CASE op.cancel
      BY <1>1, <3>1, <3>2 DEF OperationLoads, Operation, Ended, Done
    <3>3. CASE ~op.cancel
      BY <1>1, <3>1, <3>3 DEF OperationLoads, Operation
    <3>4. QED
      BY <3>2, <3>3
  <2>2. jobs' \in Nat
    BY <1>1 DEF OperationLoads, Types, TypedBrowser
  <2>3. TypedBrowser'
    BY <2>1, <2>2 DEF TypedBrowser, RunStates
  <2>4. QED
    BY <1>1, <2>3 DEF OperationLoads, Types, TypedClients, TypedHistory
<1>2. CASE OperationChecks
  <2>1. /\ mem' \in Operation /\ run' \in {"ending", "stepping"}
        /\ run' = "ending" => mem'.status \in Ended
    <3>1. mem \in Operation
      BY DEF Types, TypedBrowser
    <3>2. CASE op.cancel
      BY <1>2, <3>1, <3>2 DEF OperationChecks, Operation, Ended, Done
    <3>3. CASE ~op.cancel
      BY <1>2, <3>1, <3>3 DEF OperationChecks
    <3>4. QED
      BY <3>2, <3>3
  <2>2. TypedBrowser'
    BY <1>2, <2>1 DEF OperationChecks, Types, TypedBrowser, RunStates
  <2>3. QED
    BY <1>2, <2>2 DEF OperationChecks, Types, TypedClients, TypedHistory
<1>3. CASE OperationEnds
  <2>1. PICK s \in Ended : mem' = [mem EXCEPT !.status = s, !.cancel = s = "cancelled"]
    BY <1>3 DEF OperationEnds
  <2>2. mem' \in Operation /\ mem'.status \in Ended
    BY <2>1, OperationParts DEF Types, TypedBrowser, Operation
  <2>3. TypedBrowser'
    BY <1>3, <2>2 DEF OperationEnds, Types, TypedBrowser, RunStates
  <2>4. QED
    BY <1>3, <2>3 DEF OperationEnds, Types, TypedClients, TypedHistory
<1>4. CASE OperationSaves
  <2>1. mem.status \in Ended
    BY <1>4 DEF OperationSaves, Types, TypedBrowser
  <2>2. Mapped(mem.status) \in Answers \cup {"cancelled"}
    BY <2>1 DEF Mapped, Ended, Done, Answers
  <2>3. TypedHistory'
    BY <1>4, <2>2, HappensTypes DEF OperationSaves, Types, TypedHistory
  <2>4. TypedBrowser'
    BY <1>4, <2>1 DEF OperationSaves, Types, TypedBrowser, RunStates
  <2>5. QED
    BY <1>4, <2>3, <2>4 DEF OperationSaves, Types, TypedClients
<1>5. CASE PublishChild
  <2>1. child' \in Task
    BY <1>5, PublishedIsATask DEF PublishChild, Types, TypedBrowser
  <2>2. TypedBrowser'
    BY <1>5 DEF PublishChild, Types, TypedBrowser, RunStates
  <2>3. TypedHistory'
    BY <1>5 DEF PublishChild, Types, TypedHistory
  <2>4. QED
    BY <1>5, <2>1, <2>2, <2>3 DEF PublishChild, Types, TypedClients
<1>6. CASE PublishUnlinked
  <2>1. TypedBrowser'
    BY <1>6 DEF PublishUnlinked, Types, TypedBrowser, RunStates
  <2>2. QED
    BY <1>6, <2>1 DEF PublishUnlinked, Types, TypedClients, TypedHistory
<1>7. CASE PublishRoot
  <2>1. root' \in Task
    BY <1>7, PublishedIsATask DEF PublishRoot, Types, TypedBrowser
  <2>2. TypedBrowser'
    BY <1>7 DEF PublishRoot, Types, TypedBrowser, RunStates
  <2>3. QED
    BY <1>7, <2>1, <2>2 DEF PublishRoot, Types, TypedClients, TypedHistory
<1>8. QED
  BY <1>1, <1>2, <1>3, <1>4, <1>5, <1>6, <1>7 DEF Run
LEMMA ClientTypes ==
  ASSUME ConstantAssumption, Types, NEW c \in Clients,
         CancelRead(c) \/ ApproveRead(c) \/ Cancelling(c) \/ Approving(c)
  PROVE  Types'
<1> USE DEF tasks, request, browser, clients, history
<1> USE DEF CancelStates, ApproveStates, ClientStates
<1>1. CASE CancelRead(c)
  <2>1. TypedClients'
    BY <1>1 DEF CancelRead, Read, Types, TypedClients, TypedBrowser, TypedHistory, Copy, ConstantAssumption
  <2>2. TypedHistory'
    BY <1>1, HappensTypes DEF CancelRead, Types, TypedHistory
  <2>3. QED
    BY <1>1, <2>1, <2>2 DEF CancelRead, Types, TypedBrowser
<1>2. CASE ApproveRead(c)
  <2>1. PICK aim \in {"child", "root"} :
          Read(c, IF Target(aim).grant THEN "perform" ELSE "resume", aim) /\ UNCHANGED <<tasks, request, browser, history>>
    BY <1>2 DEF ApproveRead
  <2>2. TypedClients'
    BY <2>1 DEF Read, Types, TypedClients, TypedBrowser, TypedHistory, Copy, ConstantAssumption
  <2>3. QED
    BY <2>1, <2>2 DEF Types, TypedBrowser, TypedHistory
<1>3. CASE CancelRoot(c)
  <2>1. root' \in Task
    BY <1>3, CancelledIsATask DEF CancelRoot, Types, TypedClients, Copy
  <2>2. TypedClients'
    BY <1>3, GotoTypes DEF CancelRoot, Types
  <2>3. QED
    BY <1>3, <2>1, <2>2 DEF CancelRoot, Types, TypedBrowser, TypedHistory
<1>4. CASE CancelChild(c)
  <2>1. child' \in Task
    BY <1>4, CancelledIsATask DEF CancelChild, Types, TypedClients, Copy
  <2>2. TypedClients'
    BY <1>4, GotoTypes DEF CancelChild, Types
  <2>3. QED
    BY <1>4, <2>1, <2>2 DEF CancelChild, Types, TypedBrowser, TypedHistory
<1>5. CASE CancelLooks(c)
  <2>1. TypedClients'
    BY <1>5, GotoTypes DEF CancelLooks, After, Types
  <2>2. QED
    BY <1>5, <2>1 DEF CancelLooks, Types, TypedBrowser, TypedHistory
<1>6. CASE CancelOperation(c)
  <2>1. op' \in Operation
    BY <1>6 DEF CancelOperation, Types, TypedBrowser, Operation
  <2>2. TypedClients'
    BY <1>6, GotoTypes DEF CancelOperation, After, Types
  <2>3. QED
    BY <1>6, <2>1, <2>2 DEF CancelOperation, Types, TypedBrowser, TypedHistory
<1>7. CASE ApprovePerform(c)
  <2>1. TypedClients'
    BY <1>7, GotoTypes DEF ApprovePerform, Types
  <2>2. TypedHistory'
    <3>1. CASE acts' = acts + 1 /\ Happens("completed")
      BY <1>7, <3>1, HappensTypes DEF ApprovePerform, Types, TypedHistory, Answers
    <3>2. CASE UNCHANGED <<acts, seen>>
      BY <1>7, <3>2 DEF ApprovePerform, Types, TypedHistory
    <3>3. QED
      BY <1>7, <3>1, <3>2 DEF ApprovePerform
  <2>3. QED
    BY <1>7, <2>1, <2>2 DEF ApprovePerform, Types, TypedBrowser
<1>8. CASE ApproveChild(c)
  <2>1. child' \in Task
    BY <1>8, ApprovedIsATask DEF ApproveChild, Types
  <2>2. TypedClients'
    BY <1>8, GotoTypes DEF ApproveChild, Types
  <2>3. QED
    BY <1>8, <2>1, <2>2 DEF ApproveChild, Types, TypedBrowser, TypedHistory
<1>9. CASE ApproveRoot(c)
  <2>1. root' \in Task
    BY <1>9, ApprovedIsATask DEF ApproveRoot, Types
  <2>2. TypedClients'
    BY <1>9, GotoTypes DEF ApproveRoot, Types
  <2>3. QED
    BY <1>9, <2>1, <2>2 DEF ApproveRoot, Types, TypedBrowser, TypedHistory
<1>10. CASE ResumeLooks(c)
  <2>1. TypedClients'
    <3>1. CASE op.status \in Ended \ {"completed"}
      BY <1>10, <3>1 DEF ResumeLooks, Types, TypedClients, TypedBrowser, TypedHistory, Copy
    <3>2. CASE op.status \notin Ended \ {"completed"}
      BY <1>10, <3>2, GotoTypes DEF ResumeLooks, Types
    <3>3. QED
      BY <3>1, <3>2
  <2>2. QED
    BY <1>10, <2>1 DEF ResumeLooks, Types, TypedBrowser, TypedHistory
<1>11. CASE ApproveResume(c)
  <2>1. op' \in Operation
    BY <1>11 DEF ApproveResume, Types, TypedClients, Copy, Operation
  <2>2. TypedClients'
    BY <1>11, GotoTypes DEF ApproveResume, Types
  <2>3. TypedHistory'
    BY <1>11 DEF ApproveResume, Types, TypedHistory
  <2>4. QED
    BY <1>11, <2>1, <2>2, <2>3 DEF ApproveResume, Types, TypedBrowser
<1>12. CASE ResumeSubmits(c)
  <2>1. TypedClients'
    BY <1>12, GotoTypes DEF ResumeSubmits, Types
  <2>2. TypedBrowser'
    BY <1>12 DEF ResumeSubmits, Types, TypedBrowser
  <2>3. QED
    BY <1>12, <2>1, <2>2 DEF ResumeSubmits, Types, TypedHistory
<1>13. CASE ResumeConfigures(c)
  <2>1. op' \in Operation
    BY <1>13 DEF ResumeConfigures, Types, TypedClients, TypedBrowser, Copy, Operation
  <2>2. TypedClients'
    BY <1>13, GotoTypes DEF ResumeConfigures, Types
  <2>3. QED
    BY <1>13, <2>1, <2>2 DEF ResumeConfigures, Types, TypedBrowser, TypedHistory
<1>14. CASE ApproveRunning(c)
  <2>1. root' \in Task /\ child' \in Task
    BY <1>14 DEF ApproveRunning, Types, Task, Active
  <2>2. TypedClients'
    BY <1>14, GotoTypes DEF ApproveRunning, Types
  <2>3. QED
    BY <1>14, <2>1, <2>2 DEF ApproveRunning, Types, TypedBrowser, TypedHistory
<1>15. QED
  BY <1>1, <1>2, <1>3, <1>4, <1>5, <1>6, <1>7, <1>8, <1>9, <1>10, <1>11, <1>12, <1>13, <1>14 DEF Cancelling, Approving
-----------------------------------------------------------------------------
(* What the tree shows has a cause *)

\* What has happened stays so.
LEMMA CauseStays ==
  ASSUME NEW S, NEW T, S \subseteq T, NEW s, Caused(s, S)
  PROVE  Caused(s, T)
  BY DEF Caused

\* A client that read nothing new, and goes on to a state that claims nothing new.
LEMMA CopiesStay ==
  ASSUME Types, CauseInv, seen \subseteq seen', NEW c \in Clients,
         cpc' = [cpc EXCEPT ![c] = cpc'[c]],
         \A d \in Clients \ {c} : snap'[d] = snap[d],
         Caused(snap'[c].root.status, seen') /\ Caused(snap'[c].child.status, seen'),
         cpc'[c] \in Stopping => "cancelled" \in seen',
         cpc'[c] \in {"approved", "approveroot"} => "completed" \in seen'
  PROVE  \A d \in Clients :
           /\ Caused(snap'[d].root.status, seen') /\ Caused(snap'[d].child.status, seen')
           /\ cpc'[d] \in Stopping => "cancelled" \in seen'
           /\ cpc'[d] \in {"approved", "approveroot"} => "completed" \in seen'
<1> SUFFICES ASSUME NEW d \in Clients
             PROVE  /\ Caused(snap'[d].root.status, seen') /\ Caused(snap'[d].child.status, seen')
                    /\ cpc'[d] \in Stopping => "cancelled" \in seen'
                    /\ cpc'[d] \in {"approved", "approveroot"} => "completed" \in seen'
  OBVIOUS
<1>1. CASE d = c
  BY <1>1
<1>2. CASE d # c
  <2>1. cpc'[d] = cpc[d] /\ snap'[d] = snap[d]
    BY <1>2 DEF Types, TypedClients
  <2>2. Caused(snap'[d].root.status, seen') /\ Caused(snap'[d].child.status, seen')
    BY <2>1, CauseStays DEF CauseInv
  <2>3. QED
    BY <2>1, <2>2 DEF CauseInv
<1>3. QED
  BY <1>1, <1>2

\* Nobody but the clients' own steps touches what they know.
LEMMA CopiesUntouched ==
  ASSUME CauseInv, seen \subseteq seen', UNCHANGED <<cpc, snap>>
  PROVE  \A d \in Clients :
           /\ Caused(snap'[d].root.status, seen') /\ Caused(snap'[d].child.status, seen')
           /\ cpc'[d] \in Stopping => "cancelled" \in seen'
           /\ cpc'[d] \in {"approved", "approveroot"} => "completed" \in seen'
<1> TAKE d \in Clients
<1>1. Caused(snap'[d].root.status, seen') /\ Caused(snap'[d].child.status, seen')
  BY CauseStays DEF CauseInv
<1>2. QED
  BY <1>1 DEF CauseInv

LEMMA ServeHasCause ==
  ASSUME ConstantAssumption, Types, CauseInv, Serve
  PROVE  CauseInv'
<1> USE DEF tasks, request, browser, clients, history
<1>1. seen \subseteq seen' /\ UNCHANGED <<cpc, snap>>
  BY DEF Serve, Receive, CreateRoot, Delegate, AgentUnready, AgentWorks, BrowserAnswers, AgentStarts,
         AgentLinks, CompleteChild, CompleteRoot, Return, Happens
<1>2. Caused(root.status, seen') /\ Caused(child.status, seen')
  BY <1>1, CauseStays DEF CauseInv
<1>3. \A d \in Clients :
        /\ Caused(snap'[d].root.status, seen') /\ Caused(snap'[d].child.status, seen')
        /\ cpc'[d] \in Stopping => "cancelled" \in seen'
        /\ cpc'[d] \in {"approved", "approveroot"} => "completed" \in seen'
  BY <1>1, CopiesUntouched
<1>4. CASE Receive \/ CreateRoot \/ Delegate
  <2>1. UNCHANGED <<seen, op, mem, run>> /\ pc' \notin {"link", "child", "complete"}
    BY <1>4 DEF Receive, CreateRoot, Delegate
  <2>2. root' \in {root, NewTask} /\ child' \in {child, NewTask}
    BY <1>4 DEF Receive, CreateRoot, Delegate
  <2>3. Caused(root'.status, seen') /\ Caused(child'.status, seen')
    BY <1>2, <2>2 DEF Caused, NewTask, NoTask
  <2>4. QED
    BY <1>3, <2>1, <2>3 DEF CauseInv
<1>5. CASE AgentUnready \/ AgentWorks \/ BrowserAnswers
  <2>1. UNCHANGED <<root, child, op, mem, run>>
    BY <1>5 DEF AgentUnready, AgentWorks, BrowserAnswers
  <2>2. res'.status \in {"failed", "waiting", "completed", "not_found"} /\ res'.status \in seen'
    BY <1>5 DEF AgentUnready, AgentWorks, BrowserAnswers, Return, Happens, NoResult, ConstantAssumption,
                Answers
  <2>3. QED
    BY <1>1, <1>2, <1>3, <2>1, <2>2 DEF CauseInv
<1>6. CASE AgentStarts
  <2>1. UNCHANGED <<root, child, mem, run, seen>> /\ res'.status = "running" /\ op'.cancel = op.cancel
    BY <1>6 DEF AgentStarts, Return, NoResult, Types, TypedBrowser, Operation
  <2>2. QED
    BY <1>2, <1>3, <2>1 DEF CauseInv
<1>7. CASE AgentLinks
  <2>1. UNCHANGED <<root, child, mem, run, seen, res>> /\ op'.cancel = op.cancel /\ pc = "link"
    BY <1>7 DEF AgentLinks, Types, TypedBrowser, Operation
  <2>2. QED
    BY <1>2, <1>3, <2>1 DEF CauseInv
<1>8. CASE CompleteChild \/ CompleteRoot
  <2>1. /\ UNCHANGED <<op, mem, run, seen>>
        /\ pc \in {"child", "complete"}
        /\ pc' \in {"link", "child", "complete"} => res' = res
    BY <1>8 DEF CompleteChild, CompleteRoot, Return
  <2>2. \A t \in Task : Caused(Completed(t, res).status, seen)
    <3>1. /\ res.status \in {"running", "failed", "waiting", "completed", "not_found"}
          /\ res.status # "running" => res.status \in seen
      BY <2>1 DEF CauseInv
    <3>2. QED
      BY <3>1 DEF Caused, Completed, Task
  <2>3. Caused(root'.status, seen') /\ Caused(child'.status, seen')
    BY <1>2, <1>8, <2>1, <2>2 DEF CompleteChild, CompleteRoot, Types
  <2>4. QED
    BY <1>3, <2>1, <2>3 DEF CauseInv
<1>9. QED
  BY <1>4, <1>5, <1>6, <1>7, <1>8 DEF Serve

LEMMA RunHasCause ==
  ASSUME ConstantAssumption, Types, CauseInv, Run
  PROVE  CauseInv'
<1> USE DEF tasks, request, browser, clients, history
<1>1. seen \subseteq seen' /\ UNCHANGED <<pc, res, cpc, snap>>
  BY DEF Run, OperationLoads, OperationChecks, OperationEnds, OperationSaves, PublishChild, PublishUnlinked,
         PublishRoot, Happens
<1>2. Caused(root.status, seen') /\ Caused(child.status, seen')
  BY <1>1, CauseStays DEF CauseInv
<1>3. \A d \in Clients :
        /\ Caused(snap'[d].root.status, seen') /\ Caused(snap'[d].child.status, seen')
        /\ cpc'[d] \in Stopping => "cancelled" \in seen'
        /\ cpc'[d] \in {"approved", "approveroot"} => "completed" \in seen'
  BY <1>1, CopiesUntouched
<1>4. pc' \in {"link", "child", "complete"} =>
        /\ res'.status \in {"running", "failed", "waiting", "completed", "not_found"}
        /\ res'.status # "running" => res'.status \in seen'
  BY <1>1 DEF CauseInv
<1>5. CASE OperationLoads
  <2>1. UNCHANGED <<root, child, seen>>
    BY <1>5 DEF OperationLoads
  <2>2. op \in Operation
    BY DEF Types, TypedBrowser
  <2>3. op'.cancel = op.cancel /\ mem'.cancel = op.cancel
    BY <1>5, <2>2 DEF OperationLoads, Operation
  <2>4. run' \in {"publish", "working"} /\ (run' = "publish" => op.cancel /\ mem'.status = "cancelled")
    BY <1>5, <2>2 DEF OperationLoads, Operation
  <2>5. QED
    BY <1>2, <1>3, <1>4, <2>1, <2>3, <2>4 DEF CauseInv, Mapped
<1>6. CASE OperationChecks
  <2>1. UNCHANGED <<root, child, seen, op>> /\ run' \in {"ending", "stepping"}
    BY <1>6 DEF OperationChecks
  <2>2. mem'.cancel => op.cancel \/ mem.cancel
    BY <1>6 DEF OperationChecks, Types, TypedBrowser, Operation
  <2>3. run' = "ending" => op.cancel
    BY <1>6 DEF OperationChecks
  <2>4. QED
    BY <1>2, <1>3, <1>4, <2>1, <2>2, <2>3 DEF CauseInv
<1>7. CASE OperationEnds
  <2>1. UNCHANGED <<root, child, seen, op>> /\ run' = "ending"
    BY <1>7 DEF OperationEnds
  <2>2. mem'.status = "cancelled" \/ mem'.cancel => op.cancel
    BY <1>7 DEF OperationEnds, Types, TypedBrowser, Operation
  <2>3. QED
    BY <1>2, <1>3, <1>4, <2>1, <2>2 DEF CauseInv
<1>8. CASE OperationSaves
  <2>1. UNCHANGED <<root, child, mem>> /\ op' = mem /\ run' = "publish" /\ Mapped(mem.status) \in seen'
    BY <1>8 DEF OperationSaves, Happens
  <2>2. QED
    BY <1>1, <1>2, <1>3, <1>4, <2>1 DEF CauseInv
<1>9. CASE PublishChild \/ PublishUnlinked \/ PublishRoot
  <2>1. /\ UNCHANGED <<op, mem, seen>> /\ run' \in {"parent", "none"}
        /\ run' = "parent" => run = "publish"
        /\ run \in {"publish", "parent"}
    BY <1>9 DEF PublishChild, PublishUnlinked, PublishRoot
  <2>2. \A t \in Task : Caused(Published(t).status, seen)
    <3>1. mem.status \in Ended /\ Mapped(mem.status) \in seen
      BY <2>1 DEF CauseInv, Types, TypedBrowser
    <3>2. QED
      BY <3>1 DEF Caused, Published, Task
  <2>3. Caused(root'.status, seen') /\ Caused(child'.status, seen')
    BY <1>2, <1>9, <2>1, <2>2 DEF PublishChild, PublishUnlinked, PublishRoot, Types
  <2>4. QED
    BY <1>3, <1>4, <2>1, <2>3 DEF CauseInv
<1>10. QED
  BY <1>5, <1>6, <1>7, <1>8, <1>9 DEF Run
LEMMA ClientHasCause ==
  ASSUME ConstantAssumption, Types, CauseInv, NEW c \in Clients,
         CancelRead(c) \/ ApproveRead(c) \/ Cancelling(c) \/ Approving(c)
  PROVE  CauseInv'
<1> USE DEF tasks, request, browser, clients, history
<1> DEFINE Told == \A d \in Clients :
                     /\ Caused(snap'[d].root.status, seen') /\ Caused(snap'[d].child.status, seen')
                     /\ cpc'[d] \in Stopping => "cancelled" \in seen'
                     /\ cpc'[d] \in {"approved", "approveroot"} => "completed" \in seen'
<1>0. Caused("none", seen) /\ Caused("completed", seen \cup {"completed"})
  BY DEF Caused
<1>1. CASE CancelRead(c)
  <2>1. /\ UNCHANGED <<tasks, request, browser>> /\ seen' = seen \cup {"cancelled"}
        /\ cpc' = [cpc EXCEPT ![c] = "cancelroot"]
        /\ snap' = [snap EXCEPT ![c] = [root |-> root, child |-> child, op |-> op, aim |-> "root",
                                        taken |-> resumes]]
    BY <1>1 DEF CancelRead, Read, Happens
  <2>2. Caused(root.status, seen') /\ Caused(child.status, seen')
    BY <2>1, CauseStays DEF CauseInv
  <2>3. cpc'[c] = "cancelroot" /\ snap'[c].root = root /\ snap'[c].child = child
    BY <2>1 DEF Types, TypedClients
  <2>4. Told
    BY <2>1, <2>2, <2>3, CopiesStay DEF Types, TypedClients
  <2>5. QED
    BY <2>1, <2>2, <2>4 DEF CauseInv
<1>2. CASE ApproveRead(c)
  <2>1. PICK to \in {"perform", "resume"}, aim \in {"child", "root"} :
          /\ UNCHANGED <<tasks, request, browser, history>>
          /\ cpc' = [cpc EXCEPT ![c] = to]
          /\ snap' = [snap EXCEPT ![c] = [root |-> root, child |-> child, op |-> op, aim |-> aim,
                                          taken |-> resumes]]
    BY <1>2 DEF ApproveRead, Read
  <2>2. cpc'[c] = to /\ snap'[c].root = root /\ snap'[c].child = child
    BY <2>1 DEF Types, TypedClients
  <2>3. Told
    BY <2>1, <2>2, CopiesStay DEF Types, TypedClients, CauseInv, Stopping
  <2>4. QED
    BY <2>1, <2>3 DEF CauseInv
<1>3. CASE CancelRoot(c) \/ CancelChild(c) \/ CancelLooks(c) \/ CancelOperation(c)
  <2>1. /\ UNCHANGED <<pc, res, run, mem, seen>> /\ cpc[c] \in Stopping
        /\ \E to \in Stopping \cup {"idle"} : Goto(c, to)
    BY <1>3 DEF CancelRoot, CancelChild, CancelLooks, CancelOperation, After, Stopping
  <2>2. "cancelled" \in seen
    BY <2>1 DEF CauseInv
  <2>3. Told
    <3>1. PICK to \in Stopping \cup {"idle"} : Goto(c, to)
      BY <2>1
    <3>2. cpc'[c] = to /\ (snap'[c] = snap[c] \/ snap'[c] = Unread)
      BY <3>1 DEF Goto, Types, TypedClients
    <3>3. Caused(snap'[c].root.status, seen') /\ Caused(snap'[c].child.status, seen')
      BY <1>0, <2>1, <3>2 DEF CauseInv, Unread, NoTask
    <3>4. QED
      BY <2>1, <2>2, <3>1, <3>2, <3>3, CopiesStay DEF Goto, Types, TypedClients, Stopping
  <2>4. \A t \in Task : Caused(t.status, seen) => Caused(Cancelled(t, snap[c].root).status, seen)
                                               /\ Caused(Cancelled(t, snap[c].child).status, seen)
    BY <2>2 DEF Caused, Cancelled, Task, CauseInv
  <2>5. Caused(root'.status, seen') /\ Caused(child'.status, seen')
    BY <1>3, <2>1, <2>4 DEF CancelRoot, CancelChild, CancelLooks, CancelOperation, CauseInv, Types
  <2>6. QED
    BY <2>1, <2>2, <2>3, <2>5 DEF CauseInv
<1>4. CASE ApprovePerform(c)
  <2>1. /\ UNCHANGED <<tasks, request, browser>>
        /\ \E to \in {"approved", "approveroot", "idle"} :
             Goto(c, to) /\ (to # "idle" => "completed" \in seen')
        /\ seen \subseteq seen'
    BY <1>4 DEF ApprovePerform, Happens
  <2>2. PICK to \in {"approved", "approveroot", "idle"} :
          Goto(c, to) /\ (to # "idle" => "completed" \in seen')
    BY <2>1
  <2>3. cpc'[c] = to /\ (snap'[c] = snap[c] \/ snap'[c] = Unread)
    BY <2>2 DEF Goto, Types, TypedClients
  <2>4. Caused(snap'[c].root.status, seen) /\ Caused(snap'[c].child.status, seen)
    BY <1>0, <2>3 DEF CauseInv, Unread, NoTask
  <2>5. Caused(snap'[c].root.status, seen') /\ Caused(snap'[c].child.status, seen')
        /\ Caused(root.status, seen') /\ Caused(child.status, seen')
    BY <2>1, <2>4, CauseStays DEF CauseInv
  <2>6. Told
    BY <2>1, <2>2, <2>3, <2>5, CopiesStay DEF Goto, Types, TypedClients, Stopping
  <2>7. QED
    BY <2>1, <2>5, <2>6 DEF CauseInv
<1>5. CASE ApproveChild(c) \/ ApproveRoot(c)
  <2>1. /\ UNCHANGED <<pc, res, op, run, mem, seen>> /\ "completed" \in seen
        /\ \E to \in {"approveroot", "idle"} : Goto(c, to)
    BY <1>5 DEF ApproveChild, ApproveRoot, CauseInv
  <2>2. PICK to \in {"approveroot", "idle"} : Goto(c, to)
    BY <2>1
  <2>3. cpc'[c] = to /\ (snap'[c] = snap[c] \/ snap'[c] = Unread)
    BY <2>2 DEF Goto, Types, TypedClients
  <2>4. Caused(snap'[c].root.status, seen') /\ Caused(snap'[c].child.status, seen')
    BY <1>0, <2>1, <2>3 DEF CauseInv, Unread, NoTask
  <2>5. Told
    BY <2>1, <2>2, <2>3, <2>4, CopiesStay DEF Goto, Types, TypedClients, Stopping
  <2>6. Caused(root'.status, seen') /\ Caused(child'.status, seen')
    BY <1>5, <2>1 DEF ApproveChild, ApproveRoot, Approved, Caused, CauseInv, Types, Task
  <2>7. QED
    BY <2>1, <2>5, <2>6 DEF CauseInv
<1>6. CASE ResumeLooks(c)
  <2>1. UNCHANGED <<tasks, request, browser, history>>
    BY <1>6 DEF ResumeLooks
  <2>2. /\ cpc' = [cpc EXCEPT ![c] = cpc'[c]] /\ cpc'[c] \in {"resave", "idle"}
        /\ \A d \in Clients \ {c} : snap'[d] = snap[d]
        /\ \/ snap'[c] = Unread
           \/ snap'[c].root = snap[c].root /\ snap'[c].child = snap[c].child
    BY <1>6 DEF ResumeLooks, Goto, Types, TypedClients, Copy
  <2>3. Caused(snap'[c].root.status, seen') /\ Caused(snap'[c].child.status, seen')
    BY <1>0, <2>1, <2>2 DEF CauseInv, Unread, NoTask
  <2>4. Told
    BY <2>1, <2>2, <2>3, CopiesStay DEF Stopping
  <2>5. QED
    BY <2>1, <2>4 DEF CauseInv
<1>7. CASE ApproveResume(c) \/ ResumeSubmits(c) \/ ResumeConfigures(c) \/ ApproveRunning(c)
  <2>1. /\ UNCHANGED <<pc, res, run, mem, seen>>
        /\ \E to \in {"submit", "config", "resumed", "idle"} : Goto(c, to)
    BY <1>7 DEF ApproveResume, ResumeSubmits, ResumeConfigures, ApproveRunning
  <2>2. PICK to \in {"submit", "config", "resumed", "idle"} : Goto(c, to)
    BY <2>1
  <2>3. cpc'[c] = to /\ (snap'[c] = snap[c] \/ snap'[c] = Unread)
    BY <2>2 DEF Goto, Types, TypedClients
  <2>4. Caused(snap'[c].root.status, seen') /\ Caused(snap'[c].child.status, seen')
    BY <1>0, <2>1, <2>3 DEF CauseInv, Unread, NoTask
  <2>5. Told
    BY <2>1, <2>2, <2>3, <2>4, CopiesStay DEF Goto, Types, TypedClients, Stopping
  <2>6. Caused(root'.status, seen') /\ Caused(child'.status, seen')
    BY <1>7, <2>1 DEF ApproveResume, ResumeSubmits, ResumeConfigures, ApproveRunning, Caused, CauseInv, Types, Task
  <2>7. op'.cancel => op.cancel
    BY <1>7 DEF ApproveResume, ResumeSubmits, ResumeConfigures, ApproveRunning, Types, TypedBrowser, Operation
  <2>8. QED
    BY <2>1, <2>5, <2>6, <2>7 DEF CauseInv
<1>8. QED
  BY <1>1, <1>2, <1>3, <1>4, <1>5, <1>6, <1>7 DEF Cancelling, Approving

-----------------------------------------------------------------------------
(* What is handed on *)

\* The parts of the sum are numbers.
LEMMA DueIsANumber ==
  ASSUME Types, IsFiniteSet(Pending)
  PROVE  Cardinality(Pending) \in Nat /\ Due \in Nat /\ Busy \in {0, 1} /\ posts \in Nat /\ jobs \in Nat
                /\ again \in Nat /\ resumes \in Nat
<1>1. Cardinality(Pending) \in Nat
  BY FS_CardinalityType
<1>2. posts \in Nat /\ jobs \in Nat /\ again \in Nat /\ resumes \in Nat
  BY DEF Types, TypedBrowser, TypedHistory
<1>3. Busy \in {0, 1}
  BY DEF Busy
<1>4. QED
  BY <1>1, <1>2, <1>3 DEF Due

\* A client that neither comes to submit a run nor submits one.
LEMMA PendingStays ==
  ASSUME Types, NEW c \in Clients, NEW to, to # "submit", cpc[c] # "submit",
         cpc' = [cpc EXCEPT ![c] = to]
  PROVE  Pending' = Pending /\ \A d \in Clients : cpc'[d] = "resave" => d = c \/ cpc[d] = "resave"
  BY DEF Pending, Types, TypedClients

\* Steps after which no more is due, and which touch neither the resumptions nor the clients.
LEMMA CountStays ==
  ASSUME Types, Types', CountInv, UNCHANGED <<cpc, snap, resumes, again>>, Due' <= Due,
         pc' \in Early =>
           /\ pc \in Early /\ posts' = 0 /\ jobs' = 0 /\ run' = "none" /\ op'.status \notin Ended,
         op'.status \in Ended \ {"completed"} => op.status \in Ended \ {"completed"} \/ Due' < Due,
         posts' > 0 => "completed" \in seen'
  PROVE  CountInv'
<1>1. Pending' = Pending
  BY DEF Pending
<1>2. Due \in Nat /\ again \in Nat
  BY DueIsANumber DEF CountInv
<1>3. Due' \in Nat
  <2>1. Cardinality(Pending)' \in Nat
    BY <1>1, DueIsANumber DEF CountInv
  <2>2. posts' \in Nat /\ jobs' \in Nat
    BY DEF Types, TypedBrowser, TypedHistory
  <2>3. Busy' \in {0, 1}
    BY DEF Busy
  <2>4. QED
    BY <2>1, <2>2, <2>3 DEF Due
<1>4. op'.status \in Ended \ {"completed"} => Due' <= again
  BY <1>2, <1>3 DEF CountInv
<1>5. \A c \in Clients : cpc'[c] = "resave" =>
        snap'[c].taken <= resumes' /\ (snap'[c].taken = resumes' => Due' <= again')
  BY <1>2, <1>3 DEF CountInv
<1>6. Due' <= 1 + again'
  BY <1>2, <1>3 DEF CountInv
<1>7. IsFiniteSet(Pending)'
  BY <1>1 DEF CountInv
<1>8. pc' \in Early =>
        /\ posts' = 0 /\ jobs' = 0 /\ run' = "none" /\ op'.status \notin Ended
        /\ \A c \in Clients : cpc'[c] \notin {"resave", "submit"}
  BY DEF CountInv
<1>9. QED
  BY <1>4, <1>5, <1>6, <1>7, <1>8 DEF CountInv
LEMMA ServeCounts ==
  ASSUME ConstantAssumption, Types, Types', CountInv, Serve
  PROVE  CountInv'
<1> USE DEF tasks, request, browser, clients, history
<1>0. /\ UNCHANGED <<cpc, snap, resumes, again, posts, run, mem>> /\ seen \subseteq seen'
  BY DEF Serve, Receive, CreateRoot, Delegate, AgentUnready, AgentWorks, BrowserAnswers, AgentStarts,
         AgentLinks, CompleteChild, CompleteRoot, Return, Happens
<1>1. Pending' = Pending /\ Busy' = Busy
  BY <1>0 DEF Pending, Busy
<1>2. /\ Due \in Nat /\ Busy \in {0, 1} /\ posts \in Nat /\ jobs \in Nat /\ again \in Nat
      /\ Cardinality(Pending) \in Nat
  BY DueIsANumber DEF CountInv
<1>3. CASE AgentStarts
  <2>1. pc \in Early /\ pc' \notin Early /\ jobs' = jobs + 1 /\ op'.status = "queued"
    BY <1>3 DEF AgentStarts, Return, Early, Types, TypedBrowser, Operation
  <2>2. Due = 0
    <3>1. Pending = {}
      BY <2>1 DEF CountInv, Pending
    <3>2. Busy = 0 /\ posts = 0 /\ jobs = 0
      BY <2>1 DEF CountInv, Busy
    <3>3. QED
      BY <3>1, <3>2, FS_EmptySet DEF Due
  <2>3. Due' = 1
    BY <1>0, <1>1, <1>2, <2>1, <2>2 DEF Due
  <2>4. \A c \in Clients : cpc'[c] # "resave"
    BY <1>0, <2>1 DEF CountInv
  <2>5. QED
    BY <1>0, <1>1, <1>2, <2>1, <2>3, <2>4 DEF CountInv, Ended, Done
<1>4. CASE ~AgentStarts
  <2>1. /\ UNCHANGED jobs /\ op'.status = op.status
        /\ pc' \in Early => pc \in Early
    BY <1>4 DEF Serve, Receive, CreateRoot, Delegate, AgentUnready, AgentWorks, BrowserAnswers,
                AgentLinks, CompleteChild, CompleteRoot, Return, Early, Types, TypedBrowser, Operation
  <2>2. Due' = Due
    BY <1>0, <1>1, <2>1 DEF Due
  <2>3. QED
    BY <1>0, <1>2, <2>1, <2>2, CountStays DEF CountInv
<1>5. QED
  BY <1>3, <1>4

LEMMA RunCounts ==
  ASSUME ConstantAssumption, Types, Types', CauseInv, CountInv, Run
  PROVE  CountInv'
<1> USE DEF tasks, request, browser, clients, history
<1>0. UNCHANGED <<cpc, snap, resumes, again, pc>> /\ seen \subseteq seen'
  BY DEF Run, OperationLoads, OperationChecks, OperationEnds, OperationSaves, PublishChild, PublishUnlinked,
         PublishRoot, Happens
<1>1. Pending' = Pending
  BY <1>0 DEF Pending
<1>2. /\ Due \in Nat /\ Busy \in {0, 1} /\ posts \in Nat /\ jobs \in Nat /\ again \in Nat
      /\ Cardinality(Pending) \in Nat
  BY DueIsANumber DEF CountInv
<1>3. pc \notin Early
  <2>1. jobs > 0 \/ run # "none"
    BY DEF Run, OperationLoads, OperationChecks, OperationEnds, OperationSaves, PublishChild,
           PublishUnlinked, PublishRoot
  <2>2. QED
    BY <1>2, <2>1 DEF CountInv
<1>4. CASE OperationLoads
  <2>1. jobs' = jobs - 1 /\ UNCHANGED <<posts, seen>> /\ Busy = 0
    BY <1>4 DEF OperationLoads, Busy
  <2>2. \/ run' = "publish" /\ mem'.status = "cancelled"
        \/ run' = "working" /\ op'.status = "running"
    BY <1>4 DEF OperationLoads, Types, TypedBrowser, Operation
  <2>3. \/ Due' = Due - 1
        \/ Due' = Due /\ op'.status = "running"
    BY <1>1, <1>2, <2>1, <2>2 DEF Due, Busy
  <2>4. QED
    BY <1>0, <1>2, <1>3, <2>1, <2>3, CountStays DEF CountInv, Ended, Done
<1>5. CASE OperationChecks \/ OperationEnds
  <2>1. UNCHANGED <<jobs, posts, seen, op>> /\ Busy' = 1 /\ Busy = 1
    BY <1>5 DEF OperationChecks, OperationEnds, Busy
  <2>2. Due' = Due
    BY <1>1, <2>1 DEF Due
  <2>3. QED
    BY <1>0, <1>2, <1>3, <2>1, <2>2, CountStays DEF CountInv
<1>6. CASE OperationSaves
  <2>1. UNCHANGED <<jobs, posts>> /\ op' = mem /\ mem' = mem /\ run' = "publish" /\ Busy = 1
    BY <1>6 DEF OperationSaves, Busy
  <2>2. \/ op'.status = "completed" /\ Busy' = 1
        \/ Busy' = 0
    BY <2>1 DEF Busy
  <2>3. \/ Due' = Due /\ op'.status = "completed"
        \/ Due' = Due - 1
    BY <1>1, <1>2, <2>1, <2>2 DEF Due
  <2>4. QED
    BY <1>0, <1>2, <1>3, <2>1, <2>3, CountStays DEF CountInv
<1>7. CASE PublishChild
  <2>1. UNCHANGED <<jobs, seen, op>> /\ Busy' = 0 /\ run = "publish"
        /\ ((posts' = posts + 1 /\ mem.status = "completed") \/ posts' = posts)
    BY <1>2, <1>7 DEF PublishChild, Busy
  <2>2. Due' <= Due
    BY <1>1, <1>2, <2>1 DEF Due, Busy
  <2>3. posts' > 0 => "completed" \in seen
    <3>1. CASE mem.status = "completed"
      BY <2>1, <3>1 DEF CauseInv, Mapped
    <3>2. CASE posts' = posts
      BY <3>2 DEF CountInv
    <3>3. QED
      BY <2>1, <3>1, <3>2
  <2>4. QED
    BY <1>0, <1>2, <1>3, <2>1, <2>2, <2>3, CountStays DEF CountInv
<1>8. CASE PublishUnlinked \/ PublishRoot
  <2>1. UNCHANGED <<jobs, seen, op, posts>> /\ Busy' = 0
    BY <1>8 DEF PublishUnlinked, PublishRoot, Busy
  <2>2. Due' <= Due
    BY <1>1, <1>2, <2>1 DEF Due
  <2>3. QED
    BY <1>0, <1>2, <1>3, <2>1, <2>2, CountStays DEF CountInv
<1>9. QED
  BY <1>4, <1>5, <1>6, <1>7, <1>8 DEF Run

LEMMA ClientCounts ==
  ASSUME ConstantAssumption, Types, Types', CountInv, NEW c \in Clients,
         CancelRead(c) \/ ApproveRead(c) \/ Cancelling(c) \/ Approving(c)
  PROVE  CountInv'
<1> USE DEF tasks, request, browser, clients, history
<1>0. /\ UNCHANGED <<pc, posts, run, mem>> /\ seen \subseteq seen'
  BY DEF CancelRead, ApproveRead, Read, Cancelling, Approving, CancelRoot, CancelChild, CancelLooks,
         CancelOperation, ApprovePerform, ApproveChild, ApproveRoot, ResumeLooks, ApproveResume,
         ResumeSubmits, ResumeConfigures, ApproveRunning, Happens
<1>1. Busy' = Busy
  BY <1>0 DEF Busy
<1>2. /\ Due \in Nat /\ Busy \in {0, 1} /\ posts \in Nat /\ jobs \in Nat /\ again \in Nat
      /\ Cardinality(Pending) \in Nat /\ resumes \in Nat /\ IsFiniteSet(Pending)
  BY DueIsANumber DEF CountInv
<1>3. CASE ResumeLooks(c)
  <2>1. UNCHANGED <<jobs, op, resumes, again, seen>>
    BY <1>3 DEF ResumeLooks
  <2>2. Pending' = Pending
    <3>1. cpc[c] = "resume" /\ cpc'[c] \in {"resave", "idle"} /\ cpc' = [cpc EXCEPT ![c] = cpc'[c]]
      BY <1>3 DEF ResumeLooks, Goto, Types, TypedClients
    <3>2. QED
      BY <3>1, PendingStays
  <2>3. Due' = Due
    BY <1>0, <1>1, <2>1, <2>2 DEF Due
  <2>4. \A d \in Clients : cpc'[d] = "resave" =>
          snap'[d].taken <= resumes /\ (snap'[d].taken = resumes => Due <= again)
    <3> TAKE d \in Clients
    <3>1. CASE d # c
      <4>1. cpc'[d] = cpc[d] /\ snap'[d] = snap[d]
        BY <1>3, <3>1 DEF ResumeLooks, Goto, Types, TypedClients
      <4>2. QED
        BY <4>1 DEF CountInv
    <3>2. CASE d = c
      <4>1. SUFFICES ASSUME cpc'[c] = "resave" PROVE snap'[c].taken = resumes /\ Due <= again
        BY <1>2, <3>2
      <4>2. op.status \in Ended \ {"completed"}
        BY <1>3, <4>1 DEF ResumeLooks, Goto, Types, TypedClients
      <4>3. snap'[c].taken = resumes
        BY <1>3, <4>2 DEF ResumeLooks, Types, TypedClients, Copy
      <4>4. QED
        BY <4>2, <4>3 DEF CountInv
    <3>3. QED
      BY <3>1, <3>2
  <2>5. pc' \in Early => \A d \in Clients : cpc'[d] \notin {"resave", "submit"}
    <3>1. SUFFICES ASSUME pc \in Early, NEW d \in Clients PROVE cpc'[d] \notin {"resave", "submit"}
      BY <1>0
    <3>2. op.status \notin Ended
      BY <3>1 DEF CountInv
    <3>3. cpc' = [cpc EXCEPT ![c] = "idle"]
      BY <1>3, <3>2 DEF ResumeLooks, Goto
    <3>4. QED
      BY <3>1, <3>3 DEF CountInv, Types, TypedClients
  <2>6. QED
    BY <1>0, <1>2, <2>1, <2>2, <2>3, <2>4, <2>5 DEF CountInv
<1>4. CASE ApproveResume(c)
  <2>1. /\ cpc[c] = "resave" /\ cpc' = [cpc EXCEPT ![c] = "submit"] /\ op'.status = "queued"
        /\ jobs' = jobs /\ resumes' = resumes + 1 /\ \A d \in Clients \ {c} : snap'[d] = snap[d]
    BY <1>4 DEF ApproveResume, Goto, Types, TypedClients
  <2>2. Pending' = Pending \cup {c} /\ c \notin Pending
    BY <2>1 DEF Pending, Types, TypedClients
  <2>3. IsFiniteSet(Pending') /\ Cardinality(Pending') = Cardinality(Pending) + 1
    BY <1>2, <2>2, FS_AddElement
  <2>4. Due' = Due + 1
    BY <1>0, <1>1, <1>2, <2>1, <2>3 DEF Due
  <2>5. Due' <= 1 + again'
    <3>1. CASE snap[c].taken = resumes
      BY <1>2, <1>4, <2>1, <2>4, <3>1 DEF ApproveResume, CountInv
    <3>2. CASE snap[c].taken # resumes
      BY <1>2, <1>4, <2>4, <3>2 DEF ApproveResume, CountInv
    <3>3. QED
      BY <3>1, <3>2
  <2>6. \A d \in Clients : cpc'[d] = "resave" => snap'[d].taken <= resumes' /\ snap'[d].taken # resumes'
    <3> SUFFICES ASSUME NEW d \in Clients, cpc'[d] = "resave"
                 PROVE  snap'[d].taken <= resumes' /\ snap'[d].taken # resumes'
      OBVIOUS
    <3>1. d # c /\ cpc[d] = "resave" /\ snap'[d] = snap[d]
      BY <2>1 DEF Types, TypedClients
    <3>2. snap[d].taken <= resumes /\ snap[d].taken \in Nat
      BY <3>1 DEF CountInv, Types, TypedClients, Copy
    <3>3. QED
      BY <1>2, <2>1, <3>1, <3>2
  <2>7. pc' \notin Early
    BY <1>0, <2>1 DEF CountInv
  <2>8. QED
    BY <1>0, <2>1, <2>3, <2>5, <2>6, <2>7 DEF CountInv, Ended, Done
<1>5. CASE ResumeSubmits(c)
  <2>1. /\ cpc[c] = "submit" /\ cpc' = [cpc EXCEPT ![c] = "config"] /\ op' = op /\ UNCHANGED <<resumes, again, seen>>
        /\ jobs' = jobs + 1 /\ \A d \in Clients : snap'[d] = snap[d]
    BY <1>5 DEF ResumeSubmits, Goto, Types, TypedClients
  <2>2. Pending' = Pending \ {c} /\ c \in Pending
    BY <2>1 DEF Pending, Types, TypedClients
  <2>3. IsFiniteSet(Pending') /\ Cardinality(Pending') = Cardinality(Pending) - 1
    BY <1>2, <2>2, FS_RemoveElement
  <2>4. Due' = Due
    BY <1>0, <1>1, <1>2, <2>1, <2>3 DEF Due
  <2>5. \A d \in Clients : cpc'[d] = "resave" => cpc[d] = "resave" /\ snap'[d] = snap[d]
    BY <2>1 DEF Types, TypedClients
  <2>6. pc' \notin Early
    BY <1>0, <2>1 DEF CountInv
  <2>7. QED
    BY <1>0, <1>2, <2>1, <2>3, <2>4, <2>5, <2>6 DEF CountInv
<1>6. CASE CancelRead(c) \/ ApproveRead(c) \/ Cancelling(c) \/ ApprovePerform(c) \/ ApproveChild(c)
           \/ ApproveRoot(c) \/ ResumeConfigures(c) \/ ApproveRunning(c)
  <2>1. /\ UNCHANGED <<jobs, resumes, again>>
        /\ op'.status \in {op.status, "cancelling"}
    BY <1>6 DEF CancelRead, ApproveRead, Read, Cancelling, CancelRoot, CancelChild, CancelLooks,
         CancelOperation, ApprovePerform, ApproveChild, ApproveRoot, ResumeConfigures, ApproveRunning,
         Types, TypedBrowser, Operation
  <2>2. \E to \in ClientStates \ {"submit", "resave"} : cpc' = [cpc EXCEPT ![c] = to]
    BY <1>6 DEF CancelRead, ApproveRead, Read, Cancelling, CancelRoot, CancelChild, CancelLooks,
         CancelOperation, ApprovePerform, ApproveChild, ApproveRoot, ResumeConfigures, ApproveRunning,
         Goto, After, ClientStates, CancelStates, ApproveStates
  <2>3. \A d \in Clients \ {c} : snap'[d] = snap[d]
    BY <1>6 DEF CancelRead, ApproveRead, Read, Cancelling, CancelRoot, CancelChild, CancelLooks,
         CancelOperation, ApprovePerform, ApproveChild, ApproveRoot, ResumeConfigures, ApproveRunning,
         Goto, Types, TypedClients
  <2>4. cpc[c] # "submit"
    BY <1>6 DEF CancelRead, ApproveRead, Read, Cancelling, CancelRoot, CancelChild, CancelLooks,
         CancelOperation, ApprovePerform, ApproveChild, ApproveRoot, ResumeConfigures, ApproveRunning
  <2>5. Pending' = Pending
    BY <2>2, <2>4, PendingStays
  <2>6. Due' = Due
    BY <1>0, <1>1, <2>1, <2>5 DEF Due
  <2>7. \A d \in Clients : cpc'[d] \in {"resave", "submit"} => cpc[d] = cpc'[d] /\ snap'[d] = snap[d]
    BY <2>2, <2>3 DEF Types, TypedClients
  <2>8. op'.status \in Ended => op.status \in Ended /\ op'.status = op.status
    BY <2>1 DEF Ended, Done
  <2>9. QED
    BY <1>0, <1>2, <2>1, <2>5, <2>6, <2>7, <2>8 DEF CountInv
<1>7. QED
  BY <1>3, <1>4, <1>5, <1>6 DEF Approving

-----------------------------------------------------------------------------
(* Theorems *)

TreeInv == Types /\ CauseInv /\ CountInv

LEMMA TreeInvInit ==
  ASSUME ConstantAssumption, Init
  PROVE  TreeInv
<1> USE DEF Init
<1>1. Types
  <2>1. root \in Task /\ child \in Task
    BY TasksOfRequests
  <2>2. kind \in Kind /\ res \in Result
    BY DEF Kind, Result, NoKind, NoResult, Agents, ResultStates
  <2>3. TypedBrowser
    BY DEF TypedBrowser, RunStates, NoOperation, Operation
  <2>4. TypedClients
    BY UnreadIsACopy DEF TypedClients, ClientStates, ConstantAssumption
  <2>5. TypedHistory
    BY DEF TypedHistory
  <2>6. QED
    BY <2>1, <2>2, <2>3, <2>4, <2>5 DEF Types, RequestStates
<1>2. CauseInv
  BY DEF CauseInv, Caused, NoTask, NoOperation, Unread, Stopping
<1>3. CountInv
  <2>1. Pending = {}
    BY DEF Pending
  <2>2. Due = 0
    BY <2>1, FS_EmptySet DEF Due, Busy
  <2>3. QED
    BY <2>1, <2>2, FS_EmptySet DEF CountInv, NoOperation, Ended, Done
<1>4. QED
  BY <1>1, <1>2, <1>3 DEF TreeInv

LEMMA TreeInvKept ==
  ASSUME ConstantAssumption, TreeInv, [Next]_vars
  PROVE  TreeInv'
<1>1. CASE Next
  <2>1. Types'
    BY <1>1, ServeTypes, RunTypes, ClientTypes DEF Next, TreeInv
  <2>2. CauseInv'
    BY <1>1, ServeHasCause, RunHasCause, ClientHasCause DEF Next, TreeInv
  <2>3. CountInv'
    BY <1>1, <2>1, ServeCounts, RunCounts, ClientCounts DEF Next, TreeInv
  <2>4. QED
    BY <2>1, <2>2, <2>3 DEF TreeInv
<1>2. CASE UNCHANGED vars
  <2> USE <1>2 DEF vars, tasks, request, browser, clients, history, TreeInv
  <2>1. Types'
    BY DEF Types, TypedBrowser, TypedClients, TypedHistory
  <2>2. CauseInv'
    BY DEF CauseInv
  <2>3. CountInv'
    BY DEF CountInv, Due, Busy, Pending
  <2>4. QED
    BY <2>1, <2>2, <2>3
<1>3. QED
  BY <1>1, <1>2

LEMMA TreeIsSound == Spec => []TreeInv
<1>1. Init => TreeInv
  BY TreeInvInit, ConstantAssumption
<1>2. TreeInv /\ [Next]_vars => TreeInv'
  BY TreeInvKept, ConstantAssumption
<1>3. QED
  BY <1>1, <1>2, PTL DEF Spec

\* The tasks, the operation, its run and what requests read keep their types.
THEOREM TreeIsTyped == Spec => []TypeOK
<1>1. TreeInv => TypeOK
  BY DEF TreeInv, Types, TypedBrowser, TypedClients, TypedHistory, TypeOK, RequestStates, Kind, Agents,
         RunStates, Copy
<1>2. QED
  BY <1>1, TreeIsSound, PTL

\* What the tree shows has a cause, whatever writers overlap (_complete_task, cancel_latest,
\* AgentTaskApproveView, _publish_completion): a failure that happened, a question that was
\* asked, a cancellation the user asked for, work that was done or found nothing to do.
THEOREM WhatIsShownHappened == Spec => []StatusHasCause
<1>1. TreeInv => StatusHasCause
  BY DEF TreeInv, CauseInv, Caused, StatusHasCause
<1>2. QED
  BY <1>1, TreeIsSound, PTL

\* Verified research is handed on once, and once more at most for every resumption of an
\* interruption that another request had resumed already (_publish_completion, resume): every
\* other resumption takes the place of a run that ended without success.
THEOREM ResearchIsHandedOnOnce == Spec => []PostActionsOnce
<1>1. TreeInv => PostActionsOnce
  <2>1. SUFFICES ASSUME TreeInv PROVE posts <= 1 + again
    BY DEF TreeInv, CountInv, PostActionsOnce
  <2>2. Cardinality(Pending) \in Nat /\ Due \in Nat /\ Busy \in {0, 1} /\ posts \in Nat /\ jobs \in Nat
        /\ again \in Nat
    BY <2>1, DueIsANumber DEF TreeInv, CountInv
  <2>3. posts <= Due
    BY <2>2 DEF Due
  <2>4. QED
    BY <2>1, <2>2, <2>3 DEF TreeInv, CountInv
<1>2. QED
  BY <1>1, TreeIsSound, PTL
=============================================================================
