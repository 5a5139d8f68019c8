----------------------------- MODULE Assistant -----------------------------
(***************************************************************************)
(* Commands in one conversation, from the user's message to Echo's reply.  *)
(* A command that is not for the browser or the desktop ends in            *)
(* EchoCommandService._route, whose routes read and write the rows of the  *)
(* workspace one by one, without a transaction, while other commands, the  *)
(* processing of documents and executions of workflows do the same.  A     *)
(* model service and a search service may be configured, and fail.         *)
(***************************************************************************)
EXTENDS Workspace

CONSTANTS
  Commands,      \* messages of the user
  Tasks,         \* tasks of the to-do list
  Projects,
  Agents,        \* active agents that can be delegated to
  MaxFound,      \* records of a search (bound)
  HistoryLimit   \* messages of a conversation that the model service is sent

ASSUME AssistantAssumption == IsFiniteSet(Tasks) /\ HistoryLimit \in Nat /\ MaxFound \in Nat

VARIABLES
  services,   \* whether each service is configured, once a route has looked
  messages,   \* the conversation, oldest first
  command,    \* how far each command is
  todo,       \* status of each task
  project,    \* projects that were made
  activity,   \* entries of the activity logs: <<what, task or project>>
  made        \* the other rows each command made

rows          == <<todo, project, activity>>
assistantVars == <<services, messages, command, rows, made>>
vars          == <<engineVars, recorded, assistantVars>>

\* What a command may leave behind: a search with its results, a call of the model service
\* with what it was sent and its response, a plan with its steps, an agent's task, and the
\* execution of a workflow.
Nothing == [search |-> "none", found |-> 0, ai |-> "none", sent |-> {}, response |-> FALSE,
            plan |-> FALSE, steps |-> <<>>, delegated |-> FALSE, execution |-> None]

\* seen is what the route has read, left what it still has to write.
Unasked == [pc |-> "none", route |-> "none", seen |-> None, left |-> <<>>, status |-> "none"]

Routes == {"unclear", "voice", "navigate", "computer", "continue", "project", "analyze", "delegate", "task",
           "complete", "list", "plan", "workflow", "research", "know", "remember", "chat"}

AssistantInit ==
  /\ services = [ai |-> "unknown", search |-> "unknown"]
  /\ messages = <<>>
  /\ command = [c \in Commands |-> Unasked]
  /\ todo = [t \in Tasks |-> "none"]
  /\ project = {}
  /\ activity = {}
  /\ made = [c \in Commands |-> Nothing]

Init == WorkspaceInit /\ AssistantInit

Asked  == {c \in Commands : command[c].pc # "none"}
Active == {t \in Tasks : todo[t] = "active"}

-----------------------------------------------------------------------------
(* The message and the reply *)

\* Before the first command the workspace has no tasks and projects, or all of them.
Existing ==
  IF Asked = {}
  THEN \E some \in BOOLEAN : /\ todo' = [t \in Tasks |-> IF some THEN "active" ELSE "none"]
                            /\ project' = IF some THEN Projects ELSE {}
  ELSE UNCHANGED <<todo, project>>

\* The message is stored before anything is decided, in a conversation that exists.  decide()
\* raises for a prompt that none of its patterns matches, and nothing turns that into a reply.
Say(c) ==
  /\ command[c].pc = "none"
  /\ \/ \E route \in Routes : command' = [command EXCEPT ![c] = [Unasked EXCEPT !.pc = "route", !.route = route]]
     \/ command' = [command EXCEPT ![c].pc = "lost"]
  /\ messages' = Append(messages, [role |-> "user", of |-> c, status |-> "completed"])
  /\ Existing
  /\ UNCHANGED <<services, activity, made, engineVars, recorded>>

\* The settings do not change.
Configured(service, on) ==
  /\ services[service] \in {"unknown", on}
  /\ services' = [services EXCEPT ![service] = on]

At(c, route, pc) == command[c].route = route /\ command[c].pc = pc
Goes(c, pc)      == command' = [command EXCEPT ![c].pc = pc]
Sees(c, pc, x)   == command' = [command EXCEPT ![c].pc = pc, ![c].seen = x]

\* The route has a result; the reply is stored by the caller.
Result(c, status) == command' = [command EXCEPT ![c].pc = "reply", ![c].status = status]

\* Fault: only the errors of the services are turned into a reply.
RaisedUncaught(c) == Goes(c, IF made[c].ai = "failed" THEN "reply" ELSE "lost")

\* Whatever the handler of an agent raises is the agent's result: it failed.
Raised(c) == Result(c, "failed")

Reply(c) ==
  /\ command[c].pc = "reply"
  /\ messages' = Append(messages, [role |-> "assistant", of |-> c, status |-> command[c].status])
  /\ Goes(c, "done")
  /\ UNCHANGED <<services, rows, made>>

\* The database or the code of a route fails between two writes of the route; what was
\* written stays.
Breaks(c) ==
  /\ command[c].pc \notin {"none", "route", "reply", "done", "wait", "lost"}
  /\ Raised(c)
  /\ UNCHANGED <<services, messages, rows, made>>

-----------------------------------------------------------------------------
(* Routes without rows of their own *)

\* A clarification, a change of the voice, another page of the workspace, what the browser
\* and the desktop did (ComputerUse, DesktopControl), a memory to be approved.
Elsewhere(c) ==
  /\ command[c].pc = "route"
  /\ \/ command[c].route \in {"voice", "navigate"} /\ Result(c, "completed")
     \/ command[c].route \in {"unclear", "remember"} /\ Result(c, "waiting")
     \/ command[c].route = "computer" /\ \E status \in {"completed", "waiting", "failed", "not_found"} : Result(c, status)
  /\ UNCHANGED <<services, messages, rows, made>>

-----------------------------------------------------------------------------
(* Tasks *)

\* A task that has no title is an error.
TaskCreate(c) ==
  /\ At(c, "task", "route")
  /\ \/ UNCHANGED rows /\ Raised(c)
     \/ \E t \in Tasks : /\ todo[t] = "none"
                         /\ todo' = [todo EXCEPT ![t] = "active"]
                         /\ Sees(c, "log", t)
                         /\ UNCHANGED <<project, activity>>
  /\ UNCHANGED <<services, messages, made>>

TaskLog(c) ==
  /\ At(c, "task", "log")
  /\ activity' = activity \cup {<<"task_created", command[c].seen>>}
  /\ Result(c, "completed")
  /\ UNCHANGED <<services, messages, todo, project, made>>

\* An active task whose title is the phrase, any of them.
CompleteRead(c) ==
  /\ At(c, "complete", "route")
  /\ Goes(c, "match") \/ \E t \in Active : Sees(c, "match", t)
  /\ UNCHANGED <<services, messages, rows, made>>

\* Otherwise the only active task whose title contains the phrase.
CompleteMatch(c) ==
  /\ At(c, "complete", "match")
  /\ IF command[c].seen # None THEN Goes(c, "mark")
     ELSE \E matches \in SUBSET Active :
            IF Cardinality(matches) = 1 THEN \E t \in matches : Sees(c, "mark", t)
            ELSE Result(c, IF matches = {} THEN "not_found" ELSE "waiting")
  /\ UNCHANGED <<services, messages, rows, made>>

CompleteMark(c) ==
  /\ At(c, "complete", "mark")
  /\ todo' = [todo EXCEPT ![command[c].seen] = "completed"]
  /\ Goes(c, "log")
  /\ UNCHANGED <<services, messages, project, activity, made>>

CompleteLog(c) ==
  /\ At(c, "complete", "log")
  /\ activity' = activity \cup {<<"task_completed", command[c].seen>>}
  /\ Result(c, "completed")
  /\ UNCHANGED <<services, messages, todo, project, made>>

List(c) ==
  /\ At(c, "list", "route")
  /\ Result(c, "completed")
  /\ UNCHANGED <<services, messages, rows, made>>

\* The tasks of the day are read once; the plan and each of its steps are rows of their own.
PlanRead(c) ==
  /\ At(c, "plan", "route")
  /\ \E tasks \in SetToSeqs(Active) : command' = [command EXCEPT ![c].pc = "plan", ![c].left = tasks, ![c].seen = tasks]
  /\ UNCHANGED <<services, messages, rows, made>>

PlanCreate(c) ==
  /\ At(c, "plan", "plan")
  /\ made' = [made EXCEPT ![c].plan = TRUE]
  /\ Goes(c, "steps")
  /\ UNCHANGED <<services, messages, rows>>

\* Fault: a task that was completed meanwhile is left out of the plan.
PlanStepActive(c) ==
  /\ At(c, "plan", "steps")
  /\ IF command[c].left = <<>> THEN Result(c, "completed") /\ UNCHANGED made
     ELSE /\ made' = IF Head(command[c].left) \in Active
                     THEN [made EXCEPT ![c].steps = Append(@, Head(command[c].left))] ELSE made
          /\ command' = [command EXCEPT ![c].left = Tail(@)]
  /\ UNCHANGED <<services, messages, rows>>

PlanStep(c) ==
  /\ At(c, "plan", "steps")
  /\ IF command[c].left = <<>> THEN Result(c, "completed") /\ UNCHANGED made
     ELSE /\ made' = [made EXCEPT ![c].steps = Append(@, Head(command[c].left))]
          /\ command' = [command EXCEPT ![c].left = Tail(@)]
  /\ UNCHANGED <<services, messages, rows>>

-----------------------------------------------------------------------------
(* Projects and agents *)

ProjectCreate(c) ==
  /\ At(c, "project", "route")
  /\ \/ UNCHANGED rows /\ Result(c, "waiting")
     \/ \E p \in Projects \ project : project' = project \cup {p} /\ Sees(c, "log", p) /\ UNCHANGED <<todo, activity>>
  /\ UNCHANGED <<services, messages, made>>

ProjectLog(c) ==
  /\ At(c, "project", "log")
  /\ activity' = activity \cup {<<"project_created", command[c].seen>>}
  /\ Result(c, "completed")
  /\ UNCHANGED <<services, messages, todo, project, made>>

\* One project that matches is opened: the answer shows it, its tasks and its activity.
ProjectContinue(c) ==
  /\ At(c, "continue", "route")
  /\ \E matches \in SUBSET project :
       IF Cardinality(matches) = 1 THEN \E p \in matches : Sees(c, "open", p)
       ELSE Result(c, IF matches = {} THEN "not_found" ELSE "waiting")
  /\ UNCHANGED <<services, messages, rows, made>>

ProjectOpened(c) ==
  /\ At(c, "continue", "open")
  /\ Result(c, "completed")
  /\ UNCHANGED <<services, messages, rows, made>>

\* One active agent gets a task of its own.
DelegateRead(c) ==
  /\ At(c, "delegate", "route")
  /\ IF Cardinality(Agents) = 1 THEN Goes(c, "task") ELSE Result(c, "waiting")
  /\ UNCHANGED <<services, messages, rows, made>>

DelegateTask(c) ==
  /\ At(c, "delegate", "task")
  /\ made' = [made EXCEPT ![c].delegated = TRUE]
  /\ Result(c, "completed")
  /\ UNCHANGED <<services, messages, rows>>

-----------------------------------------------------------------------------
(* The model service *)

\* AIExecutionService.generate stores the request, calls the service, and stores how it ended.
AskModel(c) ==
  /\ command[c].pc = "ask"
  /\ made' = [made EXCEPT ![c].ai = "running"]
  /\ Goes(c, "model")
  /\ UNCHANGED <<services, messages, rows>>

ModelAnswers(c) ==
  /\ command[c].pc = "model"
  /\ made' = [made EXCEPT ![c].ai = "completed"]
  /\ Goes(c, "response")
  /\ UNCHANGED <<services, messages, rows>>

ModelFails(c) ==
  /\ command[c].pc = "model"
  /\ made' = [made EXCEPT ![c].ai = "failed"]
  /\ Raised(c)
  /\ UNCHANGED <<services, messages, rows>>

ModelResponse(c) ==
  /\ command[c].pc = "response"
  /\ made' = [made EXCEPT ![c].response = TRUE]
  /\ Result(c, "completed")
  /\ UNCHANGED <<services, messages, rows>>

\* What the service is sent of a conversation: its first messages.
History == {messages[i].of : i \in {k \in DOMAIN messages : k <= HistoryLimit /\ messages[k].role = "user"}}

Chat(c) ==
  /\ At(c, "chat", "route")
  /\ \/ Configured("ai", "yes") /\ Goes(c, "ask") /\ made' = [made EXCEPT ![c].sent = History]
     \/ Configured("ai", "no") /\ Result(c, "waiting") /\ UNCHANGED made
  /\ UNCHANGED <<messages, rows>>

\* The knowledge and the memories that match: without any the answer says so.
Know(c) ==
  /\ At(c, "know", "route")
  /\ \/ Result(c, "completed") /\ UNCHANGED services
     \/ /\ knowledge # <<>> \/ \E m \in Memories : memory[m] # None
        /\ \/ Configured("ai", "yes") /\ Goes(c, "ask")
           \/ Configured("ai", "no") /\ Result(c, "completed")
  /\ UNCHANGED <<messages, rows, made>>

-----------------------------------------------------------------------------
(* Documents, searches and workflows *)

\* The row of the document decides; nothing was uploaded, or nothing matches.
AnalyzeRead(c) ==
  /\ At(c, "analyze", "route")
  /\ \/ Result(c, "waiting")
     \/ \E d \in Uploaded :
          CASE file[d].status \in {"uploaded", "processing"} -> Result(c, "waiting")
            [] file[d].status = "failed" -> Result(c, "failed")
            [] OTHER -> Sees(c, "content", d)
  /\ UNCHANGED <<services, messages, rows, made>>

\* Then the row with its text is looked up.
AnalyzeContent(c) ==
  /\ At(c, "analyze", "content")
  /\ IF ~file[command[c].seen].content THEN Result(c, "failed") /\ UNCHANGED services
     ELSE \/ Configured("ai", "yes") /\ Goes(c, "ask")
          \/ Configured("ai", "no") /\ Result(c, "completed")
  /\ UNCHANGED <<messages, rows, made>>

\* A search is stored before it is run, as waiting when nothing can run it.
SearchCreate(c) ==
  /\ At(c, "research", "route")
  /\ \/ Configured("search", "yes") /\ Goes(c, "search") /\ made' = [made EXCEPT ![c].search = "running"]
     \/ Configured("search", "no") /\ Result(c, "waiting") /\ made' = [made EXCEPT ![c].search = "waiting"]
  /\ UNCHANGED <<messages, rows>>

\* Records to be stored, or an answer that is no list.  A service that cannot be reached
\* is not such an error: see Breaks.
SearchAnswers(c) ==
  /\ At(c, "research", "search")
  /\ \/ \E n \in 0 .. MaxFound : Sees(c, "found", n) /\ UNCHANGED made
     \/ Result(c, "failed") /\ made' = [made EXCEPT ![c].search = "failed"]
  /\ UNCHANGED <<services, messages, rows>>

SearchStore(c) ==
  /\ At(c, "research", "found")
  /\ IF made[c].found < command[c].seen
     THEN made' = [made EXCEPT ![c].found = @ + 1] /\ UNCHANGED command
     ELSE made' = [made EXCEPT ![c].search = "completed"] /\ Result(c, "completed")
  /\ UNCHANGED <<services, messages, rows>>

\* _start_workflow (WorkflowEngine): one workflow matches, or none, or several.
WorkflowStart(c) ==
  /\ At(c, "workflow", "route")
  /\ \/ \E status \in {"not_found", "waiting"} : Result(c, status) /\ UNCHANGED <<made, engineVars>>
     \/ \E e \in Executions :
          /\ Command(e)
          /\ made' = [made EXCEPT ![c].execution = e]
          /\ Goes(c, "wait")
  /\ UNCHANGED <<services, messages, rows, recorded>>

\* The answer is what the start of the execution told; a process that died tells nothing.
WorkflowStarted(c) ==
  /\ At(c, "workflow", "wait")
  /\ LET told == client[made[c].execution].told
     IN  /\ client[made[c].execution].pc = "done"
         /\ IF told = "none" THEN Goes(c, "lost")
            ELSE Result(c, IF told = "failed" THEN "failed" ELSE "completed")
  /\ UNCHANGED <<services, messages, rows, made>>

-----------------------------------------------------------------------------
Answering(c) ==
  \/ Reply(c) \/ Breaks(c) \/ Elsewhere(c)
  \/ TaskCreate(c) \/ TaskLog(c) \/ CompleteRead(c) \/ CompleteMatch(c) \/ CompleteMark(c) \/ CompleteLog(c)
  \/ List(c) \/ PlanRead(c) \/ PlanCreate(c) \/ PlanStep(c)
  \/ ProjectCreate(c) \/ ProjectLog(c) \/ ProjectContinue(c) \/ ProjectOpened(c)
  \/ DelegateRead(c) \/ DelegateTask(c)
  \/ AskModel(c) \/ ModelAnswers(c) \/ ModelFails(c) \/ ModelResponse(c) \/ Chat(c) \/ Know(c)
  \/ AnalyzeRead(c) \/ AnalyzeContent(c)
  \/ SearchCreate(c) \/ SearchAnswers(c) \/ SearchStore(c) \/ WorkflowStarted(c)

Work(c) == (Answering(c) /\ UNCHANGED <<engineVars, recorded>>) \/ WorkflowStart(c)

\* Commands of the user overlap; one that depends on other parts meets those instead: the
\* processing of a document, of one place at most, the execution of a workflow, of one step
\* at most, or what is known since a request was served.
Meets(routes) == Cardinality(Asked) = 1 /\ \A c \in Asked : command[c].route \in routes

Composed ==
  /\ Served # {} => Cardinality(Served) = 1 /\ Meets({"know"})
  /\ Uploaded # {} => Meets({"analyze"}) /\ \A d \in Uploaded : file[d].text \in {<<>>, <<1>>}
  /\ Begun # {} => Meets({"workflow"}) /\ Len(workflow) <= 1

CanSay == Begun = {} /\ \A r \in Served : request[r].pc = "done"

Background ==
  \/ \E d \in Documents : (Meets({"analyze"}) /\ Upload(d)) \/ Process(d)
  \/ \E e \in Executions : (Proceed(e) \/ Die(e)) /\ UNCHANGED recorded

Next ==
  \/ Asked = {} /\ WorkspaceNext /\ UNCHANGED assistantVars
  \/ Asked # {} /\ Background /\ UNCHANGED assistantVars /\ Composed'
  \/ \E c \in Commands : ((CanSay /\ Say(c)) \/ Work(c)) /\ Composed'

Spec     == Init /\ [][Next]_vars
FairSpec ==
  /\ Spec
  /\ \A e \in Executions : WF_vars(Proceed(e) /\ UNCHANGED <<recorded, assistantVars>>)
  /\ \A c \in Commands : WF_vars(Work(c) /\ Composed')

-----------------------------------------------------------------------------
(* Properties *)

Replies == {i \in DOMAIN messages : messages[i].role = "assistant"}

\* A reply that says that something was done is true: the rows it speaks of are there, whole,
\* whatever other commands and tasks did meanwhile.  No tool and no service is made up.
Evidence(c) ==
  LET on == command[c].seen
  IN  CASE command[c].route = "task"     -> todo[on] # "none" /\ <<"task_created", on>> \in activity
        [] command[c].route = "complete" -> todo[on] = "completed" /\ <<"task_completed", on>> \in activity
        [] command[c].route = "plan"     -> made[c].plan /\ made[c].steps = on
        [] command[c].route = "project"  -> on \in project /\ <<"project_created", on>> \in activity
        [] command[c].route = "continue" -> on \in project
        [] command[c].route = "delegate" -> made[c].delegated
        [] command[c].route = "chat"     -> made[c].ai = "completed" /\ made[c].response
        [] command[c].route = "know"     -> made[c].ai = "none" \/ made[c].response
        [] command[c].route = "analyze"  -> file[on].content /\ (made[c].ai = "none" <=> ~made[c].response)
        [] command[c].route = "research" -> made[c].search = "completed" /\ made[c].found = on
        [] command[c].route = "workflow" -> row[made[c].execution].status # "none"
        [] OTHER -> TRUE

AnswersHaveEvidence == \A i \in Replies : messages[i].status = "completed" => Evidence(messages[i].of)

\* Every message of the user is answered, whatever fails, unless the process dies.
CommandsAreAnswered ==
  \A c \in Commands :
    command[c].pc # "none" ~> (crashes > 0 \/ \E i \in Replies : messages[i].of = c)

\* So are at least those for which decide() found an agent, whatever the agent's routes, the
\* services or the database do.
DecidedIsAnswered ==
  \A c \in Commands :
    command[c].pc = "route" ~> (crashes > 0 \/ \E i \in Replies : messages[i].of = c)

\* The model service is asked what the user has just said.
QuestionIsAsked == \A c \in Commands : At(c, "chat", "model") => c \in made[c].sent
=============================================================================
