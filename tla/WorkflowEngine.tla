--------------------------- MODULE WorkflowEngine ---------------------------
(***************************************************************************)
(* Executions of one workflow.  The steps of the workflow are put in an    *)
(* order that respects their dependencies and run one after another, each  *)
(* by a tool of the Tool Manager.  An execution is started by a command,   *)
(* which stores a queued row and hands it to a task queue (or runs it at   *)
(* once, when the queue is eager), or by the API, which runs it in the     *)
(* request.  A task that fails with a RuntimeError is queued again.        *)
(***************************************************************************)
EXTENDS Integers, Sequences, FiniteSets, SequencesExt

CONSTANTS
  StepIds,      \* identifiers of steps, as numbers in the order they sort
  Unknown,      \* an identifier that no step has
  Workflows,    \* definitions a workflow can have
  Executions,
  MaxRetries,   \* times a task is queued again
  MaxCrashes    \* processes that die (bound)

ASSUME WorkflowAssumption ==
  /\ StepIds \subseteq Nat /\ Unknown \notin StepIds
  /\ Workflows \subseteq Seq([id : StepIds, needs : Seq(StepIds \cup {Unknown}),
                              tool : {"open", "strict", "denied", "gone"}])

VARIABLES
  workflow,   \* the definition: a sequence of steps, empty until it is needed
  eager,      \* tasks run in the process that submits them (unknown until then)
  row,        \* the stored executions
  run,        \* the thread or message of each execution
  client,     \* who started each execution, and the answer
  effects,    \* the steps whose tools did their work, in order
  trouble,    \* executions that met a fault that is not the engine's
  crashes

engineVars == <<workflow, eager, row, run, client, effects, trouble, crashes>>

-----------------------------------------------------------------------------
(* The order of the steps *)

\* Step identifiers that were declared, and how often one step needs another.
Ids(steps)        == {steps[i].id : i \in DOMAIN steps}
StepOf(steps, id) == steps[CHOOSE i \in DOMAIN steps : steps[i].id = id]
Needs(steps, id)  == StepOf(steps, id).needs
Count(needs, id)  == Cardinality({i \in DOMAIN needs : needs[i] = id})

WellFormed(steps) ==
  /\ steps # <<>>
  /\ \A i, j \in DOMAIN steps : steps[i].id = steps[j].id => i = j
  /\ \A i \in DOMAIN steps : ToSet(steps[i].needs) \subseteq Ids(steps)

Sorted(ids) ==
  CHOOSE list \in [1 .. Cardinality(ids) -> ids] : \A i, j \in DOMAIN list : i < j => list[i] < list[j]

\* The queue of _ordered_steps, its counters and its result.
Orders(steps) == [queue : Seq(Ids(steps)), waits : [Ids(steps) -> Int], order : Seq(Ids(steps))]

\* One turn of its loop: a step is taken from the queue, if there is one.
Turn(steps) ==
  [s \in Orders(steps) |->
     IF s.queue = <<>> THEN s
     ELSE LET id    == Head(s.queue)
              waits == [k \in Ids(steps) |-> s.waits[k] - Count(Needs(steps, k), id)]
              freed == {k \in Ids(steps) : waits[k] = 0 /\ Count(Needs(steps, k), id) > 0}
          IN  [queue |-> Tail(s.queue) \o Sorted(freed), waits |-> waits, order |-> Append(s.order, id)]]

\* After each turn.  Every step is queued once at most, so that the queue is empty after as many
\* turns as there are steps.
Walk(steps) ==
  LET waits == [k \in Ids(steps) |-> Len(Needs(steps, k))]
      s[n \in 0 .. Len(steps)] ==
        IF n = 0 THEN [queue |-> Sorted({k \in Ids(steps) : waits[k] = 0}), waits |-> waits, order |-> <<>>]
        ELSE Turn(steps)[s[n - 1]]
  IN  s

\* The order in which the steps are run, or none when the definition is rejected.
Ordered(steps) ==
  IF ~WellFormed(steps) THEN <<>>
  ELSE LET order == Walk(steps)[Len(steps)].order IN IF Len(order) = Len(steps) THEN order ELSE <<>>

-----------------------------------------------------------------------------
(* Starting an execution *)

NoRun == [pc |-> "none", order |-> <<>>, results |-> <<>>, tries |-> 0]

EngineInit ==
  /\ workflow = <<>>
  /\ eager = FALSE
  /\ row = [e \in Executions |-> [status |-> "none", results |-> <<>>]]
  /\ run = [e \in Executions |-> NoRun]
  /\ client = [e \in Executions |-> [by |-> "none", pc |-> "none", error |-> FALSE, told |-> "none"]]
  /\ effects = [e \in Executions |-> <<>>]
  /\ trouble = {}
  /\ crashes = 0

\* The stored definition and the kind of queue: any, until an execution has begun.
Defined ==
  IF \A e \in Executions : client[e].by = "none" THEN workflow' \in Workflows /\ eager' \in BOOLEAN
  ELSE UNCHANGED <<workflow, eager>>

\* _start_workflow: the row is stored before the task is submitted.
Command(e) ==
  /\ client[e].by = "none"
  /\ Defined
  /\ client' = [client EXCEPT ![e].by = "command", ![e].pc = "submit"]
  /\ row' = [row EXCEPT ![e].status = "queued"]
  /\ UNCHANGED <<run, effects, trouble, crashes>>

\* The task is handed to the queue, or to the process itself; the broker may be away.
Submit(e) ==
  /\ client[e].pc = "submit"
  /\ \/ /\ run' = [run EXCEPT ![e].pc = "load"]
        /\ client' = [client EXCEPT ![e].pc = IF eager THEN "wait" ELSE "answer"]
        /\ UNCHANGED trouble
     \/ /\ ~eager
        /\ client' = [client EXCEPT ![e].pc = "answer", ![e].error = TRUE]
        /\ trouble' = trouble \cup {e}
        /\ UNCHANGED run
  /\ UNCHANGED <<workflow, eager, row, effects, crashes>>

\* The answer is what the row says; a row that no task ever took is failed first.
Answer(e) ==
  /\ client[e].pc = "answer"
  /\ LET status == IF client[e].error /\ row[e].status = "queued" THEN "failed" ELSE row[e].status
     IN  /\ row' = [row EXCEPT ![e].status = status]
         /\ client' = [client EXCEPT ![e].pc = "done",
                         ![e].told = IF status \in {"completed", "failed"} THEN status ELSE "started"]
  /\ UNCHANGED <<workflow, eager, run, effects, trouble, crashes>>

\* The API runs the workflow in the request; the definition is looked at first.
Request(e) ==
  /\ client[e].by = "none"
  /\ Defined
  /\ IF Ordered(workflow') = <<>>
     THEN /\ client' = [client EXCEPT ![e].by = "api", ![e].pc = "done", ![e].told = "failed"]
          /\ UNCHANGED <<row, run>>
     ELSE /\ client' = [client EXCEPT ![e].by = "api", ![e].pc = "wait"]
          /\ row' = [row EXCEPT ![e].status = "running"]
          /\ run' = [run EXCEPT ![e].pc = "step", ![e].order = Ordered(workflow')]
  /\ UNCHANGED <<effects, trouble, crashes>>

-----------------------------------------------------------------------------
(* The task *)

\* The task ends: a RuntimeError puts it back into the queue, a bounded number of times.
Return(e, raised, runtime) ==
  IF raised /\ runtime /\ client[e].by = "command" /\ run[e].tries < MaxRetries
  THEN run' = [run EXCEPT ![e] = [NoRun EXCEPT !.pc = "load", !.tries = run[e].tries + 1]] /\ UNCHANGED client
  ELSE /\ run' = [run EXCEPT ![e].pc = "over"]
       /\ client' = IF client[e].pc = "wait" THEN [client EXCEPT ![e].pc = "answer", ![e].error = raised]
                    ELSE client

\* Fault: a retry goes on after the steps that the failed attempt has stored.
LoadResuming(e) ==
  /\ run[e].pc = "load"
  /\ IF Ordered(workflow) = <<>> THEN Return(e, TRUE, FALSE) /\ UNCHANGED row
     ELSE /\ row' = [row EXCEPT ![e].status = "running"]
          /\ run' = [run EXCEPT ![e].pc = "step", ![e].order = Ordered(workflow), ![e].results = row[e].results]
          /\ UNCHANGED client
  /\ UNCHANGED <<workflow, eager, effects, trouble, crashes>>

\* execute(): every attempt starts again with the first step and no results.
Load(e) ==
  /\ run[e].pc = "load"
  /\ IF Ordered(workflow) = <<>> THEN Return(e, TRUE, FALSE) /\ UNCHANGED row
     ELSE /\ row' = [row EXCEPT ![e] = [status |-> "running", results |-> <<>>]]
          /\ run' = [run EXCEPT ![e].pc = "step", ![e].order = Ordered(workflow), ![e].results = <<>>]
          /\ UNCHANGED client
  /\ UNCHANGED <<workflow, eager, effects, trouble, crashes>>

\* Fault: the exception is raised without being stored.
FailedUnrecorded(e, runtime) == UNCHANGED row /\ Return(e, TRUE, runtime)

\* The exception is stored with what was done, and raised again.
Failed(e, runtime) ==
  /\ row' = [row EXCEPT ![e] = [status |-> "failed", results |-> run[e].results]]
  /\ Return(e, TRUE, runtime)

Current(e) == StepOf(workflow, run[e].order[Len(run[e].results) + 1])
More(e)    == Len(run[e].results) < Len(run[e].order)

\* The tool of the step is looked up.
Step(e) ==
  /\ run[e].pc = "step" /\ More(e)
  /\ IF Current(e).tool = "gone" THEN Failed(e, FALSE) /\ trouble' = trouble \cup {e}
     ELSE run' = [run EXCEPT ![e].pc = "tool"] /\ UNCHANGED <<row, client, trouble>>
  /\ UNCHANGED <<workflow, eager, effects, crashes>>

\* The step gets the inputs, its own and the results so far, and a tool whose schema
\* admits no other fields rejects them.  What fails in the handler is a RuntimeError,
\* whether or not the handler had done its work.
Tool(e) ==
  /\ run[e].pc = "tool"
  /\ \/ /\ Current(e).tool = "strict"
        /\ Failed(e, FALSE)
        /\ UNCHANGED <<effects, trouble>>
     \/ /\ Current(e).tool = "open"
        /\ effects' = [effects EXCEPT ![e] = Append(@, Current(e).id)]
        /\ run' = [run EXCEPT ![e].pc = "step", ![e].results = Append(@, Current(e).id)]
        /\ UNCHANGED <<row, client, trouble>>
     \/ /\ Current(e).tool = "open"
        /\ Failed(e, TRUE)
        /\ trouble' = trouble \cup {e}
        /\ \/ UNCHANGED effects
           \/ effects' = [effects EXCEPT ![e] = Append(@, Current(e).id)]
     \/ /\ Current(e).tool = "denied"
        /\ Failed(e, FALSE)
        /\ trouble' = trouble \cup {e}
        /\ UNCHANGED effects
  /\ UNCHANGED <<workflow, eager, crashes>>

Finish(e) ==
  /\ run[e].pc = "step" /\ ~More(e)
  /\ row' = [row EXCEPT ![e] = [status |-> "completed", results |-> run[e].results]]
  /\ Return(e, FALSE, FALSE)
  /\ UNCHANGED <<workflow, eager, effects, trouble, crashes>>

\* The process that runs the execution dies; its message was acknowledged.
Die(e) ==
  /\ crashes < MaxCrashes
  /\ run[e].pc \in {"step", "tool"}
  /\ crashes' = crashes + 1
  /\ run' = [run EXCEPT ![e].pc = "over"]
  /\ client' = IF client[e].pc = "wait" THEN [client EXCEPT ![e].pc = "done"] ELSE client
  /\ trouble' = trouble \cup {e}
  /\ UNCHANGED <<workflow, eager, row, effects>>

Proceed(e)     == Submit(e) \/ Answer(e) \/ Load(e) \/ Step(e) \/ Tool(e) \/ Finish(e)
EngineNext     == \E e \in Executions : Command(e) \/ Request(e) \/ Proceed(e) \/ Die(e)
-----------------------------------------------------------------------------
(* Properties *)

Settled(e)  == row[e].status \in {"none", "completed", "failed"}
Sound(steps) == Ordered(steps) # <<>>

\* An order that has every step once, after the steps it needs.
Respects(steps, order) ==
  /\ ToSet(order) = Ids(steps) /\ Len(order) = Cardinality(Ids(steps))
  /\ \A i \in DOMAIN order : ToSet(Needs(steps, order[i])) \subseteq {order[j] : j \in 1 .. i - 1}

\* The algorithm: a definition without an order has a cycle, and an order has every step, after
\* the steps it needs.
OrderIsRight ==
  \A w \in Workflows :
    /\ WellFormed(w) /\ Ordered(w) = <<>> =>
         \E cycle \in SUBSET Ids(w) :
           cycle # {} /\ \A id \in cycle : ToSet(Needs(w, id)) \cap cycle # {}
    /\ Ordered(w) # <<>> => Ordered(w) \in Seq(Ids(w)) /\ Respects(w, Ordered(w))

\* A definition is rejected only when steps wait for each other, and a completed execution
\* did the work of every step, each after the steps it needs, and has stored it all.
CompletedInOrder ==
  /\ WellFormed(workflow) /\ Ordered(workflow) = <<>> =>
       \E cycle \in SUBSET Ids(workflow) :
         cycle # {} /\ \A id \in cycle : ToSet(Needs(workflow, id)) \cap cycle # {}
  /\ \A e \in Executions : row[e].status = "completed" =>
       /\ Respects(workflow, row[e].results)
       /\ \E from \in 0 .. Len(effects[e]) :
            SubSeq(effects[e], from + 1, Len(effects[e])) = row[e].results

\* What the user was told of the end of an execution that has a row is what the row says.
\* (The failure of an attempt may be told before a retry completes the execution.)
Honest(e) ==
  client[e].told \in {"completed", "failed"} =>
    row[e].status \in {"none", client[e].told} \/ (client[e].told = "failed" /\ run[e].tries > 0)

\* Every execution of a sound workflow comes to rest, also when its tools or the broker
\* fail, and its user was told nothing else, unless its process dies.
WorkflowsSettle ==
  \A e \in Executions : <>[](crashes > 0 \/ ~Sound(workflow) \/ (Settled(e) /\ Honest(e)))

\* A workflow fails only because of a tool, a definition, the broker or a crash.
FailureHasACause ==
  \A e \in Executions : row[e].status = "failed" => e \in trouble \/ ~Sound(workflow)
=============================================================================
