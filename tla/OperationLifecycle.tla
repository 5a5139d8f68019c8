------------------------- MODULE OperationLifecycle -------------------------
(***************************************************************************)
(* What the runtime of computer-use operations promises to the rest of the *)
(* program (the API, the Browser Agent, the page that polls), whatever its *)
(* handlers, queue, workers and saves do inside.  For each operation there *)
(* is a status; runs are owed, taken and left; a run stores how it ended   *)
(* before it tells the user, and what it tells is what it stored.          *)
(* ComputerUse is shown to implement this specification.                   *)
(***************************************************************************)
EXTENDS Integers

CONSTANT Ops

VARIABLES
  status,  \* the status an API client reads
  asked,   \* cancellations accepted and not stored yet
  owed,    \* runs promised by create and resume and not yet begun
  runs,    \* runs in progress
  ending,  \* ends stored by runs that have not told the user yet
  told     \* the status the user was last told

vars == <<status, asked, owed, runs, ending, told>>

Ended     == {"completed", "failed", "cancelled", "waiting_user"}
Resumable == Ended \ {"completed"}
Closed    == Ended \ {"waiting_user"}

Init ==
  /\ status = [o \in Ops |-> "absent"]
  /\ asked = [o \in Ops |-> 0]
  /\ owed = [o \in Ops |-> 0]
  /\ runs = [o \in Ops |-> 0]
  /\ ending = [o \in Ops |-> {}]
  /\ told = [o \in Ops |-> "absent"]

Become(o, t) == status' = [status EXCEPT ![o] = t]

\* An operation is created with one run owed to it.
Create(o) ==
  /\ status[o] = "absent"
  /\ Become(o, "queued")
  /\ owed' = [owed EXCEPT ![o] = @ + 1]
  /\ UNCHANGED <<asked, runs, ending, told>>

\* A run that is owed begins: no operation is ever run without being asked for.
Take(o) ==
  /\ owed[o] > 0
  /\ owed' = [owed EXCEPT ![o] = @ - 1]
  /\ runs' = [runs EXCEPT ![o] = @ + 1]
  /\ UNCHANGED <<status, asked, ending, told>>

\* The status shows running only while a run is in progress to end it.
Start(o) ==
  /\ runs[o] > 0
  /\ status[o] \in {"queued", "cancelling"}
  /\ Become(o, "running")
  /\ UNCHANGED <<asked, owed, runs, ending, told>>

\* The run stores how it ended.
Stop(o, t) ==
  /\ runs[o] > 0
  /\ status[o] \in {"queued", "running", "cancelling"}
  /\ Become(o, t)
  /\ ending' = [ending EXCEPT ![o] = @ \cup {t}]
  /\ UNCHANGED <<asked, owed, runs, told>>

\* The user is told what the run stored, and the run is over.
Tell(o, t) ==
  /\ runs[o] > 0
  /\ t \in ending[o]
  /\ told' = [told EXCEPT ![o] = t]
  /\ runs' = [runs EXCEPT ![o] = @ - 1]
  /\ \E left \in {ending[o], ending[o] \ {t}} : ending' = [ending EXCEPT ![o] = left]
  /\ UNCHANGED <<status, asked, owed>>

\* An operation that lost its browser session fails silently.
GiveUp(o) ==
  /\ runs[o] > 0
  /\ Become(o, "failed")
  /\ runs' = [runs EXCEPT ![o] = @ - 1]
  /\ UNCHANGED <<asked, owed, ending, told>>

\* cancel() accepts what has not ended, then stores the request.
AskCancel(o) ==
  /\ status[o] \notin Closed \cup {"absent"}
  /\ asked' = [asked EXCEPT ![o] = @ + 1]
  /\ UNCHANGED <<status, owed, runs, ending, told>>

StoreCancel(o) ==
  /\ asked[o] > 0
  /\ asked' = [asked EXCEPT ![o] = @ - 1]
  /\ Become(o, "cancelling")
  /\ UNCHANGED <<owed, runs, ending, told>>

\* Only what waits, failed or was cancelled is taken back, with a new run owed.
Resume(o) ==
  /\ status[o] \in Resumable
  /\ Become(o, "queued")
  /\ owed' = [owed EXCEPT ![o] = @ + 1]
  /\ UNCHANGED <<asked, runs, ending, told>>

Next ==
  \E o \in Ops :
    \/ Create(o) \/ Take(o) \/ Start(o) \/ GiveUp(o)
    \/ AskCancel(o) \/ StoreCancel(o) \/ Resume(o)
    \/ \E t \in Ended : Stop(o, t) \/ Tell(o, t)

Spec == Init /\ [][Next]_vars
=============================================================================
