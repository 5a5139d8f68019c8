--------------------------- MODULE DesktopControl ---------------------------
(***************************************************************************)
(* The Computer Agent on a real desktop.  A request (a prompt routed by    *)
(* ComputerControlCommandRouter, a call of the desktop API, an approval)   *)
(* becomes a list of tool calls; a call that sends input observes the      *)
(* screen, acts, observes again and compares.  The desktop has no lock: a  *)
(* person and other requests use it between any two of these steps.        *)
(* Screens are not kept: a request knows only whether the screen has       *)
(* changed since its observations.                                         *)
(***************************************************************************)
EXTENDS Integers, Sequences, FiniteSets

CONSTANTS
  Requests,  \* requests that are served at the same time
  Windows,   \* windows of the desktop
  Answers,   \* the windows whose title holds a word of what a window is asked for by
  Asked,     \* what is asked for
  None       \* no window


VARIABLES
  active,   \* the window that has the focus, or None
  shown,    \* the windows that are open
  session,  \* the user's desktop session: none, active, completed
  req,      \* the requests
  pending   \* jobs whose approval payload waits in an agent task

desktop == <<active, shown>>
vars    == <<desktop, session, req, pending>>

Input         == {"move", "click", "double_click", "right_click", "scroll", "drag", "type",
                  "press_key", "hotkey", "wait"}
Pointer       == {"move", "click", "double_click", "right_click", "drag"}
System        == {"launch_application", "open_path", "focus_window", "minimize_window",
                  "maximize_window", "restore_window", "close_window"}
Consequential == {"type", "right_click", "drag"}
Tools         == Input \cup System \cup {"observe"}

\* What can be asked for; fill is text into a named control, task a compound
\* command (open an application and search in it).
Jobs == (Tools \ {"wait"}) \cup {"fill", "screen", "task"}

\* A title may hold a word of another application's name, or none of its own; the name
\* without a word of three letters is not looked for, so that every window answers to it.
ASSUME ConstantAssumption ==
  /\ Windows # {}
  /\ None \notin Windows
  /\ Asked \subseteq Jobs
  /\ Answers \in [Windows -> SUBSET (Windows \cup {None})]

\* The approval payloads a waiting task can hold.
Approvable == Consequential \cup {"fill"}

\* Fault: a launched application is taken to be in front.
PlanOfUnfocused(job) ==
  IF job = "task"
  THEN <<"launch_application", "observe", "hotkey", "type", "press_key", "wait", "observe">>
  ELSE IF job = "fill" THEN <<"click", "type">> ELSE <<job>>

\* ComputerTaskPlanner, for a compound command with one search.
PlanOf(job) ==
  IF job = "task"
  THEN <<"launch_application", "focus_window", "observe", "hotkey", "type", "press_key",
         "wait", "observe">>
  ELSE IF job = "fill" THEN <<"click", "type">> ELSE <<job>>

Idle == [pc |-> "idle", job |-> "none", todo |-> <<>>, confirmed |-> FALSE, target |-> None,
         pre |-> FALSE, base |-> "none", record |-> "none", row |-> "none",
         result |-> "none", verified |-> TRUE, did |-> {}, stray |-> FALSE,
         effect |-> FALSE, disturbed |-> FALSE]

Init ==
  /\ active \in Windows \cup {None}
  /\ shown = Windows
  /\ session = "none"
  /\ req = [r \in Requests |-> Idle]
  /\ pending = {}

-----------------------------------------------------------------------------
(* Requests *)

Serving(r) == req[r].pc # "idle"
Tool(r)    == Head(req[r].todo)
OneCall(r) == req[r].job = "fill" /\ Tool(r) = "type"

New(job, w, yes) ==
  [Idle EXCEPT !.pc = "call", !.job = job, !.todo = PlanOf(job), !.target = w, !.confirmed = yes]

\* Another request that works at the same time may be in its way.
Begin(r, new) ==
  req' = [q \in Requests |->
            IF q = r THEN [new EXCEPT !.disturbed = \E p \in Requests \ {r} : Serving(p)]
            ELSE IF Serving(q) THEN [req[q] EXCEPT !.disturbed = TRUE] ELSE req[q]]

\* The session that input and observations belong to: the active one, or a new one.
Current(job) == IF job \in System \cup {"task"} THEN session ELSE "active"

\* A prompt: the router never confirms.  Text for a named control is not even tried.
Prompt(r) ==
  /\ ~Serving(r)
  /\ \E job \in Asked, w \in Windows :
       /\ Begin(r, IF job = "fill" THEN [New(job, w, FALSE) EXCEPT !.result = "approval", !.pc = "idle"]
                   ELSE New(job, w, FALSE))
       /\ pending' = IF job = "fill" THEN pending \cup {job} ELSE pending
       /\ session' = Current(job)
  /\ UNCHANGED desktop

\* AgentTaskApproveView: the pending action once more, confirmed; its payload is
\* replaced when it has completed, and another task may hold the same.  The desktop
\* API runs any tool with the confirmation its caller gives.
Approve(r) ==
  /\ ~Serving(r)
  /\ \E job \in pending, w \in Windows :
       /\ Begin(r, New(job, w, TRUE))
       /\ pending' \in {pending, pending \ {job}}
       /\ session' = Current(job)
  /\ UNCHANGED desktop

CallApi(r) ==
  /\ ~Serving(r)
  /\ \E job \in Asked \ {"task", "screen"}, w \in Windows, yes \in BOOLEAN :
       Begin(r, New(job, w, yes))
  /\ session' = "active"
  /\ UNCHANGED <<desktop, pending>>

\* A session that ended can still be named by the calls that hold its id.
EndSession == session = "active" /\ session' = "completed" /\ UNCHANGED <<desktop, req, pending>>

\* The desktop API opens a session of its own, which is then the current one.
NewSession == session' = "active" /\ UNCHANGED <<desktop, req, pending>>

-----------------------------------------------------------------------------
(* What every call is wrapped in: ToolExecutor.execute *)

\* The request ends; the tool's row is closed with it.
Finish(r, result) ==
  [req[r] EXCEPT !.pc = "idle", !.todo = <<>>, !.result = result, !.pre = FALSE, !.base = "none",
                 !.row = IF @ = "running" THEN IF result = "completed" THEN @ ELSE "failed" ELSE @,
                 !.record = IF @ = "running" THEN "failed" ELSE @]

\* The call is done: the next one, or the report of the request.
Completed(r) ==
  LET q == [req[r] EXCEPT !.row = "completed", !.pc = "call", !.todo = Tail(@)]
  IN  IF q.todo = <<>> THEN [q EXCEPT !.pc = "idle", !.result = "completed", !.pre = FALSE, !.base = "none"]
      ELSE IF q.job = "fill" THEN [q EXCEPT !.row = "running", !.pc = "tool"] ELSE q

\* An unknown, unavailable or forbidden tool, or an input that its schema refuses.
Refused(r) ==
  /\ req[r].pc = "call"
  /\ req' = [req EXCEPT ![r] = Finish(r, "failed")]
  /\ UNCHANGED <<desktop, session, pending>>

\* The row of the execution.
Execute(r) ==
  /\ req[r].pc = "call"
  /\ req[r].job # "screen"
  /\ req' = [req EXCEPT ![r].pc = "tool", ![r].row = "running"]
  /\ UNCHANGED <<desktop, session, pending>>

Fail(r) ==
  /\ req[r].pc \in {"tool", "sent", "post"}
  /\ req' = [req EXCEPT ![r] = Finish(r, "failed")]
  /\ UNCHANGED <<desktop, session, pending>>

-----------------------------------------------------------------------------
(* ComputerActionService.execute: observe, resolve, ask, act, observe, compare *)

\* Fault: the approval is asked for after the control was focused.
NeedsApprovalLate(r) == Tool(r) \in Consequential /\ ~req[r].confirmed

\* The compound command authorises the text it types; targeted text is approved
\* before its control is focused.
NeedsApproval(r) ==
  /\ Tool(r) \in Consequential \/ req[r].job = "fill"
  /\ ~req[r].confirmed /\ req[r].job # "task"

\* The UI tree has the controls of the windows that are open, and a vision model
\* sees them in a picture of the screen; either may be missing.
OnScreen(w) == w \in shown

\* The target is looked up in the UI tree, then in a picture of the screen: it is the
\* window of the control that matches best.
Located(r) == Tool(r) \in Pointer => OnScreen(req[r].target)

Observed(q) == [q EXCEPT !.pre = TRUE, !.effect = FALSE]

\* What needs approval is answered with the action that waits for it.
PutOff(r) ==
  /\ req' = [req EXCEPT ![r] = Finish(r, "approval")]
  /\ pending' = IF req[r].job \in Approvable THEN pending \cup {req[r].job} ELSE pending

\* The observation before the action.
Prepare(r) ==
  /\ req[r].pc = "tool"
  /\ Tool(r) \in Input
  /\ Located(r)
  /\ IF NeedsApproval(r)
     THEN PutOff(r)
     ELSE /\ req' = [req EXCEPT ![r] = [Observed(@) EXCEPT !.pc = "act", !.record = "running"]]
          /\ UNCHANGED pending
  /\ UNCHANGED <<desktop, session>>

\* A captcha, a login, a permission on the screen: the person has to act.
Blocked(r) ==
  /\ req[r].pc = "tool"
  /\ Tool(r) \in Input
  /\ req' = [req EXCEPT ![r] = Finish(r, "human")]
  /\ UNCHANGED <<desktop, session, pending>>

\* The screen is another one: what everybody observed before is past.
Changed(r, mine) ==
  [q \in Requests |->
     IF q = r THEN mine
     ELSE [req[q] EXCEPT !.pre = FALSE, !.base = IF @ = "same" THEN "changed" ELSE @,
                         !.disturbed = @ \/ Serving(q)]]

Seen(q) == [q EXCEPT !.pre = FALSE, !.base = IF @ = "same" THEN "changed" ELSE @, !.effect = TRUE]

\* Where a request may type: in the window of the control it clicked, or in any that
\* answers to the name of its application.
Meant(q) == IF q.job = "task" THEN Answers[q.target] ELSE {q.target}

\* The input is sent.  A click gives the focus to the window of its target, or to
\* whatever is there when the screen has changed since; text goes where the focus is.
Perform(r) ==
  /\ req[r].pc = "act"
  /\ active' \in IF Tool(r) \notin Pointer \ {"move"} THEN {active}
                ELSE IF req[r].pre THEN {req[r].target} ELSE shown \cup {None}
  /\ LET sent == [req[r] EXCEPT !.pc = "post", !.did = @ \cup {Tool(r)},
                                !.stray = @ \/ (Tool(r) = "type" /\ active \notin Meant(req[r]))]
     IN  \/ req' = [req EXCEPT ![r] = sent]
         \/ Tool(r) \notin {"move", "wait"} /\ req' = Changed(r, Seen(sent))
  /\ UNCHANGED <<shown, session, pending>>

\* Fault: sending the input is evidence enough.
VerifiedBySending(r) == {TRUE}

\* A pointer is verified by its position, which somebody else may have changed.
Verified(r) ==
  IF Tool(r) = "move" THEN BOOLEAN ELSE IF Tool(r) = "wait" THEN {TRUE} ELSE {~req[r].pre}

\* The observation after the action.  The record keeps whether the screen changed,
\* the answer of the tool does not: the backend's ok replaces it.  Only the click
\* before targeted text is looked at.
Verify(r) ==
  /\ req[r].pc = "post"
  /\ \E v \in Verified(r) :
       LET done == [Completed(r) EXCEPT !.record = IF v THEN "completed" ELSE "unverified",
                                        !.verified = @ /\ v, !.pre = FALSE]
       IN  req' = [req EXCEPT ![r] =
                     IF req[r].job = "fill" /\ Tool(r) = "click" /\ ~v
                     THEN [Finish(r, "failed") EXCEPT !.record = "unverified"] ELSE done]
  /\ UNCHANGED <<desktop, session, pending>>

-----------------------------------------------------------------------------
(* computer.observe, and the question what is on the screen *)

\* The last observation of a task must show the application, and a screen that is
\* not the one before it.
Observe(r) ==
  /\ req[r].pc = "tool"
  /\ Tool(r) = "observe"
  /\ req' = [req EXCEPT ![r] =
               IF req[r].job # "task" THEN Completed(r)
               ELSE IF Len(req[r].todo) > 1 THEN [Completed(r) EXCEPT !.base = "same"]
               ELSE IF active \in Answers[req[r].target] /\ req[r].base # "same" THEN Completed(r)
               ELSE [Finish(r, "failed") EXCEPT !.row = "completed"]]
  /\ UNCHANGED <<desktop, session, pending>>

\* A baseline that cannot be observed is done without.
ObserveNothing(r) ==
  /\ req[r].pc = "tool"
  /\ req[r].job = "task" /\ Tool(r) = "observe" /\ Len(req[r].todo) > 1
  /\ req' = [req EXCEPT ![r] = [Completed(r) EXCEPT !.row = "failed"]]
  /\ UNCHANGED <<desktop, session, pending>>

AnswerScreen(r) ==
  /\ req[r].pc = "call"
  /\ req[r].job = "screen"
  /\ \E result \in {"completed", "human"} : req' = [req EXCEPT ![r] = Finish(r, result)]
  /\ UNCHANGED <<desktop, session, pending>>

-----------------------------------------------------------------------------
(* Applications, locations and windows: sent to the system, then looked at *)

Fronted(w) == active' = w /\ shown' = shown \cup {w}

\* Closing needs a confirmation, which a prompt has no way to give: the router tests
\* for the exception that the Tool Manager has wrapped.
CloseUnconfirmed(r) ==
  /\ req[r].pc = "tool"
  /\ Tool(r) = "close_window" /\ ~req[r].confirmed
  /\ req' = [req EXCEPT ![r] = Finish(r, "failed")]
  /\ UNCHANGED <<desktop, session, pending>>

Sent(r, w) ==
  LET sent == [req[r] EXCEPT !.pc = "sent", !.did = @ \cup {Tool(r)}, !.target = w]
  IN  req' = IF desktop' = desktop THEN [req EXCEPT ![r] = sent] ELSE Changed(r, Seen(sent))

\* An application is found among the installed ones and started; its window may
\* come to the front in time, or not.
Launch(r) ==
  /\ req[r].pc = "tool" /\ Tool(r) = "launch_application"
  /\ Fronted(req[r].target) \/ UNCHANGED desktop
  /\ Sent(r, req[r].target)
  /\ UNCHANGED <<session, pending>>

OpenPath(r) ==
  /\ req[r].pc = "tool" /\ Tool(r) = "open_path"
  /\ Fronted(req[r].target) \/ UNCHANGED desktop
  /\ Sent(r, req[r].target)
  /\ UNCHANGED <<session, pending>>

\* The windows that are listed under a name, by their title or their class.
Listed(w) == shown \cap (Answers[w] \cup {w})

\* One of them, whichever is listed first.
Focus(r) ==
  /\ req[r].pc = "tool" /\ Tool(r) = "focus_window"
  /\ \E w \in Listed(req[r].target) : Fronted(w) \/ UNCHANGED desktop
  /\ Sent(r, req[r].target)
  /\ UNCHANGED <<session, pending>>

\* A window listed under the name, or the one in front when none is given; from then on
\* the request is about this window.
Control(r) ==
  /\ req[r].pc = "tool"
  /\ Tool(r) \in {"close_window", "minimize_window", "maximize_window", "restore_window"}
  /\ Tool(r) = "close_window" => req[r].confirmed
  /\ \E w \in Listed(req[r].target) \cup ({active} \ {None}) :
       /\ \/ UNCHANGED desktop
          \/ /\ Tool(r) \in {"close_window", "minimize_window"}
             /\ shown' = IF Tool(r) = "close_window" THEN shown \ {w} ELSE shown
             /\ active' = IF active = w THEN None ELSE active
       /\ Sent(r, w)
  /\ UNCHANGED <<session, pending>>

\* What the verification of each of them accepts.  A launched application may run
\* without having come to the front; the focus needs the whole name in the title; a
\* window is gone when no other has its title.
Evident(r) ==
  LET named == active \in Answers[req[r].target]
  IN  CASE Tool(r) \in {"launch_application", "open_path"} -> {TRUE, named}
        [] Tool(r) = "focus_window" -> {FALSE, named}
        [] Tool(r) = "close_window" -> {FALSE, req[r].target \notin shown}
        [] Tool(r) = "minimize_window" -> {FALSE, active # req[r].target}
        [] OTHER -> {active # None}

\* A task does not ask for the focus when the window in front answers to the name of
\* the application it launched.
Launched(r) ==
  IF /\ req[r].job = "task"
     /\ Tool(r) = "launch_application"
     /\ active \in Answers[req[r].target]
  THEN [Completed(r) EXCEPT !.todo = Tail(@)] ELSE Completed(r)

\* A verified launch makes the desktop the recent environment, and a task goes on
\* there, if it can be had.
Touched(r, verified) ==
  IF verified /\ (Tool(r) \in {"launch_application", "open_path"} \/ req[r].job = "task")
  THEN {session, "active"} ELSE {session}

Check(r) ==
  /\ req[r].pc = "sent"
  /\ \E v \in Evident(r) :
       /\ req' = [req EXCEPT ![r] =
                    IF v THEN Launched(r) ELSE [Finish(r, "failed") EXCEPT !.row = "completed"]]
       /\ session' \in Touched(r, v)
  /\ UNCHANGED <<desktop, pending>>

-----------------------------------------------------------------------------
(* The person at the desktop, and its other programs *)

Person ==
  /\ active' \in shown \cup {None}
  /\ req' = [q \in Requests |->
               IF Serving(q) THEN [req[q] EXCEPT !.pre = FALSE, !.disturbed = TRUE,
                                                 !.base = IF @ = "same" THEN "changed" ELSE @]
               ELSE req[q]]
  /\ \/ UNCHANGED shown
     \/ \E w \in Windows : shown' = shown \cup {w}
  /\ UNCHANGED <<session, pending>>

Serve(r) ==
  \/ Refused(r) \/ Execute(r) \/ Fail(r) \/ Prepare(r) \/ Blocked(r)
  \/ Perform(r) \/ Verify(r) \/ Observe(r) \/ ObserveNothing(r) \/ AnswerScreen(r)
  \/ CloseUnconfirmed(r) \/ Launch(r) \/ OpenPath(r) \/ Focus(r) \/ Control(r) \/ Check(r)

Next ==
  Person \/ EndSession \/ NewSession
  \/ \E r \in Requests : Prompt(r) \/ Approve(r) \/ CallApi(r) \/ Serve(r)

Spec == Init /\ [][Next]_vars

-----------------------------------------------------------------------------
(* Properties *)

\* Requests, windows and records keep their types.
TypeOK ==
  /\ active \in shown \cup {None}
  /\ shown \subseteq Windows
  /\ session \in {"none", "active", "completed"}
  /\ pending \subseteq Approvable
  /\ \A r \in Requests :
       /\ req[r].pc \in {"idle", "call", "tool", "act", "post", "sent"}
       /\ req[r].todo \in Seq(Tools \cup {"screen"})
       /\ req[r].record \in {"none", "running", "completed", "unverified", "failed"}
       /\ req[r].result \in {"none", "completed", "failed", "approval", "human"}

\* Approval is asked for before anything on the desktop is touched, and nothing
\* consequential is done without it; the text of a compound command is part of it.
ApprovalComesFirst ==
  \A r \in Requests :
    /\ req[r].result = "approval" => req[r].did = {}
    /\ req[r].confirmed \/ req[r].did \cap (Consequential \cup {"close_window"})
                             \subseteq IF req[r].job = "task" THEN {"type"} ELSE {}

\* When nobody else uses the desktop, text for a named control is never typed into
\* another window, nor text for an application into one that does not answer to its name.
TextStaysInTarget ==
  \A r \in Requests :
    req[r].job \in {"fill", "task"} /\ ~req[r].disturbed => ~req[r].stray

AboutToType(r, job) == req[r].pc = "act" /\ req[r].job = job /\ Tool(r) = "type"

\* The text of a compound command is only sent to the application it names.
TextIsConstrained ==
  \A r \in Requests : AboutToType(r, "task") /\ ~req[r].disturbed => active = req[r].target

\* Text for a named control is never sent to whatever has the focus.
TargetHasFocus == \A r \in Requests : AboutToType(r, "fill") => active = req[r].target

\* Verified means that the action had an effect, when nobody else had one; an action
\* without evidence is never recorded as completed.
EvidenceIsTrue ==
  \A r \in Requests :
    req[r].record = "completed" /\ ~req[r].disturbed /\ req[r].did \cap (Input \ {"move", "wait"}) # {}
      => req[r].effect \/ "wait" \in req[r].did

\* An action is reported as successful only when a change was observed.
SuccessIsVerified == \A r \in Requests : req[r].result = "completed" => req[r].verified
=============================================================================
