--------------------------- MODULE BrowserSession ---------------------------
(***************************************************************************)
(* One controlled browser session and the calls that use it.  The row of   *)
(* the session, the table of backends and the lock of the session are      *)
(* shared; a backend starts its browser when it is first used, and again   *)
(* when the browser is gone.  A call of a tool takes the backend, waits    *)
(* for the lock, observes, acts, observes again and compares; a call that  *)
(* belongs to an operation keeps the lock until the operation's run ends.  *)
(* Ending the session takes no lock.                                       *)
(***************************************************************************)
EXTENDS BrowserTarget, FiniteSets

CONSTANTS
  Calls,        \* calls that use the session
  Operations,   \* those that belong to the run of an operation
  Pages,        \* what a browser can show
  Blank,        \* the page of a browser that was just started
  Asks,         \* what can be asked of a tool
  MaxCalls,     \* tool calls of an operation's run
  MaxSamples,   \* samples of a media element, scrolls of scroll_until
  MaxBackends,  \* backends made (bound)
  MaxCloses,    \* times the session is ended (bound)
  MaxDrift,     \* pages that change by themselves (bound)
  None          \* no call, no backend, no browser

Backends == 1 .. MaxBackends

ReadOnly == {"find", "answer"}
Acts     == {"open", "click", "type", "hover", "search", "scroll_until", "media", "download"} \cup ReadOnly

ASSUME CallAssumption ==
  /\ Operations \subseteq Calls /\ Blank \in Pages
  /\ None \notin Calls /\ None \notin Pages /\ None \notin Nat
  /\ MaxCalls \in Nat /\ MaxSamples \in Nat /\ MaxBackends \in Nat
  /\ MaxCloses \in Nat /\ MaxDrift \in Nat
  /\ \A ask \in Asks : ask.act \in Acts /\ DOMAIN ask = {"act", "target", "url", "confirmed"}

VARIABLES
  active,    \* the row says that the session is active
  backend,   \* the backend in the table, or None
  made,      \* backends made so far
  browser,   \* what the browser of each backend shows, or None
  moved,     \* the backends whose media element is away from the user's position
  lock,      \* the call whose thread holds the lock, or None
  call,      \* the calls
  closing,   \* the backend that is being closed, or None
  closed,    \* times the session was ended
  drift      \* pages that changed by themselves

table == <<backend, made>>
vars  == <<active, table, browser, moved, lock, call, closing, closed, drift>>

NoAsk == [act |-> "find", target |-> [by |-> "text", text |-> <<>>], url |-> Blank, confirmed |-> FALSE]
Idle  == [pc |-> "idle", ask |-> NoAsk, ref |-> None, pre |-> Blank, did |-> FALSE, rash |-> FALSE,
          record |-> "none", answer |-> "none", left |-> 0, runs |-> 0]

Init ==
  /\ active = TRUE
  /\ backend = None /\ made = 0
  /\ browser = [b \in Backends |-> None]
  /\ moved = {}
  /\ lock = None
  /\ call = [c \in Calls |-> Idle]
  /\ closing = None /\ closed = 0
  /\ drift = 0

-----------------------------------------------------------------------------
(* Backends, browsers and answers *)

\* The backend of the session: the one in the table, or a new one.
Made(b) ==
  IF backend # None THEN b = backend /\ UNCHANGED table
  ELSE made < MaxBackends /\ b = made + 1 /\ backend' = b /\ made' = b

\* start: a browser that is gone is started again.
Shown(b)   == IF browser[b] = None THEN Blank ELSE browser[b]
Reads(b)   == browser' = [browser EXCEPT ![b] = Shown(b)]
Broken(b)  == browser[b] = None

\* What is left of a call that is over: a record that was created is closed.
Over(q, answer) ==
  [Idle EXCEPT !.pc = "done", !.answer = answer, !.did = q.did, !.rash = q.rash, !.runs = q.runs,
               !.record = IF q.record # "running" THEN q.record
                          ELSE IF answer = "ok" THEN "completed" ELSE "failed"]

\* The call ends, and the lock is released unless it belongs to a run.
Answered(c, answer) ==
  /\ call' = [call EXCEPT ![c] = Over(@, answer)]
  /\ lock' = IF c \in Operations THEN lock ELSE None

Go(c, pc) == call' = [call EXCEPT ![c].pc = pc]

\* No browser could be started.
Unavailable(c, b) == Broken(b) /\ Answered(c, "failed") /\ UNCHANGED browser

-----------------------------------------------------------------------------
(* A call arrives, and waits for the lock *)

\* The session is looked up by its owner, whatever its row says, and its backend is
\* taken before the lock.
Ask(c) ==
  /\ call[c].pc = "idle"
  /\ \E ask \in Asks, b \in Backends :
       /\ ask.act = "media" => c \in Operations
       /\ Made(b)
       /\ call' = [call EXCEPT ![c] = [Idle EXCEPT !.pc = "waiting", !.ask = ask, !.ref = b,
                                                   !.left = MaxSamples, !.runs = @ + 1]]
  /\ UNCHANGED <<active, browser, moved, lock, closing, closed, drift>>

\* The next step of a run, for which the run's thread already holds the lock.
Continue(c) ==
  /\ call[c].pc = "done" /\ lock = c /\ call[c].answer = "ok"
  /\ call[c].runs < MaxCalls
  /\ \E ask \in Asks, b \in Backends :
       /\ Made(b)
       /\ call' = [call EXCEPT ![c] = [Idle EXCEPT !.pc = "observe", !.ask = ask, !.ref = b, !.rash = call[c].rash,
                                                   !.left = MaxSamples, !.runs = call[c].runs + 1]]
  /\ UNCHANGED <<active, browser, moved, lock, closing, closed, drift>>

EndRun(c) ==
  /\ c \in Operations
  /\ call[c].pc = "done" /\ lock = c
  /\ lock' = None
  /\ UNCHANGED <<active, table, browser, moved, call, closing, closed, drift>>

Lock(c) ==
  /\ call[c].pc = "waiting"
  /\ lock = None
  /\ lock' = c
  /\ Go(c, "observe")
  /\ UNCHANGED <<active, table, browser, moved, closing, closed, drift>>

-----------------------------------------------------------------------------
(* The observation before an action *)

\* BrowserObservationService.observe, with the backend that the table has then: what c
\* is looking for goes on with the page that b shows.
Looking(c, pc, acts) == call[c].pc = pc /\ call[c].ask.act \in acts

Look(b) ==
  /\ Made(b) /\ Reads(b)
  /\ Shown(b).host # "private"
  /\ UNCHANGED <<active, moved, closing, closed, drift>>

\* There is no browser, or it is on an address of the private network.
LookFails(c) ==
  /\ call[c].pc \in {"observe", "compare"}
  /\ \E b \in Backends :
       /\ Made(b)
       /\ \/ Unavailable(c, b)
          \/ Reads(b) /\ Shown(b).host = "private" /\ Answered(c, "boundary")
  /\ UNCHANGED <<active, moved, closing, closed, drift>>

\* A captcha or a login stop the call; what is consequential needs the user's word.
Decide(c, b) ==
  LET ask  == call[c].ask
      page == Shown(b)
  IN  IF ask.act \in ReadOnly THEN Answered(c, "ok")
      ELSE IF page.gate # "none" THEN Answered(c, page.gate)
      ELSE IF NeedsApproval(page.shown, ask) THEN Answered(c, "approval")
      ELSE /\ call' = [call EXCEPT ![c].pc = "act", ![c].pre = page, ![c].record = "running"]
           /\ UNCHANGED lock

Observe(c) ==
  Looking(c, "observe", Acts \ {"search", "scroll_until", "media"}) /\ \E b \in Backends : Look(b) /\ Decide(c, b)

\* browser.search types into the page's search box, or else goes to a search page;
\* the typed text carries no confirmation.
Searched(c, b) ==
  LET box == Nth(SelectSeq(Shown(b).shown, IsSearch), 0)
  IN  /\ call' = [call EXCEPT ![c].ask =
                     IF box # NoElement
                     THEN [NoAsk EXCEPT !.act = "type", !.target = [by |-> "id", element |-> box]]
                     ELSE [NoAsk EXCEPT !.act = "open", !.url = call[c].ask.url]]
      /\ UNCHANGED lock

Search(c) == Looking(c, "observe", {"search"}) /\ \E b \in Backends : Look(b) /\ Searched(c, b)

\* browser.scroll_until observes and scrolls until the page shows what is looked for.
Sought(c, b) ==
  LET page == Shown(b)
  IN  IF Best(page.shown, call[c].ask.target.text) # NoElement THEN Answered(c, "ok")
      ELSE IF call[c].left = 0 THEN Answered(c, "failed")
      ELSE IF page.gate # "none" THEN Answered(c, page.gate)
      ELSE /\ call' = [call EXCEPT ![c].pc = "act", ![c].pre = page, ![c].left = @ - 1,
                                   ![c].record = "running"]
           /\ UNCHANGED lock

ScrollUntil(c) == Looking(c, "observe", {"scroll_until"}) /\ \E b \in Backends : Look(b) /\ Sought(c, b)

-----------------------------------------------------------------------------
(* The action, on the backend that was taken when the call arrived *)

\* What the page may look like afterwards: the site decides.
After(ask, page) ==
  IF ask.act = "open" THEN {p \in Pages : p.host \in {ask.url.host, "private", "else"}}
  ELSE IF ask.act = "hover" THEN {page} ELSE Pages

\* The elements that may be acted on: the one that is named, if the page still has it;
\* else, or when it is named by how it looks, one the vision model picks among those
\* that were observed.
Chosen(pre, page, target) ==
  LET e    == Resolved(pre.shown, target)
      live == e \in Elements(page.shown)
  IN  (IF live THEN {e} ELSE {}) \cup (IF live /\ ~Visual(target) THEN {} ELSE Elements(pre.shown))

\* Fault: the element that the vision model picks is not examined.
ReapprovedNever(c, e) == TRUE

\* An element the vision model picked is examined like one that was named.
Reapproved(c, e) ==
  ~NeedsApproval(call[c].pre.shown, [call[c].ask EXCEPT !.target = [by |-> "id", element |-> e]])

\* Consequential, and the user was not asked.
Rash(ask, e) == e # NoElement /\ ask.act \in {"click", "type"} /\ ~ask.confirmed /\ Sensitive(e.label)

Perform(c) ==
  /\ call[c].pc = "act"
  /\ LET b    == call[c].ref
         page == Shown(b)
         ask  == call[c].ask
         done(e) ==
                 /\ call' = [call EXCEPT ![c].pc = "compare", ![c].did = TRUE, ![c].rash = @ \/ Rash(ask, e)]
                 /\ \E p \in After(ask, page) : browser' = [browser EXCEPT ![b] = p]
                 /\ UNCHANGED lock
     IN  \/ Unavailable(c, b)
         \/ Reads(b) /\ Answered(c, "failed")
         \/ ask.act \in {"open", "scroll_until"} /\ done(NoElement)
         \/ /\ ask.act \in {"click", "type", "hover", "download"}
            /\ \E e \in Chosen(call[c].pre, page, ask.target) :
                 IF e # Resolved(call[c].pre.shown, ask.target) /\ ~Reapproved(c, e)
                 THEN Reads(b) /\ Answered(c, "approval")
                 ELSE e \in Elements(page.shown) /\ done(e)
  /\ UNCHANGED <<active, table, moved, closing, closed, drift>>

\* verify: the host that was asked for; otherwise a page that is not the same.
Verified(ask, pre, post) ==
  CASE ask.act = "open"                    -> post.host = ask.url.host
    [] ask.act \in {"hover", "download"}   -> TRUE
    [] OTHER                               -> pre # post

\* Only what the page then shows makes the action a success; a scroll is looked at once more.
Judged(c, b) ==
  IF ~Verified(call[c].ask, call[c].pre, Shown(b)) THEN Answered(c, "failed")
  ELSE IF call[c].ask.act # "scroll_until" THEN Answered(c, "ok")
  ELSE /\ call' = [call EXCEPT ![c].pc = "observe", ![c].record = "completed", ![c].did = FALSE]
       /\ UNCHANGED lock

Compare(c) == Looking(c, "compare", Acts) /\ \E b \in Backends : Look(b) /\ Judged(c, b)

-----------------------------------------------------------------------------
(* media.analyze: sample a media element and put it back *)

HasMedia(page) == \E i \in DOMAIN page.shown : page.shown[i].tag = "video"

Found(c, b) ==
  IF ~HasMedia(Shown(b)) THEN Answered(c, "failed")
  ELSE call' = [call EXCEPT ![c].pc = "sample", ![c].ref = b] /\ UNCHANGED lock

Analyse(c) == Looking(c, "observe", {"media"}) /\ \E b \in Backends : Look(b) /\ Found(c, b)

\* A sample moves the element; a browser that is gone is not noticed until the end.
Sample(c) ==
  /\ call[c].pc = "sample" /\ call[c].left > 0
  /\ moved' = IF browser[call[c].ref] # None THEN moved \cup {call[c].ref} ELSE moved
  /\ call' = [call EXCEPT ![c].left = @ - 1]
  /\ UNCHANGED <<active, table, browser, lock, closing, closed, drift>>

\* Fault: only samples that were all taken are undone.
RestoreAtEnd(c) ==
  /\ call[c].pc = "sample"
  /\ \E answer \in {"ok", "cancelled", "failed"} :
       /\ Answered(c, answer)
       /\ moved' = IF answer = "ok" THEN moved \ {call[c].ref} ELSE moved
  /\ UNCHANGED <<active, table, browser, closing, closed, drift>>

\* All samples are taken, or the user cancelled: the position is restored either way.
Restore(c) ==
  /\ call[c].pc = "sample"
  /\ \E answer \in {"ok", "cancelled", "failed"} : Answered(c, answer)
  /\ moved' = moved \ {call[c].ref}
  /\ UNCHANGED <<active, table, browser, closing, closed, drift>>

-----------------------------------------------------------------------------
(* Ending the session, and pages that change by themselves *)

Close ==
  /\ closing = None /\ closed < MaxCloses
  /\ closing' = backend /\ backend' = None
  /\ closed' = closed + 1
  /\ active' = IF backend = None THEN FALSE ELSE active
  /\ UNCHANGED <<made, browser, moved, lock, call, drift>>

Quit ==
  /\ closing # None
  /\ browser' = [browser EXCEPT ![closing] = None]
  /\ moved' = moved \ {closing}
  /\ active' = FALSE
  /\ closing' = None
  /\ UNCHANGED <<table, lock, call, closed, drift>>

Drift ==
  /\ drift < MaxDrift
  /\ \E b \in Backends, p \in Pages :
       browser[b] # None /\ browser' = [browser EXCEPT ![b] = p] /\ moved' = moved \ {b}
  /\ drift' = drift + 1
  /\ UNCHANGED <<active, table, lock, call, closing, closed>>

Serve(c) ==
  \/ Lock(c) \/ LookFails(c) \/ Observe(c) \/ Search(c) \/ ScrollUntil(c) \/ Perform(c) \/ Compare(c)
  \/ Analyse(c) \/ Sample(c) \/ Restore(c) \/ EndRun(c)

Next == Close \/ Quit \/ Drift \/ \E c \in Calls : Ask(c) \/ Continue(c) \/ Serve(c)

Spec == Init /\ [][Next]_vars

-----------------------------------------------------------------------------
(* Properties *)

Acting == {c \in Calls : call[c].pc \in {"act", "compare", "sample"}}
Live   == {b \in Backends : browser[b] # None}

\* Rows, backends and calls keep their types.
TypeOK ==
  /\ active \in BOOLEAN
  /\ backend \in 0 .. made \cup {None} /\ made \in 0 .. MaxBackends
  /\ \A b \in Backends : browser[b] \in Pages \cup {None}
  /\ moved \subseteq Live
  /\ lock \in Calls \cup {None}
  /\ \A c \in Calls :
       /\ call[c].pc \in {"idle", "waiting", "observe", "act", "compare", "sample", "done"}
       /\ call[c].record \in {"none", "running", "completed", "failed"}

\* Consequential controls are operated only with the user's confirmation, whoever
\* chose the control: the request, the words of it or the vision model.
ConsequentialIsConfirmed == \A c \in Calls : ~call[c].rash

\* Without the user's word a consequential control is operated only when the browser reads
\* the request as that control and the policy, on the same page, as something else: never
\* because the page changed after it was examined, and never because of the vision model.
OnlyTheReadingDiffers ==
  [][\A c \in Calls :
       LET q == call[c]
           e == Resolved(q.pre.shown, q.ask.target)
       IN  ~q.rash /\ call'[c].rash =>
             e # NoElement /\ Sensitive(e.label) /\ Examined(q.pre.shown, q.ask.target) # e]_vars

\* What is reported as done was seen in the browser that did it: it shows the page
\* asked for, or a page that is not the one before.
SuccessIsObserved ==
  [][\A c \in Calls :
       LET ask == call[c].ask
           now == browser'[call[c].ref]
       IN  call[c].pc = "compare" /\ call'[c].answer = "ok" =>
             /\ now # None
             /\ ask.act = "open" => now.host = ask.url.host
             /\ ask.act \in {"click", "type"} => now # call[c].pre]_vars

\* Unless it is being sampled, a media element is where the user left it.
MediaIsRestored == \A b \in moved : \E c \in Acting : call[c].pc = "sample" /\ call[c].ref = b
=============================================================================
