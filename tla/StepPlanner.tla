---------------------------- MODULE StepPlanner ----------------------------
(***************************************************************************)
(* From a command to the steps of a browser operation: the router answers  *)
(* it, refuses it or plans it; the planner makes steps of what its regular *)
(* expressions find, or asks a model; the tools take or refuse the inputs. *)
(* How an operation performs its steps, and replans, is ComputerUse's      *)
(* subject: here the first step that fails ends the plan.                  *)
(***************************************************************************)
EXTENDS Naturals, Sequences

CONSTANTS
  Asked,          \* commands: what the expressions find in them
  ModelSteps,     \* steps a model may propose: [tool, object, input], input is an object or not
  ModelConfigured,
  DesktopThere,   \* an environment for the desktop, files or terminals is registered
  PlanLimit,      \* steps of a model's plan that are kept
  MaxAsked        \* commands (bound)

ASSUME PlannerAssumption ==
  /\ ModelConfigured \in BOOLEAN /\ DesktopThere \in BOOLEAN
  /\ PlanLimit \in Nat \ {0} /\ MaxAsked \in Nat

-----------------------------------------------------------------------------
(* Inputs of tools.  A value is named by what a schema can tell of it.      *)

Strings == {"url", "words", "blank", "up", "down", "play", "pause", "resume", "seek", "volume", "error"}
Values  == Strings \cup {"object", "number", "flag"}

\* register_computer_use_tools: the fields these tools declare, and what they admit; fields
\* that are not declared are let through.
Required(tools, field, admits) == [tools |-> tools, field |-> field, needed |-> TRUE, admits |-> admits]
Optional(tools, field, admits) == [tools |-> tools, field |-> field, needed |-> FALSE, admits |-> admits]

Schema ==
  {Required({"open_url", "navigate"}, "url", {"url"}),
   Optional({"new_tab"}, "url", Strings),
   Required({"click", "double_click", "hover", "focus", "right_click", "type", "press_key", "select",
             "drag", "download_if_permitted"}, "target", Values),
   Optional({"scroll_to"}, "target", Values),
   Required({"drag"}, "destination", Values),
   Optional({"scroll_to"}, "destination", Strings),
   Optional({"right_click", "type", "drag"}, "confirmed", {"flag"}),
   Optional({"download_if_permitted"}, "permission_confirmed", {"flag"}),
   Optional({"type"}, "clear", {"flag"}),
   Optional({"type"}, "submit", {"flag"}),
   Required({"type"}, "text", Strings),
   Optional({"select"}, "text", Strings),
   Optional({"select"}, "value", Strings),
   Required({"press_key"}, "key", Strings \ {"blank"}),
   Optional({"scroll", "scroll_until"}, "direction", {"up", "down"}),
   Optional({"scroll"}, "amount", {"number"}),
   Optional({"scroll_until"}, "max_scrolls", {"number"}),
   Required({"find"}, "query", Strings \ {"blank"}),
   Required({"search", "scroll_until"}, "query", Strings),
   Required({"answer_page"}, "question", Strings),
   Optional({"switch_tab"}, "handle", Strings),
   Optional({"switch_tab"}, "index", {"number"}),
   Optional({"wait"}, "seconds", {"number"}),
   Required({"media_action"}, "media_action", {"play", "pause", "resume", "seek", "volume"}),
   Required({"execute_allowed_action"}, "action", Strings),
   Required({"execute_allowed_action"}, "input", {"object"})}

Tools ==
  UNION {d.tools : d \in Schema}
    \cup {"back", "forward", "refresh", "close_tab", "get_page", "get_dom",
          "get_accessibility_tree", "get_screenshot", "media.analyze"}

\* _validate_value of an input, as the executor does before a row exists.
Accepts(tool, input) ==
  \A d \in Schema :
    tool \in d.tools =>
      /\ d.needed => d.field \in DOMAIN input
      /\ d.field \in DOMAIN input => input[d.field] \in d.admits

-----------------------------------------------------------------------------
(* The deterministic planner: one group of steps for each expression, in a *)
(* fixed order.  An address is one that names a host.                       *)
(***************************************************************************)

Phrases ==
  {"research", "until", "one", "play", "pause", "skip", "rewind", "watch", "what", "find",
   "about", "refers", "local"}

Commands ==
  [open    : {"no", "site", "item", "unknown"},    \* what follows open or go to
   search  : {"no", "site", "web"},                \* for a site normalize_url knows, or not
   query   : {"words", "blank"},                   \* blank when only punctuation is left of it
   item    : {"no", "nth", "seen"},                \* a result or video, by number or by look
   click   : {"no", "click", "double_click", "right_click"},
   scrolls : Seq({"up", "down", "unsaid"}),
   says    : SUBSET Phrases]                       \* which of the other phrases occur

ASSUME CommandsAssumption == Asked \subseteq Commands

NoInput == [f \in {} |-> f]

S(tool, input) == <<[tool |-> tool, input |-> input]>>
When(p, steps) == IF p THEN steps ELSE <<>>

Opened(q) == When(q.open = "site", S("open_url", [url |-> "url"]))

Researched(q) ==
  When("research" \in q.says,
       S("search", [query |-> q.query]) \o S("click", [target |-> "object"])
         \o S("answer_page", [question |-> "words"]))

\* Fault: the search of a site is a search like any other.
SearchedAnywhere(q) ==
  CASE q.search = "site" -> S("open_url", [url |-> "url"]) \o S("search", [query |-> q.query])
    [] q.search = "web"  -> S("search", [query |-> q.query])
    [] OTHER             -> <<>>

\* A search of a site that is known stays there: it has no fallback.
Searched(q) ==
  CASE q.search = "site" -> S("open_url", [url |-> "url"])
                              \o S("search", [query |-> q.query, fallback |-> "error"])
    [] q.search = "web"  -> S("search", [query |-> q.query])
    [] OTHER             -> <<>>

Scrolled(q) ==
  IF "until" \in q.says
  THEN S("scroll_until", [query |-> q.query, direction |-> "down"])
  ELSE [i \in DOMAIN q.scrolls |->
          [tool |-> "scroll",
           input |-> [direction |-> IF q.scrolls[i] = "unsaid" THEN "down" ELSE q.scrolls[i]]]]

\* The first of: an item, "the second one", a click on something described.
Chosen(q) ==
  IF q.item # "no" THEN S("click", [target |-> IF q.item = "seen" THEN "words" ELSE "object"])
  ELSE IF "one" \in q.says THEN S("click", [target |-> "object"])
  ELSE When(q.click # "no", S(q.click, [target |-> "words"]))

Played(q) ==
  LET Media(a) == S("media_action", [media_action |-> a])
      Seek     == S("media_action", [media_action |-> "seek", seconds |-> "number"])
  IN  When("play" \in q.says, Media("play")) \o When("pause" \in q.says, Media("pause"))
        \o When("skip" \in q.says, Seek) \o When("rewind" \in q.says, Seek)

Understood(q) ==
  When("watch" \in q.says, S("media.analyze", NoInput))
    \o When("what" \in q.says, S("answer_page", [question |-> "words"]))
    \o When("find" \in q.says /\ "until" \notin q.says, S("find", [query |-> "words"]))

Deterministic(q) ==
  Opened(q) \o Researched(q) \o Searched(q) \o Scrolled(q) \o Chosen(q) \o Played(q) \o Understood(q)

\* What is opened must be a known site, an address or an item of the page.
Raises(q) == q.open = "unknown"

\* ai_plan: steps for known tools other than the meta-tool, with an object as input.
Kept(raw) ==
  LET clean == SelectSeq(raw, LAMBDA s : /\ s.tool \in Tools \ {"execute_allowed_action"}
                                         /\ s.object)
      steps == [i \in DOMAIN clean |-> [tool |-> clean[i].tool, input |-> clean[i].input]]
  IN  SubSeq(steps, 1, IF Len(clean) < PlanLimit THEN Len(clean) ELSE PlanLimit)

-----------------------------------------------------------------------------

VARIABLES
  asked,     \* the command being served, or the last one
  serving,   \* "idle", "running"
  reply,     \* route of the answer
  plan,      \* steps of the operation, and who made it
  at,        \* the next step
  page,      \* the page of the session: [open, searchable]
  media,     \* the newest record of media that has not failed: "none", "bare", "evidence"
  went,      \* where the searches of the command went
  count

plvars == <<asked, serving, reply, plan, at, page, media, went, count>>

NoPlan  == [by |-> "none", steps |-> <<>>]
Nobody  == [open |-> "no", search |-> "no", query |-> "words", item |-> "no", click |-> "no",
            scrolls |-> <<>>, says |-> {}]

PlannerInit ==
  /\ asked = Nobody /\ serving = "idle" /\ reply = "none" /\ plan = NoPlan /\ at = 1
  /\ page = [open |-> FALSE, searchable |-> FALSE]
  /\ media \in {"none", "bare", "evidence"}
  /\ went = {} /\ count = 0

Answered(route) == reply' = route /\ serving' = "idle" /\ plan' = NoPlan

\* Only when none is being served, for at most MaxAsked commands.
Receive(q) ==
  /\ count' = count + 1
  /\ asked' = q /\ at' = 1 /\ went' = {}

\* A question about the media that was processed; one that only refers to it needs a record
\* of the session.
AboutMedia(q) ==
  \/ "about" \in q.says /\ "watch" \notin q.says
  \/ "refers" \in q.says /\ page.open /\ media \in {"bare", "evidence"}

AnswerMedia(q) ==
  /\ Receive(q)
  /\ AboutMedia(q)
  /\ IF media = "evidence" THEN Answered("media.answer") \/ (ModelConfigured /\ Answered("raised"))
     ELSE Answered("media.unknown")
  /\ UNCHANGED <<page, media>>

Local(q) == "local" \in q.says /\ ~DesktopThere

RefuseLocal(q) ==
  /\ Receive(q)
  /\ ~AboutMedia(q) /\ Local(q)
  /\ Answered("computer.environment_unavailable")
  /\ UNCHANGED <<page, media>>

ForBrowser(q) == q # Nobody /\ ~AboutMedia(q) /\ ~Local(q)

\* create() refuses an address it does not know, and a command nothing can be made of.
CannotStart(q) ==
  /\ Receive(q)
  /\ ForBrowser(q)
  /\ Raises(q) \/ (Deterministic(q) = <<>> /\ ~ModelConfigured)
  /\ Answered("browser.error")
  /\ page' = [page EXCEPT !.open = TRUE]
  /\ UNCHANGED media

StartPlanned(q) ==
  /\ Receive(q)
  /\ ForBrowser(q) /\ ~Raises(q) /\ Deterministic(q) # <<>>
  /\ plan' = [by |-> "rules", steps |-> Deterministic(q)]
  /\ serving' = "running" /\ reply' = "computer_use.start"
  /\ page' = [page EXCEPT !.open = TRUE]
  /\ UNCHANGED media

\* The page is observed for the model, and what the model proposes is cleaned.
StartModelled(q, raw) ==
  /\ Receive(q)
  /\ ForBrowser(q) /\ ~Raises(q) /\ Deterministic(q) = <<>> /\ ModelConfigured
  /\ IF Kept(raw) = <<>> THEN Answered("browser.error")
     ELSE /\ plan' = [by |-> "model", steps |-> Kept(raw)]
          /\ serving' = "running" /\ reply' = "computer_use.start"
  /\ page' = [page EXCEPT !.open = TRUE]
  /\ UNCHANGED media

-----------------------------------------------------------------------------
(* The steps *)

Next0(ok) ==
  /\ at' = at + 1
  /\ serving' = IF ok /\ at < Len(plan.steps) THEN "running" ELSE "idle"

Step0(tool) ==
  /\ serving = "running" /\ at \in DOMAIN plan.steps /\ plan.steps[at].tool = tool
  /\ UNCHANGED <<asked, reply, plan, count>>

\* The run takes confirmations out of a step's input and puts in which session and operation it is for.
Given(input) ==
  LET ids == {"browser_session_id", "operation_id"} IN
  [f \in (DOMAIN input \ {"confirmed", "permission_confirmed"}) \cup ids |->
     IF f \in ids THEN "words" ELSE input[f]]
Taken == Accepts(plan.steps[at].tool, Given(plan.steps[at].input))

Refuse ==
  /\ serving = "running" /\ ~Taken
  /\ Next0(FALSE)
  /\ UNCHANGED <<asked, reply, plan, page, media, went, count>>

\* browser.search: on the page when it has a search box; else an error or a web search.
Search ==
  /\ Step0("search") /\ Taken
  /\ LET input == plan.steps[at].input
         web   == ~page.searchable /\ ("fallback" \notin DOMAIN input \/ input["fallback"] # "error")
     IN  IF input.query = "blank" THEN Next0(FALSE) /\ UNCHANGED <<went, page>>
         ELSE /\ Next0(page.searchable \/ web)
              /\ went' = went \cup (IF page.searchable THEN {"page"} ELSE IF web THEN {"web"} ELSE {})
              /\ \E box \in BOOLEAN : page' = [page EXCEPT !.searchable = IF @ \/ web THEN box ELSE @]
  /\ UNCHANGED media

Open ==
  /\ Step0("open_url") /\ Taken
  /\ \E box, ok \in BOOLEAN : page' = [page EXCEPT !.searchable = box] /\ Next0(ok)
  /\ UNCHANGED <<media, went>>

\* browser.scroll_until ends after its last scroll, found or not.
ScrollUntil ==
  /\ Step0("scroll_until") /\ Taken
  /\ Next0(plan.steps[at].input.query # "blank")
  /\ UNCHANGED <<page, media, went>>

\* A picture is described by the model; without one, or when it fails, nothing is seen.
Sees(seen) == seen => ModelConfigured

\* analyze_current: what was heard and seen is kept, also when it is too little to be summed
\* up; a page without media leaves a record that failed and does not count, and raises.
Record(found, heard, seen) ==
  IF ~found THEN media ELSE IF heard \/ seen THEN "evidence" ELSE "bare"

Analyze ==
  /\ Step0("media.analyze") /\ Taken
  /\ \E found, heard, seen \in BOOLEAN :
       Sees(seen) /\ media' = Record(found, heard, seen) /\ Next0(found)
  /\ UNCHANGED <<page, went>>

\* Every other action may succeed or fail, and lead to another page.
Act ==
  /\ serving = "running" /\ at \in DOMAIN plan.steps /\ Taken
  /\ plan.steps[at].tool \notin {"search", "open_url", "scroll_until", "media.analyze"}
  /\ \E box, ok \in BOOLEAN : page' = [page EXCEPT !.searchable = box] /\ Next0(ok)
  /\ UNCHANGED <<asked, reply, plan, count, media, went>>

PlannerNext ==
  \/ /\ serving = "idle" /\ count < MaxAsked
     /\ \E q \in Asked :
       \/ AnswerMedia(q) \/ RefuseLocal(q) \/ CannotStart(q) \/ StartPlanned(q)
       \/ \E n \in 0 .. 2 : \E raw \in [1 .. n -> ModelSteps] : StartModelled(q, raw)
  \/ Refuse \/ Search \/ Open \/ ScrollUntil \/ Analyze \/ Act

PlannerSpec == PlannerInit /\ [][PlannerNext]_plvars

-----------------------------------------------------------------------------
(* Properties *)

\* Whatever phrases a command combines, and whatever page its steps lead to, the plan the
\* rules make of it runs as it was meant: the tools accept the inputs of all its steps, with
\* the fields the run adds, and the search of a site that is known is made on that site or
\* fails, and never becomes a search of the web (SYSTEM_AUDIT.md, on unknown targets).
PlansRunAsMeant ==
  plan.by = "rules" =>
    /\ serving = "running" => Taken
    /\ "web" \in went => asked.search = "web" \/ "research" \in asked.says
=============================================================================
