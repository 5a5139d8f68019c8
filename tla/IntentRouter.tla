---------------------------- MODULE IntentRouter ----------------------------
(***************************************************************************)
(* Which agent an objective goes to: the deterministic rules of            *)
(* UniversalIntentRouter.classify and, when none of them matches, those of *)
(* AgentManagerOrchestrator.decide.  Both try their patterns in order, so  *)
(* the first rule that matches decides.  A prompt is what the patterns can *)
(* tell of it.                                                             *)
(***************************************************************************)
EXTENDS Integers

\* The verb a prompt starts with or contains; a prompt with none of the verbs
\* of the router has the topic of one of decide()'s patterns instead.
Verbs  == {"open", "go", "search", "manipulate", "navigate", "window", "observe"}
Topics == {"control", "capture", "memory", "knowledge", "research", "plan", "tasks",
           "documents", "project", "workflow", "other"}

\* What is said of the target: it is on "my computer", used ("using Firefox"),
\* an installed application, a website, "that one", the name of a language,
\* a system location, a folder, a thing of a web page; a report is wanted.
Marks == {"local", "using", "app", "site", "that", "language", "place", "folder", "page", "report"}

Prompt == [verb : Verbs \cup Topics, marks : SUBSET Marks]

Environments == {"", "browser", "computer"}

\* _compound_local_task: a website is not taken for an application of that name
\* unless the computer is named.
CompoundLocal(p) ==
  /\ p.verb = "open"
  /\ p.marks \cap {"local", "app"} # {}
  /\ "site" \in p.marks => "local" \in p.marks

\* _explicit_application_environment_task: search or go, using an application.
ExplicitApplication(p) == p.verb \in {"search", "go"} /\ {"using", "app"} \subseteq p.marks

\* _recent_environment: the newer of the two kinds of session that is not closed.
\* The words of a web page decide for the browser whatever is recent.
Contextual(p, env) == IF env = "browser" \/ "page" \in p.marks THEN "browser" ELSE "computer"

\* The target of OPEN, after the compound tasks.  "Open X" is not a request to
\* search: what nothing resolves is asked about.
Opens(p, env) ==
  IF "that" \in p.marks THEN Contextual(p, env)
  ELSE IF "language" \in p.marks THEN "clarify"
  ELSE IF "place" \in p.marks THEN "computer"
  ELSE IF "site" \in p.marks THEN "browser"
  ELSE IF p.marks \cap {"app", "folder"} # {} THEN "computer" ELSE "clarify"

Classify(p, env) ==
  IF CompoundLocal(p) \/ ExplicitApplication(p) THEN "computer"
  ELSE IF p.verb = "search" \/ (p.verb = "go" /\ "site" \in p.marks) THEN "browser"
  ELSE IF p.verb = "open" THEN Opens(p, env)
  ELSE IF p.verb = "manipulate" THEN Contextual(p, env)
  ELSE IF p.verb = "navigate" THEN IF env = "browser" THEN "browser" ELSE "computer"
  ELSE IF p.verb \in {"window", "observe"} THEN "computer" ELSE "none"

\* The topics of decide(), and the agent each goes to.
AgentOf == [control |-> "chat", capture |-> "browser", memory |-> "memory",
            knowledge |-> "knowledge", research |-> "browser", plan |-> "planner",
            tasks |-> "tasks", documents |-> "documents", project |-> "projects",
            workflow |-> "workflow"]

\* The router before the topics.  The rules after the topics (computer, browser and
\* chat words) name a class that is not defined there, so that decide() raises.
Decide(p, env) ==
  IF Classify(p, env) # "none" THEN Classify(p, env)
  ELSE IF p.verb \in DOMAIN AgentOf THEN AgentOf[p.verb] ELSE "raised"

\* What is captured is handed on to the knowledge base, research only as a report.
HasPostActions(p) == p.verb = "capture" \/ (p.verb = "research" /\ "report" \in p.marks)
=============================================================================
