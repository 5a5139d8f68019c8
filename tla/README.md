# Echo: models and proofs

TLA+ modules that model Echo, the TLC runs that check them and the theorems
TLAPS proves about them. Echo is a Django monolith: services called by HTTP
handlers, by Celery tasks and by an in-process thread pool, over one relational
database, and a page whose script talks to them. Requests are not wrapped in a
transaction and rows are rarely locked, so every service reads a row into
memory, works on its copy and saves it, whole or by column. That is where its
hard behaviour comes from, and what the models are about. The database is
PostgreSQL at its default isolation, which the documents require of a deployment.

## Inventory

| part | state | operations | hard behaviour | what makes it correct |
| --- | --- | --- | --- | --- |
| Computer-use operations (`internet/computer_use.py`, `tasks.py`) | `ComputerUseOperation` rows, jobs in Celery or a pool of two threads, in-memory copies | create, dispatch, cancel, resume, run | stale saves, duplicate jobs, crash, approval against replanning, session lock | consent before consequential steps, prompt cancellation, true status, every run ends |
| Planner, command router and browser tools (same file) | none but the operation's plan | handle, plan, the tools' handlers | steps of several rules in one command, inputs checked long after they were made | a plan is accepted by its tools and does what was asked |
| Browser sessions and actions (same file) | `BrowserSession` rows, backend and lock tables of each process | create, current, lock, backend, close, execute, search, analyse | close against a running action, pages that change, a dead browser | success is what was observed; consent; media put back |
| Tool Manager (`tool_manager/`) | registry of tools per process, `ToolExecution` rows | register, discover, permission, validate, execute | a provider that raises half-way, threads in discovery | a registry taken for complete is complete |
| Agent orchestration, intent routing (`agent_manager/`) | tree of `AgentTask` rows, link to operations | classify, decide, delegate, complete, cancel, approve | the operation ends while its tasks are still written | what is shown has happened, tree and operation agree, post-actions once |
| Desktop control (`internet/desktop_control.py`, `local_system.py`) | desktop sessions, action rows | observe, act, launch, open, focus, approve | a person uses the same desktop | approval first, text goes to the window it is for, evidence is true |
| Voice runtimes (`voice/services.py`, `views.py`, `tasks.py`) | `VoiceSession` row, profile | start, transition, ingest, synthesize, shutdown, expiry, deletion | long request between read and write, expiry, restarts | shutdown is final; modes mirror states; turns end |
| Voice data (same files) | transcripts, memories made of them, audio files and rows, speaker profile | ingest, decide, enrol, clear, retain, clean up | turns in flight while data is cleared or settings change | memory by consent; cleared stays cleared; no row without its file |
| Browser client (`static/js/echo.js`) | `voiceRuntime` | poll, capture, speak, greet, expire | answers in any order, lost answers, reload | one greeting, no listening to itself, turns end |
| Core commands, AI engine, chat (`core/command_service.py`, `ai_engine/`, `chat/`) | messages, tasks, projects, plans, searches, AI requests | one route per kind of command | several rows without a transaction, services that fail | a reply is true; every message is answered |
| Workflow engine (`workflow_engine/`) | `WorkflowExecution` rows | order, execute, retry | retries, cycles, three ways to start, dying workers | steps after their needs, an honest outcome |
| Memory, knowledge, documents | rows | remember, correct, forget; ingest; process | check-then-act, partial failure | nothing stored is lost or stored twice; an indexed document is whole |
| API, notifications, planner, e-mail, portability, analytics | rows | handlers of several statements, tasks with retries | a request ends after any statement, retries from the start | what is reported as done is there |
| Time tracking, calendar, code assistant, vectors, authentication, generic CRUD, settings, speech providers | rows, I/O | - | - | not modelled |

A text or voice command goes through the orchestrator to an agent, or to a
route of the command service. The Browser Agent creates and dispatches a
computer-use operation; its run calls named tools through the Tool Manager,
which call the browser under the session's lock; the end of the run publishes a
notification and writes the agent tasks. The Computer Agent calls desktop tools
in the request. The user cancels, approves and resumes over HTTP at any time,
and the page polls and reports the voice state.

## Modules

| module | models | uses |
| --- | --- | --- |
| `ComputerUse` | an operation's whole life | implements `OperationLifecycle` |
| `OperationLifecycle` | what the runtime promises to whoever polls | - |
| `StepPlanner` | from a command to the steps and their inputs | - |
| `BrowserTarget`, `BrowserSession` | target resolution as functions; one session and its calls | session extends target |
| `IntentRouter`, `AgentOrchestration` | the rules of routing; one objective and its task tree | orchestration extends router, sees the operation as `OperationLifecycle` does |
| `DesktopControl` | requests on a shared desktop | - |
| `ToolRegistry` | discovery of tools by threads | - |
| `VoiceStates`, `VoiceSession` | the table of transitions; the runtimes and their requests | - |
| `VoiceData` | what is kept of a user's voice | - |
| `VoiceClient` | the page and the server's answers | extends `VoiceStates` |
| `WorkflowEngine`, `Workspace`, `Assistant` | executions; memories, knowledge, documents; commands | each extends the one before |
| `ApiRecords` | the API's handlers of several statements | - |
| `MC…` | values of constants for TLC; `MCBackend` joins `VoiceData`, `ToolRegistry`, `StepPlanner`, `ApiRecords` | - |
| `…Proofs` | theorems; `BackendProofs` those of the four modules that `MCBackend` joins, `AssistantProofs` those of `Workspace` and `Assistant` | extends the module of its name |

Definitions marked "Fault:" stand next to the definition they are a plausible
mistake in; nothing uses them. Each checked property fails when its fault
replaces the definition.

### ComputerUse

`row` is the table, with the columns the runtime decides on; `configuration`
appears as its keys that matter, `grant` (`approval_granted_for_step`),
`attn`/`about` (`attention`) and `link` (`agent_task_id`), which `WithConfig`
writes together because the code saves the JSON column as one value. `done` is
the set of steps in `result["steps"]`. Steps are numbered from 1, and 0 is "no
grant". `cpc`, `cop`, `copy` are the control state, operation and in-memory
instance of each request handler; `wpc`, `wop`, `loc`, `replans` those of each
worker. `jobs` counts submitted runs, `holder` is the lock table of each
process, `notice` the last status published. `approved`, `acted` and `late` are
history and guard nothing. Each action is one statement or one tool call:

| code | actions |
| --- | --- |
| `create`, `dispatch` | `Create`; `Submit`, then `SaveQueueConfig` with the handler's own copy |
| `BuiltinAgents.browser` | `LinkRead`, `LinkSave` |
| `cancel`; `resume` | `CancelRead`, `CancelSave` (three columns); `ResumeRead`, `ResumeSave` (four columns), then `dispatch` |
| `run` | `Take`, `FailOrphan` or `Acquire` |
| `_run_locked` | `CancelBeforeStart`, `Start`, `Check` (loop head), `Mark`, `Tool`, `Record`, `Replan`, `SavePlan`, `Save`, `Publish` |
| process death | `Crash` |

`Tool` chooses among the outcomes the code distinguishes: success, a blocker, a
missing confirmation, a cancellation seen while waiting, a failure before or
after the browser acted (`MayPerform`: the observation after the action may raise
too), any other exception. A consequential step is performed
only when the run passes `confirmed`, that is when `grant` is the current step.
`LastStep` models `ECHO_COMPUTER_USE_MAX_STEPS`: the plan a run starts with is
cut, one it makes itself is not. `QueueSurvives = FALSE` is the thread pool,
whose crash loses waiting jobs and requests; `TRUE` is the Celery broker.

**Refinement.** `ComputerUse` instantiates `OperationLifecycle` as `Lifecycle`,
with `row`, `cpc`, `jobs`, `wpc`, `loc` and `notice` mapped to a status, the
cancellations accepted and not stored, the runs owed and in progress, the ends
stored and not told, and the status last told; `ImplementsLifecycle ==
Lifecycle!Spec` is checked as a property. The life cycle says for instance that
a run stores how it ended before it tells, and tells what it stored.

### StepPlanner

A command (`Asked`) is a record of what the planner's regular expressions find
in it. `Deterministic` concatenates what the rules make of it in the code's
order (`Opened`, `Researched`, `Searched`, `Scrolled`, `Chosen`, `Played`,
`Understood`); `Kept` filters a model's plan. `Receive` … `StartModelled` are the
branches of `ComputerUseCommandRouter.handle`. Each tool is an action (`Open`,
`Search`, `ScrollUntil`, `Analyze`, `Act`), or `Refuse` when `Accepts` says that
its input does not satisfy `Schema`. `Record` says when a media record has
evidence; `AnswerMedia` answers from the newest one that has not failed. A
failed step ends the plan: replanning belongs to `ComputerUse`.

### BrowserTarget and BrowserSession

`BrowserTarget` is `resolve_element` as functions: the candidates of a target by
kind, their scores, the one that wins, and whether `BrowserSafetyPolicy` asks for
a confirmation. `BrowserSession` has the row (`active`), the backend table
(`backend`, `made`), what each browser shows, `moved` media, the `lock`, and the
calls.

| code | actions |
| --- | --- |
| a tool looks up session and backend, then waits | `Ask`, `Lock` |
| observe, act, observe, compare | `Observe`, `LookFails`, `Perform`, `Compare` |
| `_browser_search`, `_browser_scroll_until` | `Search`, `ScrollUntil` |
| `analyze_current` | `Analyse`, `Sample`, `Restore` |
| run of an operation | `Continue`, `EndRun` (the lock is kept in between) |
| `close` (no lock) | `Close`, then `Quit` |
| the page | `Drift` |

### AgentOrchestration and IntentRouter

A prompt is a verb and a set of marks (what the expressions find). `Classify`,
`Decide` and `AgentOf` are the rules in their order. `root` and `child` are the
`AgentTask` rows, `op` the operation's row, `mem` its run's copy, `snap` the rows
a cancelling or approving request read, `jobs` the runs that wait for the
session. Every read and every save of a request is a step of its own.

| code | actions |
| --- | --- |
| `execute` | `Receive`, `CreateRoot`, `Delegate`, `CompleteChild`, `CompleteRoot` |
| agents | `AgentWorks`; `BrowserAnswers` (no operation: an answer about a video, a missing environment, help needed), `AgentStarts`, `AgentLinks`; `AgentUnready` |
| the run and `_publish_completion` | `OperationLoads`, `OperationChecks`, `OperationEnds`, `OperationSaves`, `PublishChild`, `PublishUnlinked`, `PublishRoot` |
| `cancel_latest`, `AgentTaskCancelView` | `CancelRead`, `CancelRoot`, `CancelChild`; `CancelLooks`, `CancelOperation` (`ComputerUseOperationService.cancel`) |
| `AgentTaskApproveView` | `ApproveRead`, `ApprovePerform`, `ApproveChild`, `ApproveRoot`; `ResumeLooks`, `ApproveResume` (`resume`), `ResumeSubmits`, `ResumeConfigures` (`dispatch`), `ApproveRunning` |

`seen`, `acts`, `posts`, `resumes` and `again` are history. What holds whatever
overlaps is `StatusHasCause` and `PostActionsOnce`; that the tree agrees with the
operation, that a cancellation reaches it and that a grant is used once are
promises of the documents which overlapping writers break;
`AgentOrchestration_limits` shows how.

### DesktopControl

`active` and `shown` are the desktop, `req` the requests, `pending` the
approval payloads stored in agent tasks. A request (`Prompt`, `CallApi`,
`Approve`) becomes a list of tool calls; a call is prepared, observed, performed
(`Perform`, or `Launch`, `OpenPath`, `Focus`, `Control`) and verified. A screen is
not kept: a request knows only whether it changed since it looked. `Answers`
gives for each window those whose title holds a word of what it is asked for by,
as the code tests titles (`Meant`, `Listed`, `Evident`): of the two windows of
the runs one answers to the other's name. `Person` is everybody else at the
desktop, other requests included.

### ToolRegistry

`registry`, `duplicates`, `errors` and the flags are the fields of
`ToolRegistry` and `ToolExecutor`; `held` is its re-entrant lock. `Discover`,
`Ensure`, `Lock`, `Load` (one provider, which may raise after its first tools),
`Loaded`, `Unlock`, `Ensured`, `Read` are the steps of a thread. `RegistryInit`
is the process after `ToolManagerConfig.ready`, where some providers failed.

### VoiceSession

`row` has the columns the service decides on: `state`, `mode`, `exp`
(`active_expires_at`), `ended`, `mic` and `synth`. `choice` is the profile's
`voice_shutdown`; `req` the request of each handler, with its in-memory row;
`clock` counts in units of `Timeout`; `off` (the user's last word on shutdown),
`after` (the request came for a session already shut down) and `raised` are
history. A service method is the reads it decides on and its commit; a session
that is deleted meanwhile is not found (`Lost`), or inserted again by a save of
the whole row.

| code | actions |
| --- | --- |
| `start`; `current_or_start`; `mark_greeted` | `Start`; `RuntimeRead`, `RuntimeCreate`, `RuntimeResume`; `GreetRead`, `GreetSave` |
| `transition` | `ReportRead` (the browser's report, by `Allowed`) or `MoveRead` (forced); `MoveSave` (the whole row) |
| `activate`, `disable`, `shutdown`; profile | a read and a save each |
| `serialize`, `enforce_active_window` | `View`, `Respond` |
| `ingest` | `IngestRead`, `Window`, then `Refuse`, `Ignore`, `HearWake` with `WakeConfig`, or `HearCommand`; `Touch`, `AgentAnswers`, `AnswerRaises` (the statements outside the `try`) or `AgentFails`; `Touch`, `Act` or `ActCapture` |
| `synthesize`, `prepare_browser`, `complete_playback` | `Reply`, `SpeakRead`, `SpeechConfig`, `SpeechReady`, `SpeechFails`, `SpeechClear`; `CompleteRead`, `CompleteSave` |
| `transcribe_upload`; `clear_voice_data`; inactivity task; process death | `UploadRead`, `SttFails`, `SttHears`; `ClearVoiceData`; `Inactivity`; `Crash` |

### VoiceData

`transcript`, `stored` (memories), `audio` (file and row of each clip), `speaker`
and `profile` are the tables; `turn`, `writing` and `cleaning` are requests and
the clean-up under way; `aged` and `decided` are history.

| code | actions |
| --- | --- |
| `ingest` with its memory step | `Transcribe`, `AgentReplied`, `AgentBroke`, `Keep`, `RememberUnasked`, `MarkRemembered`, `AnswerTurn`, `SpeakAnswer` |
| `transcribe_upload`, `persist` | `Listen`, `PersistFile`, `PersistRow`, `NotTranscribed` |
| `memory_decision`, `delete` | `Decide`, `DeleteMemory` |
| clearing, retention, clean-up | `ClearVoiceData`, `EnforceRetention`, `CleanFile`, `CleanRow` |
| speaker awareness | `Enroll`, `ClearSpeaker`, with `Matches` and `Decision` for `verify` |
| settings; deaths | `UpdateProfile`; `TurnDies`, `CleanerDies` |

### VoiceClient

The page has one thread, so what happens between two `await`s is one step. `page`
is `voiceRuntime` with its captures and utterances, `job` where each asynchronous
function is, `stray` the requests whose function is gone, `server` the newest
session as the service's methods change it. A request is issued, served (`Serve`)
and seen in three steps, and may be lost (`Lose`; a request that is lost may still have been served). The other actions are named
after the functions and events of `echo.js`; `User` groups the clicks, `Reload`
the leaving and loading of the page.

### WorkflowEngine, Workspace, Assistant

`WorkflowEngine`: `Ordered` is `_ordered_steps`; an execution is created by
`Command` or `Request`, submitted (`Submit`), run (`Load`, `Step`, `Tool`,
`Finish`) and retried; its worker may die (`Die`). `effects` lists the tool calls
that took effect.

`Workspace` adds memories, knowledge and documents, each as the reads and the
write of its service. A transaction writes what it decided on although another
has committed since it read, except that `select_for_update` (`Taken`) keeps a
memory from other corrections until the commit. `Chunks` is `_chunk_text`, a text
being the lengths of its paragraphs. `Index` stores a document with its sections
in one transaction, or fails.

`Assistant` adds the commands of a conversation. Each route of
`EchoCommandService` is one action per statement: `Task…`, `Complete…`, `Plan…`,
`Project…`, `Search…`, `Delegate…`, `Workflow…`, `Chat`, `Know`, `Analyze…`, with
`AskModel`, `ModelAnswers`, `ModelFails`, `ModelResponse` for the model service.
`Result` and `Reply` make the answer; `Raised` is an exception of a route, which
the orchestrator turns into a failed answer. `Say` stores the user's message and
decides; where `decide()` raises, outside that handler, the command is lost.

### ApiRecords

A handler is the sequence of its statements: `Put` a row, `Ask` a service, `Test`
a condition. `Script` says which sequence each operation is; each runs statement
by statement (`Write`, `Mail`, `Mailbox`, `Service`, `Check`), except those whose
service is atomic (`Together`), and may end after any of them (`Ends`, `Dies`).
`Past` stores what a statement wrote, or keeps it in the transaction under way
until its last. Modelled are the operations whose rows speak of one another;
those that no report depends on are left out. The tasks
`deliver_notification` and `sync_email_account` start again from the top
(`Retries`). The tasks are registered, but nothing in the repository enqueues
them; they are modelled as they would run.

## Runs

`CHECK_DEADLOCK` is off where a system rests once its bounded requests are used
up; `desktop_shared` checks it. Each run takes less than five minutes with two
workers.

| run | instance | shows |
| --- | --- | --- |
| `one_client` | one operation the Browser Agent started, two workers, one replan, 3 requests one after another, plans with a consequential and an interruptible step | types; `ShownStepIsPerformed`: while a tool runs, the stored plan and step are those being performed; `CompletedCoversPlan`; `CancelStopsWithinAStep`; `PlansNeverApproveThemselves`: nothing consequential under a step number nobody approved; `ImplementsLifecycle` |
| `two_clients` | one operation, two handlers, two workers, 3 requests, one crash, plans with two approvals and one longer than `MaxSteps` | `ConsentRespected`: no consequential step without its own approval |
| `runs_end` | two operations of one session whose runs contend for its lock, a third that lost its session row, one request, one replan, broker queue, fair workers | `SessionSerialised`, `EveryOperationSettles` |
| `agents_tree` | one objective of every verb and set of marks, two requests that cancel or approve, services that find nothing | `StatusHasCause`: every status shown has happened; `PostActionsOnce` |
| `browser_shared` | a call of the API and an operation's run of two calls, one close, one page that changes by itself, two backends, requests of which policy and browser make different elements | `MediaIsRestored`; `OnlyTheReadingDiffers`: that difference is all that can operate a consequential control unconfirmed |
| `desktop_shared` | any request or approval, two windows one of which answers to the other's name, a person | `ApprovalComesFirst`, `TextStaysInTarget`, `EvidenceIsTrue` |
| `voice_two_tabs` | two handlers, one session | types; `Coherent`; `LaterRequestsLeaveShutdown`: a request that comes after the shutdown does not undo it |
| `voice_recorder` | one handler that is fair, one session, recordings, two answers, the window expires, the data is cleared once, one process dies | `NewerAudioHolds`, `TurnSettles` |
| `voice_client` | a page with two captures at most, in-browser or server speech, a turn with one disturbance or two disturbances | `GreetedOnce`, `DeafWhileAnswering`, `TurnEnds` |
| `client_deaf` | the same page, one capture, one turn, one click, everything fair | `ListensAgain` is violated (below) |
| `workspace_overlap` | three overlapping requests over two memories and one source of knowledge; or a document of up to three paragraphs; or any small workflow, with one retry and one crash; or two overlapping commands | `CorrectionsAreKept`, `IndexedIsComplete`, `CompletedInOrder`, `WorkflowsSettle`, `AnswersHaveEvidence`, `DecidedIsAnswered` |
| `backend` | voice data (two turns, two profiles, one crash), the registry (three threads, two providers that raise), the planner (commands of up to three expressions), two API calls of one operation | `MemoryIsConsented`, `ClearedStaysCleared`, `PlayableAudioExists`, `BootstrapIsWhole`, `PlansRunAsMeant`, `ReportsAreTrue` |

### Why the bounds are enough

Two handlers and two workers make every pair of a read and the save that relies
on it overlap, and a second run of an operation that was resumed twice; three
requests make cancel, resume and a second cancel or approval. `one_client`
serialises requests because its properties are promises to one user: with two
handlers a stale `resume` re-queues an operation that has completed since.
`two_clients` excludes replanning and delegation because `ConsentRespected`
fails with either (below); `PlansNeverApproveThemselves` is what is left of
consent when plans are replaced, and `one_client` checks it with a replan and a
delegation. In `runs_end` one request is enough to cancel the operation that
waits for the lock, or to resume one while the other holds it.

Two handlers make every pair of voice requests overlap, and one session is what
they fight for. Two reports of the page are enough for them, as the others
differ only in the name of the state. `TurnSettles` and `NewerAudioHolds` need
more of a turn, of which one handler serves one after another. Two
captures are what a recognition that ends late and its successor need. Three
paragraphs of lengths up to 9 with `Target = 4` and `Overlap = 1` reach every
branch of `_chunk_text`: a paragraph that fits, one that does not, one that is
cut twice. Workflows of two steps with up to two needs include every cycle and
unknown need of that size; three larger ones have a chain, a cycle of two and a
diamond. Three threads are two that race while a third finds the registry being
filled. A person at the desktop may do anything between any two steps, which is
why one request suffices. The parts of `backend`, and of `workspace_overlap`,
share no row, so a behaviour moves one of them.

### Fairness

Each fair specification says that what runs goes on, and nothing of users, pages,
crashes or the network. `ComputerUse`: each worker thread keeps running (a tool
call ends because page loads, waits and model calls have timeouts) and a handler
that has begun goes on. `VoiceSession`: a request is served to its end;
`TurnSettles` exempts a turn whose process may have died, which leaves the session
processing until the browser reports again. `Assistant`: submitted executions and
begun commands go on. `VoiceClient`: requests of a turn are answered or fail and
its utterances end (`TurnSpec`); for `ListensAgain` also every other job, the
timers and the microphone's grant.

### A disagreement

`docs/VOICE.md:70`: "After a normal spoken response, STT resumes automatically."
In `client_deaf` it does not: `submitVoiceTranscript` clears `processing` in its
`finally` clause and schedules nothing, and everything before it that schedules
a capture (`completeSpeechPlayback`, `recoverCaptureState`,
`deliverVoiceResponse`) runs while `processing` is set. Something else must start
listening again: a click, the page coming back into view, the end of the active
window.

### Known limits of the code

What the documents say and the code does not keep is stated as a property too.
These configurations are not among the runs; each property in them is violated,
and TLC finds each violation in seconds with `tlc -config X.cfg M` when it is the
only one in the file.

| configuration, module | property | what happens |
| --- | --- | --- |
| `ComputerUse_limits`, `MCComputerUse` | `ConsentRespected` | the approval of step 1 survives the replanning of step 1 and covers the new plan's first step (`docs/COMPUTER_USE.md:36`: "The approval applies to that step only.") |
| | `CancelIsDurable` | the final full-row save erases a cancellation stored during the last step |
| `ComputerUse_two_processes` | `SessionSerialised` | the lock is local to a process; the worker processes of the shipped unit overlap (`docs/OPERATIONS.md:72`) |
| `ComputerUse_stuck_cancel` | `CancellationEnds` | cancelling an operation that waits for the user leaves it `cancelling` for ever |
| `AgentOrchestration_limits`, `MCAgentOrchestration` | `TreeAgrees` | a run that read the operation before the Browser Agent stored the task's id in it drops the id and publishes to nobody: the tree shows a running task for ever, also with `MaxRequests = 0` (`docs/AGENT_ORCHESTRATION.md:7`) |
| | `CancelPropagates` | a cancellation that reads the task before it names its operation never reaches it (`docs/AGENT_ORCHESTRATION.md:41`) |
| | `ApprovedActionOnce` | two approvals of one waiting task both find it waiting and perform its action (`agent_manager/views.py:149`) |
| | `NothingFabricated` | `_complete_task` shows `not_found` as completed (`docs/AGENT_ORCHESTRATION.md:41`) |
| `DesktopControl_limits`, `MCDesktopControl` | `TextIsConstrained` | a window of another application whose title has a word of the application's name gets the text, undisturbed (`desktop_control.py:681`) |
| | `TargetHasFocus` | between the click on a text control and the typing another window comes to the front (`desktop_control.py:1027`) |
| | `SuccessIsVerified` | a tool whose input had no visible effect is answered as completed: its `ok` is replaced by the call's (`docs/COMPUTER_CONTROL.md:43`) |
| `BrowserSession_consent`, `MCBrowserSession` | `ConsequentialIsConfirmed` | the policy looks a target up as one string, the browser scores its words: the button pressed is not the element examined |
| `BrowserSession_ended` | `SuccessIsObserved` | the session is ended during an action; the second observation makes a new browser, whose blank page differs, and the action counts as verified |
| `VoiceSession_limits`, `MCVoiceSession` | `ShutdownPersists` | clearing the voice data deletes the shut-down session, and the next page starts one and clears the choice; so does a save of the profile read before the shutdown (`docs/VOICE.md:64`) |
| | `ShutdownIsFinal` | a request that read the session before the shutdown saves its state after it; with `ServerSTT = TRUE` a recording uploaded after it does the same with a single handler |
| | `OneRuntime` | two pages opened at once each make a runtime (`docs/VOICE.md:62`) |
| | `ActiveIsBounded` | a request saves the deadline of a row it read before another opened the active window: active mode without a deadline (`docs/VOICE.md:68`); `mark_greeted` and the inactivity task do so too |
| `VoiceClient_open_microphone`, `MCVoiceClient` | `ShutdownReleasesMicrophone` | a microphone granted after the shutdown stays open |
| `Workspace_undecided`, `MCWorkspace` | `CommandsAreAnswered` | `decide()` refers to `cls`, which is not defined, after the message was stored and outside the handler of errors: a prompt no earlier rule claims is never answered |
| `Workspace_limits` | `KnowledgeIsVersioned` | two imports for one source both keep the content they read: the content stored between is in no version |
| | `StoredOnce` | two requests that remember the same thing store it twice |
| `Workspace_inputs` | `FailureHasACause` | a workflow that is sound fails because the executor adds a `results` field that a strict schema refuses |
| `Workspace_forgets` | `QuestionIsAsked` | a question beyond the thirtieth message is not sent to the model: the oldest thirty are |

Others met while modelling, which shape the bounds and the properties:

* The Browser Agent may save a configuration it read before the user approved: a
  grant it puts back lets a step act whose number, not whose plan, was approved. A
  step that acted but failed verification keeps its approval and is performed again
  on resume.
* `browser.search` and `browser.execute_allowed_action` drop `confirmed`.
* A screen that anything changed verifies an action (`EvidenceIsTrue` speaks of
  requests nobody disturbs), and a page's own change does so in the browser.
* The inactivity task writes no `VoiceEvent`. An error while a turn's answer is
  recorded (`AnswerRaises`) leaves the session processing.
* Clearing voice data removes rows of audio but not the files, and no clean-up
  finds those; retention deletes a transcript that a late full save inserts
  again. A turn is served under the profile it read at its start.
* A crash leaves executions running and documents processing; a retried workflow
  runs its finished steps again; a cyclic definition sent through the queue stays
  queued; `autoretry_for` of the document task never fires because the service
  handles the error. Two starts of one task's timer make two running entries.
* A search whose service cannot be reached stays running; the delegated task of
  `_delegate_agent` is queued and nothing runs it.
* Of the API: an upload that fails after extraction leaves its job processing; an
  AI request is marked completed before its response is stored; overlapping
  searches lose counts of `access_count`.
* Of the page: an utterance of a watched operation does not gate the microphone;
  a recorder that fails, or overlapping captures, leave a stream open.

## Proofs

What TLC checks on a small instance TLAPS proves here for every value of the
constants: any number of operations, sessions, workers, handlers, requests,
windows, pages, commands, and all limits. Each theorem uses the assumption its
module states on the constants (types, and that `None` is not a value); what it
assumes beyond that is named in the statement and in the table. Of the thirty-six
properties of the passing runs a theorem states twenty-nine.

| module | theorem | states | assumes |
| --- | --- | --- | --- |
| `ComputerUseProofs` | `TypeCorrect` | `TypeOK` | |
| | `NoPlanApprovesItself` | `PlansNeverApproveThemselves` | |
| | `OneProcessSerialises` | `SessionSerialised` | `SingleProcess` |
| | `ShownStepCorrect`, `CompletionCoversPlan` | `ShownStepIsPerformed`, `CompletedCoversPlan` | `SingleProcess` |
| | `CancelStops` | `CancelStopsWithinAStep` | `OneClient` |
| | `LifecycleImplemented` | `ImplementsLifecycle` | `OneClient`, `NoCrash`, finite `Workers` |
| `BrowserSessionProofs` | `TypeCorrect`, `MediaIsPutBack`, `ConsentFailsByReadingOnly` | `TypeOK`, `MediaIsRestored`, `OnlyTheReadingDiffers` | |
| `AgentOrchestrationProofs` | `TreeIsTyped`, `WhatIsShownHappened`, `ResearchIsHandedOnOnce` | `TypeOK`, `StatusHasCause`, `PostActionsOnce` | |
| `DesktopControlProofs` | `ApprovalIsAskedFirst`, `TextIsNotStray`, `CompletedHadAnEffect` | `ApprovalComesFirst`, `TextStaysInTarget`, `EvidenceIsTrue` | |
| `VoiceSessionProofs` | `VoiceTypeCorrect`, `ModeMirrorsState`, `ShutdownIsHonoured` | `TypeOK`, `Coherent`, `LaterRequestsLeaveShutdown` | |
| `VoiceClientProofs` | `GreetingSpokenOnce`, `DeafWhileItAnswers` | `GreetedOnce`, `DeafWhileAnswering` | |
| `BackendProofs` | `MemoryNeedsConsent`, `ClearingIsFinal`, `AudioIsThere` | `MemoryIsConsented`, `ClearedStaysCleared`, `PlayableAudioExists` | |
| | `CompleteRegistryIsWhole` | `BootstrapIsWhole` | |
| | `RulePlansRun` | `PlansRunAsMeant` | |
| | `ReportsHold` | `ReportsAreTrue` | |
| `AssistantProofs` | `CorrectionsAreWhole` | `CorrectionsAreKept` | |
| | `AnswersAreTrue` | `AnswersHaveEvidence` | |
| | `WorkflowsRunInOrder`, `OrderIsSound` | `CompletedInOrder`, `OrderIsRight` | |
| | `DocumentsAreComplete` | `IndexedIsComplete` | |

None of the properties is inductive. What each argument adds to them:

**ComputerUse.** `TypeInv` adds to `TypeOK` that whoever is busy has an
operation, that the current step lies in the plan at the tool, and that a replan
is only under way below its limit. `LockInv` says that each run in the locked
part holds its session's lock in its process, which excludes a second one if all
workers live in one process; `ComputerUse_two_processes` is the counterexample
without that. `Progress` says that rows and copies have a result for every step
before the current one, that a run's copy agrees with the row while a step is
performed, that a completed row has no step left, and that nothing works on an
operation that does not exist. Its proof goes through `RunKeeps`, which states
once what a step inside the locked part must show, and `HandlerKeeps`, the same
for request handlers; `OnlyRun` (from `LockInv`) is why no other run can disturb
the agreement.

A grant is a number that is carried from copy to copy: a run may save the one it
started with, the Browser Agent one it has read. `GivenInv` says that wherever a
grant is found, in a row, a run's copy or a handler's, the user was asked under
that number and resumed; that takes no assumption on processes, handlers, replans
or delegation. That the approved plan is the one performed would take more, and
the code does not give it (`ComputerUse_limits`).

With one serving thread (`OneClient`) `LoneInv` counts: of one operation there is
one run at most, waiting, about to be submitted or under way, and none once the
row has ended. `LateInv` says where a run can be after an accepted cancellation
and how many steps it has performed since. The refinement uses `LoneInv` too: a
run that ends stores over the row it started from. `LifecycleStep` shows for each
action that the mapped variables take one step of `OperationLifecycle` or none;
the counters of the mapping (requests accepted, runs owed) are cardinalities,
hence finite `Workers`. A crash of a process loses runs that the life cycle
counts as owed, so that part is proved without crashes (as it is checked).

**BrowserSession.** `SessionInv` says of each call what its record means: which
backend it uses and that the table has it, what it saw, what it moved. The policy
and the browser both read the page that was observed before the action, and a
target that vision finds is examined again; so when a consequential control is
operated unconfirmed the call's own record shows a page on which the two readings
differ.

**AgentOrchestration.** `TreeInv` has three parts. `Types`. `CauseInv` says for
each of the three rows, the copies of the run and of the requests, and for what a
request is about to write, what its status rests on; so a stale copy can put back
an old status but none that never happened. `CountInv` counts the runs that may
still hand research on (`Due`: those that have, wait, are under way, or are about
to be submitted by a resumption): one, and one more for each resumption of an
interruption that another request had resumed already; a row that ended without
success leaves room for the run of one resumption. `Due` counts requests, and
`Pending` is finite because a step adds one at most.

**DesktopControl.** `GoodRequest` says of one request and the window in front
what it has been told, observed and touched. Who is not disturbed is alone, so
nobody's step takes anything from it.

**VoiceSession.** `VoiceInv` says that every copy a handler holds is well formed,
that a request past its start names a session, and that the greeting, which saves
the state without the columns that go with a shutdown, never holds a copy that is
shut down. `ColumnsAreGood` says which columns may be written over another row,
`StepKeeps` what a handler's step must show. `LateInv` says where a request can
be that came for a session already shut down: it has answered, is looking at a
copy that is shut down, or saves a shutdown again.

**VoiceClient.** `ClientInv` has four parts. A request knows no session beyond
the newest. Whoever may still say the greeting (`Greeter`) has the answer that
its marker is stored, and whatever was said belongs to a session whose marker is
stored (`Past`). Only one capture is heard, and it is stopped by what begins an
answer; a microphone granted later looks again. A page that is loading has no
jobs. `Captures` must be finite because the two-at-once escape of
`DeafWhileAnswering` is a cardinality.

**VoiceData, ToolRegistry, StepPlanner.** A turn goes one way, and what it began with (the
session and the profile it read) never changes: `TalkInv` states for every stored
row which turn wrote it and what had been decided then. `AudioInv` pairs files and
rows through `persist` and the clean-up. `RegistryInv` says what the thread that
holds the lock has put in the registry so far; that names of tools are distinct
is an assumption (a duplicate is reported and skipped). The rules make steps of a
few forms (`RuleSteps`), each of which `_validate_steps` accepts as it stands;
`PlannerInv` says which of them a plan under way consists of.

**ApiRecords.** A report speaks of rows that other statements wrote, so the
invariant (`ApiInv`) ties rows to statements: every row of a call was written by a
statement that is committed, or is what a task begins with or a failure leaves;
what a committed statement wrote stands unless a later statement of the same call
replaced it; an open transaction holds what its own statements wrote, and nothing
of it is stored yet; a call past its e-mail has sent it. A call
ends after a prefix of its script, so each report follows from the places of the
statements in it: `SearchOrder`, `UploadOrder`, ..., `DeliveryOrder`, one for each
kind of script. The scripts have loops of any number of items; `Flattened` opens
a loop once, into the statements of each item in turn, by the least number of
items at which that fails, and the scripts are typed and ordered from it.

**WorkflowEngine, Workspace, Assistant.** `ExecutionsInv` says that what an
execution stores, or its worker's copy holds, is the first steps of the order
with the last effect of each, and that only a running row has an attempt at a
step. `OrderIsRight` says of every definition that an order has each step once,
after the steps it needs, and that only a cycle has none (TLC also evaluates it,
`InstanceIsOrdered` in `MCWorkspace`). Its proof follows the loop of
`_ordered_steps` turn by turn (`Halfway`): what is in the order, in the queue and
counted down is always what waits for nothing outside the order, each step once,
and after as many turns as there are steps the queue is empty (`WalkEnds`). The
induction over the turns takes the least number at which the claim fails
(`LeastOf`), since the library's induction theorems take an operator.

A correction selects its memory's row for update before it reads it: `HeldRows`
(in `WorkspaceInv`) says that whoever has selected a row has read what is in it
and is alone in that, and the version a correction stores is therefore the content
it replaces. `AnswersInv` says for each route and each of
its statements which rows are there already; rows are added and never removed.
`FilesInv` says that a document that is indexed has the sections of its own text;
`SectionsAreComplete` follows `_chunk_text` paragraph by paragraph: the sections
so far and the current one show exactly the paragraphs taken.

### What is model-checked only

* Liveness: `EveryOperationSettles`, `TurnSettles`, `WorkflowsSettle`,
  `DecidedIsAnswered`, `TurnEnds` (fairness and `ENABLED`).
* `ConsentRespected`, which holds only while plans are neither replaced nor
  written by two parties, and `NewerAudioHolds`, which holds while one handler at
  a time serves the session.

## Not modelled

* Authentication: accounts, tokens and the framework's machinery. A reset token
  is tested and then marked used in two statements.
* The generic CRUD API, through which an owner may set any column, and the
  settings: the models describe what the runtime does to rows nobody edits.
* Time tracking, calendar scheduling, dashboard layouts, import and roll-back of
  knowledge, the code assistant and the vector index: their rows speak of no others
  and no document promises anything of their overlaps.
* Calls of external services (speech, models, IMAP, HTTP): I/O; that they
  fail, and when, is modelled where they are called.
* Contents: pages beyond their elements, texts, times other than the voice
  window, scores of retrieval, embeddings, extraction of text from files, regular
  expressions (what they find is an input), the wake cooldown's time stamp.
* Pages of the dashboard and API handlers that read rows or write one.
* Tabs, downloads and cookies of the browser; discovery of applications, UI trees
  and OCR of the desktop; the core tools and `browser.execute_allowed_action`.
* Enrolment capture and rendering in the page.
* Failures of the database itself.

## Plan

1. Done: the modules and runs above.
2. Done: the theorems above.
3. Next: in `DesktopControl` the follow-ups of a search
   (`desktop_control.py:711`: scroll, click, press a key, open), where a click may
   raise another window before text is typed.
