----------------------------- MODULE ApiRecords -----------------------------
(***************************************************************************)
(* The compatibility API's operations that write several records which     *)
(* speak of one another.  Each is the sequence of its statements in the    *)
(* order of the handler: a row, a service that may fail, a test.  A        *)
(* statement is a transaction of its own unless the handler's service is   *)
(* atomic; a request may end after any of them, because it raises or       *)
(* because its process dies.                                               *)
(***************************************************************************)
EXTENDS Integers, Sequences, SequencesExt, FiniteSetsExt

CONSTANTS
  Calls,         \* requests and tasks
  Requests,      \* what they may ask: [op, items, channel, allowed, recipient]
  MaxDelivery,   \* retries of the task that delivers a notification
  MaxSync        \* retries of the task that reads a mailbox

Operations ==
  {"upload", "search", "fetch", "crawl", "download", "plan", "restore", "notify", "deliver",
   "generate", "aggregate", "sync", "sync_task"}

ASSUME ApiAssumption ==
  /\ MaxDelivery \in Nat /\ MaxSync \in Nat
  /\ Requests \subseteq [op : Operations, items : Nat, channel : STRING,
                         allowed : BOOLEAN, recipient : BOOLEAN]

-----------------------------------------------------------------------------
(* Statements *)

Put(kind, n, status) == <<[do |-> "put", kind |-> kind, n |-> n, status |-> status]>>
Ask(service)         == <<[do |-> "ask", kind |-> service, n |-> 0, status |-> ""]>>
Test(thing, n)        == <<[do |-> "test", kind |-> thing, n |-> n, status |-> ""]>>

\* The statements of a loop over the items of a request.
For(n, Body(_)) == FlattenSeq([i \in 1 .. n |-> Body(i)])

\* Fault: the job is done as soon as the text could be extracted.
UploadEarly(q) ==
  Put("file", 1, "stored") \o Put("job", 1, "processing") \o Ask("extractor")
    \o Put("job", 1, "completed") \o Put("document", 1, "ready") \o Put("content", 1, "ready")

Upload(q) ==
  Put("file", 1, "stored") \o Put("job", 1, "processing") \o Ask("extractor")
    \o Put("document", 1, "ready") \o Put("content", 1, "ready") \o Put("job", 1, "completed")

SearchWeb(q) ==
  Put("query", 1, "running") \o Ask("search")
    \o For(q.items, LAMBDA i : Put("result", i, "retrieved")) \o Put("query", 1, "completed")

Fetch(q)    == Ask("fetch") \o Put("page", 1, "fetched")
Crawl(q)    == Fetch(q) \o Put("crawl", 1, "completed")
Download(q) == Ask("fetch") \o Put("file", 1, "stored") \o Put("download", 1, "completed")

\* A plan, its milestones in order, and its risks.
BuildPlan(q) ==
  Put("plan", 1, "ready") \o For(q.items, LAMBDA i : Put("step", i, "pending"))
    \o For(q.items, LAMBDA i : Put("risk", i, "open"))

\* An object that is malformed, or not one of the projects', raises.
Restore(q) == For(q.items, LAMBDA i : Test("item", i) \o Put("project", i, "active"))

\* The answer is stored after its request is marked; a failure is marked as well.
Generate(q) ==
  Put("request", 1, "running") \o Ask("model") \o Put("request", 1, "completed")
    \o Put("response", 1, "completed")

Aggregate(q) ==
  Put("metric", 1, "active") \o For(q.items, LAMBDA i : Put("point", i, "computed"))
    \o Put("aggregate", 1, "completed")

\* The preference is tested before the channel, the channel before the recipient.
Delivery(q) ==
  IF ~q.allowed THEN Put("delivery", 1, "suppressed")
  ELSE CASE q.channel = "database" -> Put("notice", 1, "delivered") \o Put("delivery", 1, "delivered")
         [] q.channel = "email" /\ q.recipient ->
              Ask("mail") \o Put("notice", 1, "delivered") \o Put("delivery", 1, "delivered")
         [] OTHER -> Test("never", 0)

Notify(q)  == Put("notice", 1, "queued") \o Delivery(q)

\* The header of a message may be missing: the message is skipped.
Sync(q) ==
  Ask("mailbox")
    \o For(q.items, LAMBDA i : Ask("header") \o Put("thread", i, "active") \o Put("message", i, "synchronized"))
    \o Put("account", 1, "active")

Script(q) ==
  CASE q.op = "upload"   -> Upload(q)    [] q.op = "search"  -> SearchWeb(q)
    [] q.op = "fetch"    -> Fetch(q)     [] q.op = "crawl"   -> Crawl(q)
    [] q.op = "download" -> Download(q)  [] q.op = "plan"    -> BuildPlan(q)
    [] q.op = "restore"  -> Restore(q)   [] q.op = "notify"  -> Notify(q)
    [] q.op = "deliver"  -> Delivery(q)  [] q.op = "generate" -> Generate(q)
    [] q.op = "aggregate" -> Aggregate(q)
    [] q.op \in {"sync", "sync_task"} -> Sync(q)

\* The statements that are stored together or not at all.
Together(q) ==
  IF q.op \in {"plan", "restore", "deliver", "sync", "sync_task", "aggregate"} THEN DOMAIN Script(q)
  ELSE IF q.op = "notify" THEN 2 .. Len(Script(q)) ELSE {}

-----------------------------------------------------------------------------

VARIABLES
  served,   \* per call: "no", "yes", "done"
  what,     \* what it asks
  line,     \* its next statement
  open,     \* what its transaction has not stored yet
  tries,    \* retries of a task
  rows,     \* what is stored: [call, kind, n, status]
  mails     \* calls whose mail has left

apivars == <<served, what, line, open, tries, rows, mails>>

Idle == [op |-> "none", items |-> 0, channel |-> "database", allowed |-> TRUE, recipient |-> TRUE]

ApiInit ==
  /\ served = [c \in Calls |-> "no"] /\ what = [c \in Calls |-> Idle]
  /\ line = [c \in Calls |-> 1] /\ open = [c \in Calls |-> {}]
  /\ tries = [c \in Calls |-> 0] /\ rows = {} /\ mails = {}

Row(c, p) == [call |-> c, kind |-> p.kind, n |-> p.n, status |-> p.status]

\* Rows replace those with their keys; no two rows of a transaction have the same.
Stored(table, c, puts) ==
  {r \in table : r.call = c => \A p \in puts : <<r.kind, r.n>> # <<p.kind, p.n>>}
    \cup {Row(c, p) : p \in puts}

\* dispatch_operation finds the handler; a task begins with the row it is about.
Begin(c, q) ==
  /\ served[c] = "no"
  /\ served' = [served EXCEPT ![c] = "yes"] /\ what' = [what EXCEPT ![c] = q]
  /\ rows' = IF q.op = "deliver" THEN Stored(rows, c, ToSet(Put("notice", 1, "queued"))) ELSE rows
  /\ UNCHANGED <<line, open, tries, mails>>

Now(c)   == Script(what[c])[line[c]]
At(c, do) == served[c] = "yes" /\ line[c] \in DOMAIN Script(what[c]) /\ Now(c).do = do

\* Past n statements; the transaction ends with its last.
Past(c, n, puts) ==
  LET q    == what[c]
      last == line[c] + n - 1
      all  == open[c] \cup puts
      held == line[c] \in Together(q) /\ last < Max(Together(q))
  IN  /\ line' = [line EXCEPT ![c] = last + 1]
      /\ open' = [open EXCEPT ![c] = IF held THEN all ELSE {}]
      /\ rows' = IF held THEN rows ELSE Stored(rows, c, all)
      /\ UNCHANGED <<served, what, tries>>

Write(c) == At(c, "put") /\ Past(c, 1, {Now(c)}) /\ UNCHANGED mails

\* The request ends with an error; its transaction is undone.
Ends(c, puts) ==
  /\ served' = [served EXCEPT ![c] = "done"]
  /\ open' = [open EXCEPT ![c] = {}]
  /\ rows' = Stored(rows, c, puts)
  /\ UNCHANGED <<what, line, tries>>

Retries(q) == IF q.op = "deliver" THEN MaxDelivery ELSE IF q.op = "sync_task" THEN MaxSync ELSE 0

\* A RuntimeError of a task is retried, from its beginning.
Again(c) ==
  IF tries[c] < Retries(what[c])
  THEN /\ tries' = [tries EXCEPT ![c] = @ + 1]
       /\ line' = [line EXCEPT ![c] = 1] /\ open' = [open EXCEPT ![c] = {}]
       /\ UNCHANGED <<served, what, rows>>
  ELSE Ends(c, {})

\* A mail that is not confirmed did not leave; one that raises may have.
Mail(c) ==
  /\ At(c, "ask") /\ Now(c).kind = "mail"
  /\ \/ Past(c, 1, {}) /\ mails' = mails \cup {c}
     \/ Again(c) /\ UNCHANGED mails
     \/ Ends(c, {}) /\ mails' \in {mails, mails \cup {c}}

\* IMAP's errors are RuntimeErrors; a missing header skips the message.
Mailbox(c) ==
  /\ At(c, "ask") /\ Now(c).kind \in {"mailbox", "header"}
  /\ Past(c, 1, {}) \/ Again(c) \/ (Now(c).kind = "header" /\ Past(c, 3, {}))
  /\ UNCHANGED mails

\* The failures of the extractor and of the model are told to the job and to the request.
Told(service) ==
  CASE service = "extractor" -> Put("job", 1, "failed")
    [] service = "model"     -> Put("request", 1, "failed")
    [] OTHER                 -> <<>>

Service(c) ==
  /\ At(c, "ask") /\ Now(c).kind \in {"extractor", "model", "search", "fetch"}
  /\ Past(c, 1, {}) \/ Ends(c, ToSet(Told(Now(c).kind)))
  /\ UNCHANGED mails

\* An item may be as it should; a channel without a way to deliver never is.
Check(c) ==
  /\ At(c, "test")
  /\ \/ Now(c).kind = "item" /\ Past(c, 1, {})
     \/ Ends(c, {})
  /\ UNCHANGED mails

\* The answer; or the process dies, or the database fails, between two statements.
Finish(c) ==
  /\ served[c] = "yes" /\ line[c] > Len(Script(what[c]))
  /\ Ends(c, {}) /\ UNCHANGED mails

Dies(c) == served[c] = "yes" /\ Ends(c, {}) /\ UNCHANGED mails

ApiNext ==
  \E c \in Calls :
    \/ \E q \in Requests : Begin(c, q)
    \/ Write(c) \/ Mail(c) \/ Mailbox(c) \/ Service(c) \/ Check(c) \/ Finish(c) \/ Dies(c)

ApiSpec == ApiInit /\ [][ApiNext]_apivars

-----------------------------------------------------------------------------
(* Properties *)

Has(c, kind, n, status) == [call |-> c, kind |-> kind, n |-> n, status |-> status] \in rows
Some(c, kind)           == \E r \in rows : r.call = c /\ r.kind = kind

\* What a record reports is there: a completed upload has its document and text and a failed one
\* has none, a completed search all its results, a crawl its page, a download its file, a plan
\* all its steps, an aggregate all its points, an answer of the model its request; a project is
\* restored with all that came with it; a notification is delivered exactly when a delivery is
\* logged, and a logged e-mail has left; a synchronised mailbox has a thread for every message --
\* whatever fails, dies or is retried after any statement.
ReportsAreTrue ==
  \A c \in Calls :
    LET q == what[c] IN
    /\ Has(c, "job", 1, "completed") => Some(c, "document") /\ Some(c, "content")
    /\ Has(c, "job", 1, "failed") => ~Some(c, "document")
    /\ Has(c, "query", 1, "completed") => \A i \in 1 .. q.items : Has(c, "result", i, "retrieved")
    /\ Some(c, "response") => Has(c, "request", 1, "completed")
    /\ Some(c, "aggregate") => \A i \in 1 .. q.items : Has(c, "point", i, "computed")
    /\ Some(c, "crawl") => Some(c, "page")
    /\ Some(c, "download") => Some(c, "file")
    /\ Some(c, "plan") => \A i \in 1 .. q.items : Has(c, "step", i, "pending")
    /\ Has(c, "delivery", 1, "delivered") <=> Has(c, "notice", 1, "delivered")
    /\ Has(c, "delivery", 1, "delivered") /\ q.channel = "email" => c \in mails
    /\ Some(c, "project") => \A i \in 1 .. q.items : Has(c, "project", i, "active")
    /\ \A i \in 1 .. q.items :
         Has(c, "message", i, "synchronized") => Has(c, "thread", i, "active") /\ Some(c, "account")
=============================================================================
