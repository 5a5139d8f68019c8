----------------------------- MODULE Workspace -----------------------------
(***************************************************************************)
(* The services of the workspace that keep rows: requests that overlap     *)
(* read tables, decide and write in a transaction; documents are processed *)
(* and workflows executed by tasks.  The database is PostgreSQL at its     *)
(* default isolation: a transaction writes what it decided on although     *)
(* another one committed since it read, unless it selected the row for     *)
(* update, which keeps the row from those that do so too.                  *)
(***************************************************************************)
EXTENDS WorkflowEngine

CONSTANTS
  Requests,     \* requests of users and of agents' tools
  Facts,        \* contents of memories and of knowledge documents
  Memories,     \* memories that can be made
  Documents,    \* uploaded files
  Texts,        \* what can be extracted from a file: the lengths of its paragraphs
  Target,       \* length of a section, and of what it repeats of the one before
  Overlap,
  None

ASSUME WorkspaceAssumption ==
  /\ None \notin [content : Facts, versions : Seq(Facts)]
  /\ Texts \subseteq Seq(Nat \ {0}) /\ Target \in Nat \ {0} /\ Overlap \in Nat

VARIABLES
  memory,     \* active memories, by identifier: [content, versions], or None
  gone,       \* memories that were deleted
  knowledge,  \* documents of one source: a sequence of [content, versions]
  file,       \* uploaded documents and their jobs
  request     \* requests being served

tables    == <<memory, gone, knowledge>>
recorded  == <<tables, file, request>>

NoFile == [status |-> "none", job |-> "none", text |-> <<>>, content |-> FALSE, sections |-> <<>>,
           linked |-> FALSE, pc |-> "none"]
NoRequest == [pc |-> "none", kind |-> "none", on |-> None, fact |-> None, seen |-> None]

WorkspaceInit ==
  /\ EngineInit
  /\ memory = [m \in Memories |-> None]
  /\ gone = {}
  /\ knowledge = <<>>
  /\ file = [d \in Documents |-> NoFile]
  /\ request = [r \in Requests |-> NoRequest]

Served   == {r \in Requests : request[r].pc # "none"}
Uploaded == {d \in Documents : file[d].status # "none"}
Begun    == {e \in Executions : client[e].by # "none"}

\* Executions, documents and the rows of the other services have nothing in common: a
\* behaviour has one of the three.
CanArrive == Uploaded = {} /\ Begun = {}
CanUpload == Served = {} /\ Begun = {}
CanBegin  == Served = {} /\ Uploaded = {}

-----------------------------------------------------------------------------
(* Transactions *)

Kinds == {"remember", "correct", "forget", "ingest"}

\* The request is over: what it wrote is committed, or it had nothing to write.
Ended(r) == request' = [request EXCEPT ![r].pc = "done"]

Arrive(r) ==
  /\ request[r].pc = "none"
  /\ \E kind \in Kinds, on \in Memories \cup {None}, fact \in Facts \cup {None} :
       /\ kind \in {"correct", "forget"} <=> on # None
       /\ kind \in {"remember", "correct", "ingest"} <=> fact # None
       /\ request' = [request EXCEPT ![r] = [NoRequest EXCEPT !.pc = "read", !.kind = kind, !.on = on, !.fact = fact]]
  /\ UNCHANGED <<tables, file, engineVars>>

Read(r, kind)  == request[r].pc = "read" /\ request[r].kind = kind
Write(r, kind) == request[r].pc = "write" /\ request[r].kind = kind

Saw(r, what) ==
  /\ request' = [request EXCEPT ![r].pc = "write", ![r].seen = what]
  /\ UNCHANGED <<tables, file, engineVars>>

-----------------------------------------------------------------------------
(* Memories *)

Known(fact) == {m \in Memories : memory[m] # None /\ memory[m].content = fact}

\* remember: a memory with this content is looked for among the active ones.
RememberRead(r) ==
  /\ Read(r, "remember")
  /\ IF Known(request[r].fact) = {} THEN Saw(r, None)
     ELSE \E m \in Known(request[r].fact) : Saw(r, m)

\* A memory found is only given better scores, if it is still there; a new one starts with
\* a snapshot of its content.
RememberWrite(r) ==
  /\ Write(r, "remember")
  /\ IF request[r].seen = None
     THEN \E m \in Memories \ gone :
            /\ memory[m] = None
            /\ memory' = [memory EXCEPT ![m] = [content |-> request[r].fact, versions |-> <<request[r].fact>>]]
     ELSE UNCHANGED memory
  /\ Ended(r)
  /\ UNCHANGED <<gone, knowledge, file, engineVars>>

\* The row that r asks for is locked by a transaction that selected it for update.
Taken(r) ==
  \E q \in Requests \ {r} :
    request[q].pc = "write" /\ request[q].kind \in {"correct", "forget"} /\ request[q].on = request[r].on

\* Fault: update reads the row like any other reader.
CorrectReadUnlocked(r) ==
  /\ Read(r, "correct")
  /\ IF memory[request[r].on] = None THEN Ended(r) /\ UNCHANGED <<tables, file, engineVars>>
     ELSE Saw(r, memory[request[r].on])

\* update waits for the row, and keeps it until the commit.
CorrectRead(r) ==
  /\ Read(r, "correct") /\ ~Taken(r)
  /\ IF memory[request[r].on] = None THEN Ended(r) /\ UNCHANGED <<tables, file, engineVars>>
     ELSE Saw(r, memory[request[r].on])

\* The content that is replaced is kept as the next version.
CorrectWrite(r) ==
  /\ Write(r, "correct")
  /\ memory' = [memory EXCEPT ![request[r].on] =
                  [content |-> request[r].fact,
                   versions |-> Append(request[r].seen.versions, request[r].seen.content)]]
  /\ Ended(r)
  /\ UNCHANGED <<gone, knowledge, file, engineVars>>

ForgetRead(r) ==
  /\ Read(r, "forget") /\ ~Taken(r)
  /\ IF memory[request[r].on] = None THEN Ended(r) /\ UNCHANGED <<tables, file, engineVars>>
     ELSE Saw(r, None)

\* A memory goes with its snapshots.
ForgetWrite(r) ==
  /\ Write(r, "forget")
  /\ memory' = [memory EXCEPT ![request[r].on] = None]
  /\ gone' = gone \cup {request[r].on}
  /\ Ended(r)
  /\ UNCHANGED <<knowledge, file, engineVars>>

-----------------------------------------------------------------------------
(* Knowledge of one source *)

\* ingest looks for a document of the source.
IngestRead(r) ==
  /\ Read(r, "ingest")
  /\ IF knowledge = <<>> THEN Saw(r, None)
     ELSE \E i \in DOMAIN knowledge : Saw(r, [at |-> i, content |-> knowledge[i].content])

\* It is updated, with the content that was read as a version, or created.
IngestWrite(r) ==
  /\ Write(r, "ingest")
  /\ LET seen == request[r].seen
         fact == request[r].fact
     IN  knowledge' = IF seen = None THEN Append(knowledge, [content |-> fact, versions |-> <<>>])
                      ELSE [knowledge EXCEPT ![seen.at] =
                              [content |-> fact, versions |-> Append(@.versions, seen.content)]]
  /\ Ended(r)
  /\ UNCHANGED <<memory, gone, file, engineVars>>

-----------------------------------------------------------------------------
(* Documents *)

\* A text is the sequence of its places: the k-th of paragraph i is <<i, k>>.
Paragraph(text, i) == [k \in 1 .. text[i] |-> <<i, k>>]
LastOf(places, n)  == SubSeq(places, IF Len(places) > n THEN Len(places) - n + 1 ELSE 1, Len(places))

\* A paragraph that is too long by itself, in pieces that overlap.
Pieces(places) ==
  LET step == IF Target > Overlap THEN Target - Overlap ELSE 1
      n    == (Len(places) + step - 1) \div step
  IN  [i \in 1 .. n |-> SubSeq(places, (i - 1) * step + 1,
                                (IF (i - 1) * step + Target < Len(places) THEN (i - 1) * step + Target ELSE Len(places)))]

\* Fault: a section that is full is left for the next one without being kept.
FittedForgetful(s, places) ==
  IF Len(s.current) + Len(places) <= Target THEN [s EXCEPT !.current = @ \o places]
  ELSE IF s.current # <<>> THEN [s EXCEPT !.current = LastOf(@, Overlap) \o places]
  ELSE [s EXCEPT !.chunks = @ \o Pieces(places)]

\* _chunk_text takes one more paragraph: into the current section, if it still fits.
Fitted(s, places) ==
  IF Len(s.current) + Len(places) <= Target THEN [s EXCEPT !.current = @ \o places]
  ELSE IF s.current # <<>>
       THEN [chunks |-> Append(s.chunks, s.current), current |-> LastOf(s.current, Overlap) \o places]
  ELSE [s EXCEPT !.chunks = @ \o Pieces(places)]

\* The sections after each paragraph.
Sections(text) ==
  LET s[i \in 0 .. Len(text)] ==
        IF i = 0 THEN [chunks |-> <<>>, current |-> <<>>] ELSE Fitted(s[i - 1], Paragraph(text, i))
  IN  s

Chunks(text) ==
  LET s == Sections(text)[Len(text)]
  IN  IF s.current = <<>> THEN s.chunks ELSE Append(s.chunks, s.current)

Upload(d) ==
  /\ file[d].pc = "none"
  /\ \E text \in Texts : file' = [file EXCEPT ![d].status = "uploaded", ![d].text = text, ![d].pc = "task"]
  /\ UNCHANGED <<tables, request, engineVars>>

\* process: the job, then the document, say that the work has begun.
TakeJob(d) ==
  /\ file[d].pc = "task"
  /\ file' = [file EXCEPT ![d].job = "running", ![d].pc = "begin"]
  /\ UNCHANGED <<tables, request, engineVars>>

TakeDocument(d) ==
  /\ file[d].pc = "begin"
  /\ file' = [file EXCEPT ![d].status = "processing", ![d].pc = "extract"]
  /\ UNCHANGED <<tables, request, engineVars>>

\* What is stored together when a document is indexed.
Indexed(q) == [q EXCEPT !.content = TRUE, !.sections = Chunks(q.text), !.linked = TRUE,
                        !.status = "indexed", !.job = "completed", !.pc = "over"]

\* The text, its sections, the document and the job are stored together, or none of them;
\* nothing to read, or a failure, leaves it to the handler of the exception.
Index(d) ==
  /\ file[d].pc = "extract"
  /\ \/ file[d].text # <<>> /\ file' = [file EXCEPT ![d] = Indexed(@)]
     \/ file' = [file EXCEPT ![d].pc = "fail"]
  /\ UNCHANGED <<tables, request, engineVars>>

\* The document is stored with what was set before the failure, which may be the links to
\* rows that were rolled back.
FailDocument(d) ==
  /\ file[d].pc = "fail"
  /\ \E linked \in BOOLEAN :
       file' = [file EXCEPT ![d].status = "failed", ![d].linked = linked, ![d].pc = "close"]
  /\ UNCHANGED <<tables, request, engineVars>>

FailJob(d) ==
  /\ file[d].pc = "close"
  /\ file' = [file EXCEPT ![d].job = "failed", ![d].pc = "over"]
  /\ UNCHANGED <<tables, request, engineVars>>

-----------------------------------------------------------------------------
Serve(r) ==
  \/ RememberRead(r) \/ RememberWrite(r) \/ CorrectRead(r) \/ CorrectWrite(r)
  \/ ForgetRead(r) \/ ForgetWrite(r) \/ IngestRead(r) \/ IngestWrite(r)

Process(d) == TakeJob(d) \/ TakeDocument(d) \/ Index(d) \/ FailDocument(d) \/ FailJob(d)

\* The requests and tasks above, one kind of them in a behaviour.
WorkspaceNext ==
  \/ \E e \in Executions : CanBegin /\ (Command(e) \/ Request(e)) /\ UNCHANGED recorded
  \/ \E e \in Executions : (Proceed(e) \/ Die(e)) /\ UNCHANGED recorded
  \/ \E r \in Requests : (CanArrive /\ Arrive(r)) \/ Serve(r)
  \/ \E d \in Documents : (CanUpload /\ Upload(d)) \/ Process(d)

-----------------------------------------------------------------------------
(* Properties *)

\* However corrections, deletions and new memories overlap, a memory that gets another content
\* keeps as its last version the content that it had, and all its versions before.
CorrectionsAreKept ==
  [][\A m \in Memories : memory[m] # None /\ memory'[m] \notin {None, memory[m]} =>
       memory'[m].versions = Append(memory[m].versions, memory[m].content)]_<<memory>>

\* What is known about a source is versioned as well: a document that gets another content
\* keeps the content that it had.
KnowledgeIsVersioned ==
  [][\A i \in DOMAIN knowledge : knowledge'[i] # knowledge[i] =>
       knowledge'[i].versions = Append(knowledge[i].versions, knowledge[i].content)]_<<knowledge>>

\* A memory is stored, or recognised: none is made while there is one with its content.
StoredOnce ==
  [][\A m \in Memories : memory[m] = None /\ memory'[m] # None =>
       Known(memory'[m].content) = {}]_<<memory>>

\* A document that is shown as indexed has its text and its links, its job agrees, and its
\* sections show every place of the text, none of them longer than two sections' length
\* unless a paragraph is.
IndexedIsComplete ==
  \A d \in Documents : file[d].status = "indexed" =>
    LET text  == file[d].text
        parts == file[d].sections
    IN  /\ file[d].content /\ file[d].linked /\ file[d].job = "completed"
        /\ UNION {ToSet(parts[i]) : i \in DOMAIN parts} = UNION {ToSet(Paragraph(text, i)) : i \in DOMAIN text}
        /\ \A i \in DOMAIN parts : Len(parts[i]) > Target + Overlap =>
             \E k \in DOMAIN text : text[k] > Target /\ <<k, 1>> \in ToSet(parts[i])
=============================================================================
