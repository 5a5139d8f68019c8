--------------------------- MODULE AssistantProofs ---------------------------
(***************************************************************************)
(* Theorems about WorkflowEngine, Workspace and Assistant, for any number  *)
(* of executions, requests, commands, tasks, memories and documents that   *)
(* overlap.                                                                *)
(***************************************************************************)
EXTENDS Assistant, FiniteSetTheorems, SequenceTheorems, WellFoundedInduction, TLAPS

-----------------------------------------------------------------------------
(***************************************************************************)
(* Memories.  A request that corrects or forgets one has selected it for   *)
(* update: until it writes, no other request writes that memory, so what   *)
(* it read is still there.  That is the invariant the property rests on.   *)
(***************************************************************************)
Kept   == [content : Facts, versions : Seq(Facts)]
Found  == [at : Nat, content : Facts]
Record == [pc : {"none", "read", "write", "done"}, kind : Kinds \cup {"none"}, on : Memories \cup {None},
           fact : Facts \cup {None}, seen : Kept \cup Memories \cup Found \cup {None}]

TablesTyped ==
  /\ memory \in [Memories -> Kept \cup {None}]
  /\ knowledge \in Seq(Kept)

\* What a request names, and what it has found.
Names(q) ==
  /\ q.pc # "none" /\ q.kind \in {"correct", "forget"} => q.on \in Memories
  /\ q.pc # "none" /\ q.kind \in {"remember", "correct", "ingest"} => q.fact \in Facts
  /\ q.pc = "write" /\ q.kind = "ingest" => q.seen \in Found \cup {None}

\* The request holds the row of the memory it names.
Holds(q) == q.pc = "write" /\ q.kind \in {"correct", "forget"}

\* A request that holds a row has read what is in it, and holds it alone.
HeldRows ==
  /\ \A r \in Requests : Holds(request[r]) =>
       /\ memory[request[r].on] # None
       /\ request[r].kind = "correct" => request[r].seen = memory[request[r].on]
  /\ \A r, s \in Requests : Holds(request[r]) /\ Holds(request[s]) /\ request[r].on = request[s].on => r = s

RequestsTyped ==
  /\ request \in [Requests -> Record]
  /\ \A r \in Requests : Names(request[r])

WorkspaceInv == TablesTyped /\ RequestsTyped /\ HeldRows

LEMMA InitWorkspace == Init => WorkspaceInv
<1> SUFFICES ASSUME Init PROVE WorkspaceInv
    OBVIOUS
<1> USE DEF Init, WorkspaceInit
<1>1. TablesTyped
      BY DEF TablesTyped
<1>2. request \in [Requests -> Record]
      BY DEF NoRequest, Record
<1>3. \A r \in Requests : Names(request[r]) /\ ~Holds(request[r])
      BY DEF NoRequest, Names, Holds
<1> QED BY <1>1, <1>2, <1>3 DEF WorkspaceInv, RequestsTyped, HeldRows

\* A request becomes q and the tables stay: enough that q holds no row, or one that is free.
LEMMA RequestKeeps ==
  ASSUME WorkspaceInv, UNCHANGED <<memory, knowledge>>, NEW r \in Requests, NEW q \in Record,
         request' = [request EXCEPT ![r] = q], Names(q),
         Holds(q) => /\ memory[q.on] # None
                     /\ q.kind = "correct" => q.seen = memory[q.on]
                     /\ \A s \in Requests \ {r} : Holds(request[s]) => request[s].on # q.on
  PROVE  WorkspaceInv'
<1>1. TablesTyped'
      BY DEF WorkspaceInv, TablesTyped
<1>2. request' \in [Requests -> Record] /\ \A s \in Requests : request'[s] = IF s = r THEN q ELSE request[s]
      BY DEF WorkspaceInv, RequestsTyped
<1>3. RequestsTyped'
  <2>1. ASSUME NEW s \in Requests PROVE Names(request'[s])
        BY <1>2 DEF WorkspaceInv, RequestsTyped
  <2> QED BY <1>2, <2>1 DEF RequestsTyped, Names
<1>4. ASSUME NEW s \in Requests, Holds(request'[s])
      PROVE  /\ memory'[request'[s].on] # None
             /\ request'[s].kind = "correct" => request'[s].seen = memory'[request'[s].on]
      BY <1>2, <1>4 DEF WorkspaceInv, HeldRows
<1>5. ASSUME NEW s \in Requests, NEW t \in Requests, Holds(request'[s]), Holds(request'[t]),
             request'[s].on = request'[t].on
      PROVE  s = t
  <2>1. CASE s # r /\ t # r
        BY <1>2, <1>5, <2>1 DEF WorkspaceInv, HeldRows
  <2>2. CASE s = r \/ t = r
        BY <1>2, <1>5, <2>2
  <2> QED BY <2>1, <2>2
<1>6. HeldRows'
      BY <1>4, <1>5 DEF HeldRows, Holds
<1> QED BY <1>1, <1>3, <1>6 DEF WorkspaceInv

\* An answer, or an error, of a request that was being served.
LEMMA EndKeeps ==
  ASSUME WorkspaceInv, NEW r \in Requests, request[r].pc # "none", Ended(r), UNCHANGED <<memory, knowledge>>
  PROVE  WorkspaceInv'
<1> DEFINE q == [request[r] EXCEPT !.pc = "done"]
<1>1. q \in Record /\ q.pc = "done" /\ q.kind = request[r].kind /\ q.on = request[r].on /\ q.fact = request[r].fact
      BY DEF WorkspaceInv, RequestsTyped, Record
<1>2. request' = [request EXCEPT ![r] = q]
      BY DEF Ended, WorkspaceInv, RequestsTyped
<1> HIDE DEF q
<1>3. Names(q) /\ ~Holds(q)
      BY <1>1 DEF WorkspaceInv, RequestsTyped, Names, Holds
<1> QED BY <1>1, <1>2, <1>3, RequestKeeps

LEMMA ArriveKeeps ==
  ASSUME WorkspaceInv, NEW r \in Requests, Arrive(r)
  PROVE  WorkspaceInv'
<1>1. PICK kind \in Kinds, on \in Memories \cup {None}, fact \in Facts \cup {None} :
        /\ kind \in {"correct", "forget"} <=> on # None
        /\ kind \in {"remember", "correct", "ingest"} <=> fact # None
        /\ request' = [request EXCEPT ![r] = [NoRequest EXCEPT !.pc = "read", !.kind = kind, !.on = on, !.fact = fact]]
      BY DEF Arrive
<1> DEFINE q == [NoRequest EXCEPT !.pc = "read", !.kind = kind, !.on = on, !.fact = fact]
<1>2. /\ q \in Record
      /\ q.pc = "read" /\ q.kind = kind /\ q.on = on /\ q.fact = fact
      BY DEF NoRequest, Record
<1>3. request' = [request EXCEPT ![r] = q] /\ UNCHANGED <<memory, knowledge>>
      BY <1>1 DEF Arrive, tables
<1> HIDE DEF q
<1>4. Names(q) /\ ~Holds(q)
      BY <1>1, <1>2 DEF Names, Holds
<1> QED BY <1>2, <1>3, <1>4, RequestKeeps

\* A request goes on with what it has read.
LEMMA SawKeeps ==
  ASSUME WorkspaceInv, NEW r \in Requests, NEW what \in Kept \cup Memories \cup Found \cup {None},
         request[r].pc = "read", Saw(r, what),
         request[r].kind = "ingest" => what \in Found \cup {None},
         request[r].kind \in {"correct", "forget"} => ~Taken(r) /\ memory[request[r].on] # None,
         request[r].kind = "correct" => what = memory[request[r].on]
  PROVE  WorkspaceInv'
<1> DEFINE q == [request[r] EXCEPT !.pc = "write", !.seen = what]
<1>1. /\ q \in Record
      /\ q.pc = "write" /\ q.kind = request[r].kind /\ q.on = request[r].on /\ q.fact = request[r].fact
      /\ q.seen = what
      BY DEF WorkspaceInv, RequestsTyped, Record
<1>2. request' = [request EXCEPT ![r] = q] /\ UNCHANGED <<memory, knowledge>>
      BY DEF Saw, WorkspaceInv, RequestsTyped, tables
<1> HIDE DEF q
<1>3. Names(q)
      BY <1>1 DEF WorkspaceInv, RequestsTyped, Names
<1>4. Holds(q) => /\ memory[q.on] # None
                  /\ q.kind = "correct" => q.seen = memory[q.on]
                  /\ \A s \in Requests \ {r} : Holds(request[s]) => request[s].on # q.on
      BY <1>1 DEF Holds, Taken
<1> QED BY <1>1, <1>2, <1>3, <1>4, RequestKeeps

\* Every read that is followed by a write of the same request.
LEMMA ReadKeeps ==
  ASSUME WorkspaceInv, NEW r \in Requests, RememberRead(r) \/ CorrectRead(r) \/ ForgetRead(r) \/ IngestRead(r)
  PROVE  WorkspaceInv'
<1>1. request[r].pc = "read" /\ Names(request[r])
      BY DEF RememberRead, CorrectRead, ForgetRead, IngestRead, Read, WorkspaceInv, RequestsTyped
<1>2. CASE Ended(r) /\ UNCHANGED <<tables, file, engineVars>>
      BY <1>1, <1>2, EndKeeps DEF tables
<1>3. CASE RememberRead(r)
  <2>1. PICK m \in Memories \cup {None} : Saw(r, m)
        BY <1>3 DEF RememberRead, Known
  <2>2. request[r].kind = "remember"
        BY <1>3 DEF RememberRead, Read
  <2> QED BY <1>1, <2>1, <2>2, SawKeeps
<1>4. CASE CorrectRead(r) /\ memory[request[r].on] # None
  <2>1. request[r].kind = "correct" /\ ~Taken(r) /\ Saw(r, memory[request[r].on])
        BY <1>4 DEF CorrectRead, Read
  <2>2. memory[request[r].on] \in Kept \cup {None}
        BY <1>1, <2>1 DEF Names, WorkspaceInv, TablesTyped
  <2> QED BY <1>1, <1>4, <2>1, <2>2, SawKeeps
<1>5. CASE ForgetRead(r) /\ memory[request[r].on] # None
  <2>1. request[r].kind = "forget" /\ ~Taken(r) /\ Saw(r, None)
        BY <1>5 DEF ForgetRead, Read
  <2> QED BY <1>1, <1>5, <2>1, SawKeeps
<1>6. CASE IngestRead(r)
  <2>1. request[r].kind = "ingest"
        BY <1>6 DEF IngestRead, Read
  <2>2. PICK what \in Found \cup {None} : Saw(r, what)
    <3>1. CASE knowledge = <<>>
          BY <1>6, <3>1 DEF IngestRead
    <3>2. CASE knowledge # <<>>
      <4>1. PICK i \in DOMAIN knowledge : Saw(r, [at |-> i, content |-> knowledge[i].content])
            BY <1>6, <3>2 DEF IngestRead
      <4>2. i \in Nat /\ knowledge[i] \in Kept
            BY DEF WorkspaceInv, TablesTyped
      <4>3. [at |-> i, content |-> knowledge[i].content] \in Found
            BY <4>2 DEF Kept, Found
      <4> QED BY <4>1, <4>3
    <3> QED BY <3>1, <3>2
  <2> QED BY <1>1, <2>1, <2>2, SawKeeps
<1> QED BY <1>2, <1>3, <1>4, <1>5, <1>6 DEF CorrectRead, ForgetRead

\* r ends, and the memories become `rows': none that another request holds.
LEMMA WriteKeeps ==
  ASSUME WorkspaceInv, NEW r \in Requests, request[r].pc = "write", Ended(r), TablesTyped',
         \A s \in Requests \ {r} : Holds(request[s]) => memory'[request[s].on] = memory[request[s].on]
  PROVE  WorkspaceInv'
<1> DEFINE q == [request[r] EXCEPT !.pc = "done"]
<1>1. q \in Record /\ q.pc = "done" /\ q.kind = request[r].kind /\ q.on = request[r].on /\ q.fact = request[r].fact
      BY DEF WorkspaceInv, RequestsTyped, Record
<1>2. request' \in [Requests -> Record] /\ \A s \in Requests : request'[s] = IF s = r THEN q ELSE request[s]
      BY <1>1 DEF Ended, WorkspaceInv, RequestsTyped
<1> HIDE DEF q
<1>3. Names(q) /\ ~Holds(q)
      BY <1>1 DEF WorkspaceInv, RequestsTyped, Names, Holds
<1>4. RequestsTyped'
  <2>1. ASSUME NEW s \in Requests PROVE Names(request'[s])
        BY <1>2, <1>3 DEF WorkspaceInv, RequestsTyped
  <2> QED BY <1>2, <2>1 DEF RequestsTyped, Names
<1>5. \A s \in Requests : Holds(request'[s]) => s # r /\ request'[s] = request[s]
      BY <1>2, <1>3
<1>6. HeldRows'
  <2>1. ASSUME NEW s \in Requests, Holds(request'[s])
        PROVE  /\ memory'[request'[s].on] # None
               /\ request'[s].kind = "correct" => request'[s].seen = memory'[request'[s].on]
        BY <1>5, <2>1 DEF WorkspaceInv, HeldRows
  <2>2. ASSUME NEW s \in Requests, NEW t \in Requests, Holds(request'[s]), Holds(request'[t]),
               request'[s].on = request'[t].on
        PROVE  s = t
        BY <1>5, <2>2 DEF WorkspaceInv, HeldRows
  <2> QED BY <2>1, <2>2 DEF HeldRows, Holds
<1> QED BY <1>4, <1>6 DEF WorkspaceInv

\* A new memory takes the place of none that is there.
LEMMA RememberKeeps ==
  ASSUME WorkspaceInv, NEW r \in Requests, RememberWrite(r)
  PROVE  /\ WorkspaceInv'
         /\ \A m \in Memories : memory[m] # None => memory'[m] = memory[m]
<1>1. /\ request[r].pc = "write" /\ request[r].kind = "remember" /\ request[r].fact \in Facts
      /\ Ended(r) /\ UNCHANGED knowledge
      BY DEF RememberWrite, Write, WorkspaceInv, RequestsTyped, Names
<1> DEFINE new == [content |-> request[r].fact, versions |-> <<request[r].fact>>]
<1>2. new \in Kept
      BY <1>1 DEF Kept
<1>3. memory' = memory \/ \E m \in Memories : memory[m] = None /\ memory' = [memory EXCEPT ![m] = new]
      BY DEF RememberWrite
<1> HIDE DEF new
<1>4. /\ memory' \in [Memories -> Kept \cup {None}]
      /\ \A m \in Memories : memory[m] # None => memory'[m] = memory[m]
      BY <1>2, <1>3 DEF WorkspaceInv, TablesTyped
<1>5. \A s \in Requests \ {r} : Holds(request[s]) => memory'[request[s].on] = memory[request[s].on]
      BY <1>4 DEF WorkspaceInv, HeldRows, RequestsTyped, Names, Holds
<1>6. TablesTyped'
      BY <1>1, <1>4 DEF WorkspaceInv, TablesTyped
<1> QED BY <1>1, <1>4, <1>5, <1>6, WriteKeeps

\* A correction replaces the content that it read.
LEMMA CorrectKeeps ==
  ASSUME WorkspaceInv, NEW r \in Requests, CorrectWrite(r)
  PROVE  /\ WorkspaceInv'
         /\ \A m \in Memories : memory'[m] # memory[m] =>
              memory'[m].versions = Append(memory[m].versions, memory[m].content)
<1>1. request[r].pc = "write" /\ request[r].kind = "correct" /\ Ended(r) /\ UNCHANGED knowledge
      BY DEF CorrectWrite, Write
<1>2. PICK m \in Memories : m = request[r].on
      BY <1>1 DEF WorkspaceInv, RequestsTyped, Names
<1>3. Holds(request[r]) /\ request[r].fact \in Facts
      BY <1>1 DEF WorkspaceInv, RequestsTyped, Names, Holds
<1>4. request[r].seen = memory[m] /\ memory[m] # None
      BY <1>1, <1>2, <1>3 DEF WorkspaceInv, HeldRows
<1>5. memory[m] \in Kept
      BY <1>4 DEF WorkspaceInv, TablesTyped
<1> DEFINE new == [content |-> request[r].fact, versions |-> Append(memory[m].versions, memory[m].content)]
<1>6. new \in Kept /\ new.versions = Append(memory[m].versions, memory[m].content)
      BY <1>3, <1>5 DEF Kept
<1>7. memory' = [memory EXCEPT ![m] = new]
      BY <1>2, <1>4 DEF CorrectWrite
<1> HIDE DEF new
<1>8. memory' \in [Memories -> Kept \cup {None}] /\ \A k \in Memories : memory'[k] = IF k = m THEN new ELSE memory[k]
      BY <1>6, <1>7 DEF WorkspaceInv, TablesTyped
<1>9. \A s \in Requests \ {r} : Holds(request[s]) => request[s].on \in Memories /\ request[s].on # m
      BY <1>2, <1>3 DEF WorkspaceInv, HeldRows, RequestsTyped, Names, Holds
<1>10. TablesTyped'
      BY <1>1, <1>8 DEF WorkspaceInv, TablesTyped
<1> QED BY <1>1, <1>6, <1>8, <1>9, <1>10, WriteKeeps

LEMMA ForgetKeeps ==
  ASSUME WorkspaceInv, NEW r \in Requests, ForgetWrite(r)
  PROVE  /\ WorkspaceInv'
         /\ \A m \in Memories : memory'[m] \in {None, memory[m]}
<1>1. request[r].pc = "write" /\ request[r].kind = "forget" /\ Ended(r) /\ UNCHANGED knowledge
      BY DEF ForgetWrite, Write
<1>2. PICK m \in Memories : m = request[r].on
      BY <1>1 DEF WorkspaceInv, RequestsTyped, Names
<1>3. memory' = [memory EXCEPT ![m] = None]
      BY <1>2 DEF ForgetWrite
<1>4. memory' \in [Memories -> Kept \cup {None}] /\ \A k \in Memories : memory'[k] = IF k = m THEN None ELSE memory[k]
      BY <1>3 DEF WorkspaceInv, TablesTyped
<1>5. \A s \in Requests \ {r} : Holds(request[s]) => request[s].on \in Memories /\ request[s].on # m
      BY <1>1, <1>2 DEF WorkspaceInv, HeldRows, RequestsTyped, Names, Holds
<1>6. TablesTyped'
      BY <1>1, <1>4 DEF WorkspaceInv, TablesTyped
<1> QED BY <1>1, <1>4, <1>5, <1>6, WriteKeeps

LEMMA IngestKeeps ==
  ASSUME WorkspaceInv, NEW r \in Requests, IngestWrite(r)
  PROVE  WorkspaceInv' /\ UNCHANGED memory
<1> DEFINE seen == request[r].seen
           fact == request[r].fact
           first == [content |-> fact, versions |-> <<>>]
           next == [content |-> fact, versions |-> Append(knowledge[seen.at].versions, seen.content)]
<1>1. /\ request[r].pc = "write" /\ Ended(r) /\ UNCHANGED memory
      /\ fact \in Facts /\ seen \in Found \cup {None}
      BY DEF IngestWrite, Write, WorkspaceInv, RequestsTyped, Names
<1>2. knowledge \in Seq(Kept)
      BY DEF WorkspaceInv, TablesTyped
<1>3. CASE seen = None
  <2>1. knowledge' = Append(knowledge, first) /\ first \in Kept
        BY <1>1, <1>3 DEF IngestWrite, Kept
  <2>2. TablesTyped'
        BY <1>1, <1>2, <2>1 DEF WorkspaceInv, TablesTyped
  <2> QED BY <1>1, <2>2, WriteKeeps
<1>4. CASE seen # None
  <2>1. ASSUME seen.at \in DOMAIN knowledge PROVE next \in Kept
    <3>1. knowledge[seen.at] \in Kept
          BY <1>2, <2>1
    <3>2. knowledge[seen.at].versions \in Seq(Facts) /\ seen.content \in Facts
          BY <1>1, <1>4, <3>1 DEF Kept, Found
    <3> QED BY <1>1, <3>2 DEF Kept
  <2>2. knowledge' = [knowledge EXCEPT ![seen.at] = next]
        BY <1>4 DEF IngestWrite
  <2> HIDE DEF next
  <2>3. knowledge' \in Seq(Kept)
    <3>1. knowledge \in [1 .. Len(knowledge) -> Kept] /\ Len(knowledge) \in Nat /\ DOMAIN knowledge = 1 .. Len(knowledge)
          BY <1>2
    <3>2. [knowledge EXCEPT ![seen.at] = next] \in [1 .. Len(knowledge) -> Kept]
          BY <2>1, <3>1
    <3>3. knowledge' \in [1 .. Len(knowledge) -> Kept]
          BY <2>2, <3>2
    <3> QED BY <3>1, <3>3, SeqDef
  <2>4. TablesTyped'
        BY <1>1, <2>3 DEF WorkspaceInv, TablesTyped
  <2> QED BY <1>1, <2>4, WriteKeeps
<1> QED BY <1>3, <1>4

\* Nobody but a request changes the tables or the requests.
LEMMA OnlyRequestsWrite ==
  ASSUME Next PROVE UNCHANGED <<tables, request>> \/ \E r \in Requests : Arrive(r) \/ Serve(r)
<1>1. CASE Asked = {} /\ WorkspaceNext
  <2>1. CASE \E e \in Executions : CanBegin /\ (Command(e) \/ Request(e)) /\ UNCHANGED recorded
        BY <2>1 DEF recorded, tables
  <2>2. CASE \E e \in Executions : (Proceed(e) \/ Die(e)) /\ UNCHANGED recorded
        BY <2>2 DEF recorded, tables
  <2>3. CASE \E d \in Documents : (CanUpload /\ Upload(d)) \/ Process(d)
        BY <2>3 DEF Upload, Process, TakeJob, TakeDocument, Index, FailDocument, FailJob
  <2> QED BY <1>1, <2>1, <2>2, <2>3 DEF WorkspaceNext
<1>2. CASE Background
  <2>1. CASE \E d \in Documents : (Meets({"analyze"}) /\ Upload(d)) \/ Process(d)
        BY <2>1 DEF Upload, Process, TakeJob, TakeDocument, Index, FailDocument, FailJob
  <2>2. CASE \E e \in Executions : (Proceed(e) \/ Die(e)) /\ UNCHANGED recorded
        BY <2>2 DEF recorded, tables
  <2> QED BY <1>2, <2>1, <2>2 DEF Background
<1>3. ASSUME NEW c \in Commands, Say(c) \/ Work(c) PROVE UNCHANGED <<tables, request>>
      BY <1>3 DEF Say, Work, WorkflowStart, recorded, tables
<1> QED BY <1>1, <1>2, <1>3 DEF Next

\* A step of any request, and what it may do to a memory.
LEMMA NextKeepsWorkspace ==
  ASSUME WorkspaceInv, [Next]_vars
  PROVE  /\ WorkspaceInv'
         /\ \A m \in Memories : memory[m] # None /\ memory'[m] \notin {None, memory[m]} =>
              memory'[m].versions = Append(memory[m].versions, memory[m].content)
<1>1. CASE UNCHANGED <<tables, request>>
      BY <1>1 DEF WorkspaceInv, TablesTyped, RequestsTyped, Names, HeldRows, Holds, tables
<1>2. ASSUME NEW r \in Requests, Arrive(r) \/ Serve(r)
      PROVE  /\ WorkspaceInv'
             /\ \A m \in Memories : memory[m] # None /\ memory'[m] \notin {None, memory[m]} =>
                  memory'[m].versions = Append(memory[m].versions, memory[m].content)
  <2>1. CASE Arrive(r)
        BY <2>1, ArriveKeeps DEF Arrive, tables
  <2>2. CASE RememberRead(r) \/ CorrectRead(r) \/ ForgetRead(r) \/ IngestRead(r)
    <3>1. UNCHANGED memory
          BY <2>2 DEF RememberRead, CorrectRead, ForgetRead, IngestRead, Saw, tables
    <3> QED BY <2>2, <3>1, ReadKeeps
  <2> QED BY <1>2, <2>1, <2>2, RememberKeeps, CorrectKeeps, ForgetKeeps, IngestKeeps DEF Serve
<1>3. UNCHANGED vars => UNCHANGED <<tables, request>>
      BY DEF vars, recorded, tables
<1> QED BY <1>1, <1>2, <1>3, OnlyRequestsWrite

\* However corrections, deletions and new memories overlap, the content that a correction
\* replaces becomes the last of the memory's versions: MemoryService.update selects the row
\* for update before it reads what it will keep.
THEOREM CorrectionsAreWhole == Spec => CorrectionsAreKept
<1>1. WorkspaceInv /\ [Next]_vars => WorkspaceInv'
      BY NextKeepsWorkspace
<1>2. WorkspaceInv /\ [Next]_vars =>
        [\A m \in Memories : memory[m] # None /\ memory'[m] \notin {None, memory[m]} =>
           memory'[m].versions = Append(memory[m].versions, memory[m].content)]_<<memory>>
      BY NextKeepsWorkspace
<1> QED BY <1>1, <1>2, InitWorkspace, PTL DEF Spec, CorrectionsAreKept

-----------------------------------------------------------------------------
(***************************************************************************)
(* Replies.  A route keeps in its command what it has read and written, so *)
(* that each stage of a route knows which rows are there already; no row   *)
(* that a reply speaks of is ever taken back.  Both hold for every         *)
(* database, since the routes use no transaction.                          *)
(***************************************************************************)
Pcs      == {"none", "route", "match", "mark", "log", "plan", "steps", "open", "task", "ask", "model", "response",
             "content", "search", "found", "wait", "reply", "done", "lost"}
Statuses == {"none", "completed", "waiting", "failed", "not_found"}
Seen     == Tasks \cup Projects \cup Documents \cup Nat \cup Seq(Tasks) \cup {None}

CommandRecord == [pc : Pcs, route : Routes \cup {"none"}, seen : Seen, left : Seq(Tasks), status : Statuses]
MadeRecord    == [search : {"none", "waiting", "running", "completed", "failed"}, found : Nat,
                  ai : {"none", "running", "completed", "failed"}, sent : SUBSET Commands, response : BOOLEAN,
                  plan : BOOLEAN, steps : Seq(Tasks), delegated : BOOLEAN, execution : Executions \cup {None}]
Message       == [role : {"user", "assistant"}, of : Commands, status : Statuses]

CommandsTyped ==
  /\ messages \in Seq(Message)
  /\ command \in [Commands -> CommandRecord]
  /\ made \in [Commands -> MadeRecord]

RowsTyped ==
  /\ todo \in [Tasks -> {"none", "active", "completed"}]
  /\ project \subseteq Projects
  /\ DOMAIN file = Documents
  /\ \A d \in Documents : DOMAIN file[d] = {"status", "job", "text", "content", "sections", "linked", "pc"}
  /\ DOMAIN row = Executions
  /\ \A e \in Executions : DOMAIN row[e] = {"status", "results"}

\* What the rows show of a command q that made m.
Shown(q, m) ==
  /\ q.route = "task"     => q.seen \in Tasks /\ todo[q.seen] # "none" /\ <<"task_created", q.seen>> \in activity
  /\ q.route = "complete" => q.seen \in Tasks /\ todo[q.seen] = "completed" /\ <<"task_completed", q.seen>> \in activity
  /\ q.route = "plan"     => m.plan /\ m.steps = q.seen
  /\ q.route = "project"  => q.seen \in project /\ <<"project_created", q.seen>> \in activity
  /\ q.route = "continue" => q.seen \in project
  /\ q.route = "delegate" => m.delegated
  /\ q.route = "chat"     => m.ai = "completed" /\ m.response
  /\ q.route = "know"     => m.ai = "none" \/ m.response
  /\ q.route = "analyze"  => q.seen \in Documents /\ file[q.seen].content /\ (m.ai = "none" <=> ~m.response)
  /\ q.route = "research" => m.search = "completed" /\ m.found = q.seen
  /\ q.route = "workflow" => m.execution \in Executions /\ row[m.execution].status # "none"

\* What is there already at each stage of a route, and in the end.
Stage(q, m) ==
  /\ q.pc \in {"none", "route"} => m = Nothing /\ q.seen = None
  /\ q.pc = "log" => q.route \in {"task", "complete", "project"}
  /\ q.pc = "log" /\ q.route = "task" => q.seen \in Tasks /\ todo[q.seen] # "none"
  /\ q.pc = "log" /\ q.route = "complete" => q.seen \in Tasks /\ todo[q.seen] = "completed"
  /\ q.pc = "log" /\ q.route = "project" => q.seen \in project
  /\ q.pc = "match" => q.seen \in Tasks \cup {None}
  /\ q.pc = "mark" => q.seen \in Tasks
  /\ q.pc = "plan" => m.steps = <<>> /\ q.seen = q.left
  /\ q.pc = "steps" => m.plan /\ q.seen = m.steps \o q.left
  /\ q.pc = "open" => q.seen \in project
  /\ q.pc \in {"ask", "model", "response"} => q.route \in {"chat", "know", "analyze"} /\ ~m.response
  /\ q.pc \in {"content", "ask", "model", "response"} /\ q.route = "analyze" => q.seen \in Documents
  /\ q.pc \in {"ask", "model", "response"} /\ q.route = "analyze" => file[q.seen].content
  /\ q.pc = "content" => m.ai = "none" /\ ~m.response
  /\ q.pc = "response" => m.ai = "completed"
  /\ q.pc = "found" => q.seen \in Nat /\ m.found <= q.seen
  /\ q.pc = "search" => m.found = 0
  /\ q.pc = "wait" => m.execution \in Executions /\ row[m.execution].status # "none"
  /\ q.pc \in {"reply", "done"} /\ q.status = "completed" => Shown(q, m)

StageOf(c) == \A q \in {command[c]}, m \in {made[c]} : Stage(q, m)
StagesInv  == \A c \in Commands : StageOf(c)

\* A reply tells how its command ended.
RepliesInv ==
  \A i \in DOMAIN messages : messages[i].role = "assistant" =>
    command[messages[i].of].pc = "done" /\ command[messages[i].of].status = messages[i].status

AnswersInv == CommandsTyped /\ RowsTyped /\ StagesInv /\ RepliesInv

\* No row that a reply may speak of is taken back.
RowsGrow ==
  /\ \A t \in Tasks : /\ todo[t] # "none" => todo'[t] # "none"
                      /\ todo[t] = "completed" => todo'[t] = "completed"
  /\ project \subseteq project'
  /\ activity \subseteq activity'
  /\ \A d \in Documents : file[d].content => file'[d].content
  /\ \A e \in Executions : row[e].status # "none" => row'[e].status # "none"

LEMMA InitAnswers == Init => AnswersInv
<1> SUFFICES ASSUME Init PROVE AnswersInv
    OBVIOUS
<1> USE DEF Init, WorkspaceInit, EngineInit, AssistantInit
<1>1. Unasked \in CommandRecord /\ Unasked.pc = "none" /\ Unasked.seen = None
      BY DEF Unasked, CommandRecord, Pcs, Seen, Statuses
<1>2. Nothing \in MadeRecord
      BY DEF Nothing, MadeRecord
<1>3. CommandsTyped
      BY <1>1, <1>2 DEF CommandsTyped
<1>4. RowsTyped
  <2>1. DOMAIN NoFile = {"status", "job", "text", "content", "sections", "linked", "pc"}
        BY DEF NoFile
  <2> QED BY <2>1 DEF RowsTyped
<1>5. Stage(Unasked, Nothing)
      BY <1>1 DEF Stage
<1>6. \A c \in Commands : StageOf(c)
      BY <1>5 DEF StageOf
<1> QED BY <1>3, <1>4, <1>6 DEF AnswersInv, StagesInv, RepliesInv

\* A command that nobody touches keeps its stage while the rows grow.
LEMMA StageKeeps ==
  ASSUME RowsGrow, NEW q \in CommandRecord, NEW m \in MadeRecord, Stage(q, m)
  PROVE  Stage(q, m)'
<1>1. q.pc \in {"reply", "done"} /\ q.status = "completed" => Shown(q, m)'
      BY DEF RowsGrow, Stage, Shown
<1> QED BY <1>1 DEF RowsGrow, Stage

\* What others do while no command takes a step.
LEMMA RowsKeep ==
  ASSUME AnswersInv, RowsGrow, RowsTyped', UNCHANGED <<messages, command, made>>
  PROVE  AnswersInv'
<1>1. CommandsTyped' /\ RepliesInv'
      BY DEF AnswersInv, CommandsTyped, RepliesInv
<1>2. ASSUME NEW c \in Commands PROVE StageOf(c)'
  <2>1. PICK q \in CommandRecord, m \in MadeRecord : q = command[c] /\ m = made[c]
        BY <1>2 DEF AnswersInv, CommandsTyped
  <2>2. Stage(q, m)
        BY <1>2, <2>1 DEF AnswersInv, StagesInv, StageOf
  <2>3. Stage(q, m)'
        BY <2>2, StageKeeps
  <2>4. q = command'[c] /\ m = made'[c]
        BY <2>1
  <2> QED BY <2>3, <2>4 DEF StageOf
<1> QED BY <1>1, <1>2 DEF AnswersInv, StagesInv

\* One step of one command that has not been answered.
LEMMA CommandKeeps ==
  ASSUME AnswersInv, RowsGrow, RowsTyped', NEW c \in Commands, NEW q \in CommandRecord, NEW m \in MadeRecord,
         command' = [command EXCEPT ![c] = q], made' = [made EXCEPT ![c] = m],
         command[c].pc # "done", UNCHANGED messages, Stage(q, m)'
  PROVE  AnswersInv'
<1>1. CommandsTyped'
      BY DEF AnswersInv, CommandsTyped
<1>2. RepliesInv'
      BY DEF AnswersInv, CommandsTyped, RepliesInv
<1>3. ASSUME NEW d \in Commands PROVE StageOf(d)'
  <2>1. CASE d = c
    <3>1. q = command'[d] /\ m = made'[d]
          BY <1>3, <2>1 DEF AnswersInv, CommandsTyped
    <3> QED BY <3>1 DEF StageOf
  <2>2. CASE d # c
    <3>1. PICK p \in CommandRecord, n \in MadeRecord : p = command[d] /\ n = made[d]
          BY <1>3 DEF AnswersInv, CommandsTyped
    <3>2. Stage(p, n)
          BY <1>3, <3>1 DEF AnswersInv, StagesInv, StageOf
    <3>3. Stage(p, n)'
          BY <3>2, StageKeeps
    <3>4. p = command'[d] /\ n = made'[d]
          BY <1>3, <2>2, <3>1 DEF AnswersInv, CommandsTyped
    <3> QED BY <3>3, <3>4 DEF StageOf
  <2> QED BY <2>1, <2>2
<1> QED BY <1>1, <1>2, <1>3 DEF AnswersInv, StagesInv

\* The same of a step that leaves the rows of everybody as they are.
LEMMA QuietKeeps ==
  ASSUME AnswersInv, UNCHANGED <<messages, rows, row, file>>, NEW c \in Commands, NEW q \in CommandRecord,
         NEW m \in MadeRecord, command' = [command EXCEPT ![c] = q], made' = [made EXCEPT ![c] = m],
         command[c].pc # "done", Stage(q, m)
  PROVE  AnswersInv'
<1>1. RowsGrow
      BY DEF RowsGrow, rows
<1>2. RowsTyped'
      BY DEF AnswersInv, RowsTyped, rows
<1>3. Stage(q, m)'
      BY <1>1, StageKeeps
<1> QED BY <1>1, <1>2, <1>3, CommandKeeps

\* And that changes nothing but the command.
LEMMA OnlyCommandKeeps ==
  ASSUME AnswersInv, UNCHANGED <<messages, rows, made, row, file>>, NEW c \in Commands, NEW q \in CommandRecord,
         command' = [command EXCEPT ![c] = q], command[c].pc # "done", Stage(q, made[c])
  PROVE  AnswersInv'
<1>1. PICK m \in MadeRecord : m = made[c]
      BY DEF AnswersInv, CommandsTyped
<1>2. made' = [made EXCEPT ![c] = m]
      BY <1>1 DEF AnswersInv, CommandsTyped
<1> QED BY <1>1, <1>2, QuietKeeps

\* What a command is afterwards.
LEMMA GoesRecord ==
  ASSUME AnswersInv, NEW c \in Commands, NEW pc \in Pcs, Goes(c, pc)
  PROVE  \E q \in CommandRecord :
           /\ command' = [command EXCEPT ![c] = q]
           /\ q.pc = pc /\ q.route = command[c].route /\ q.seen = command[c].seen
           /\ q.left = command[c].left /\ q.status = command[c].status
<1> DEFINE q == [command[c] EXCEPT !.pc = pc]
<1>1. command[c] \in CommandRecord
      BY DEF AnswersInv, CommandsTyped
<1>2. /\ q \in CommandRecord
      /\ q.pc = pc /\ q.route = command[c].route /\ q.seen = command[c].seen
      /\ q.left = command[c].left /\ q.status = command[c].status
      BY <1>1 DEF CommandRecord
<1>3. command' = [command EXCEPT ![c] = q]
      BY DEF Goes, AnswersInv, CommandsTyped
<1> QED BY <1>2, <1>3

LEMMA SeesRecord ==
  ASSUME AnswersInv, NEW c \in Commands, NEW pc \in Pcs, NEW x \in Seen, Sees(c, pc, x)
  PROVE  \E q \in CommandRecord :
           /\ command' = [command EXCEPT ![c] = q]
           /\ q.pc = pc /\ q.route = command[c].route /\ q.seen = x
           /\ q.left = command[c].left /\ q.status = command[c].status
<1> DEFINE q == [command[c] EXCEPT !.pc = pc, !.seen = x]
<1>1. command[c] \in CommandRecord
      BY DEF AnswersInv, CommandsTyped
<1>2. /\ q \in CommandRecord
      /\ q.pc = pc /\ q.route = command[c].route /\ q.seen = x
      /\ q.left = command[c].left /\ q.status = command[c].status
      BY <1>1 DEF CommandRecord
<1>3. command' = [command EXCEPT ![c] = q]
      BY DEF Sees, AnswersInv, CommandsTyped
<1> QED BY <1>2, <1>3

LEMMA ResultRecord ==
  ASSUME AnswersInv, NEW c \in Commands, NEW status \in Statuses, Result(c, status)
  PROVE  \E q \in CommandRecord :
           /\ command' = [command EXCEPT ![c] = q]
           /\ q.pc = "reply" /\ q.route = command[c].route /\ q.seen = command[c].seen
           /\ q.left = command[c].left /\ q.status = status
<1> DEFINE q == [command[c] EXCEPT !.pc = "reply", !.status = status]
<1>1. command[c] \in CommandRecord
      BY DEF AnswersInv, CommandsTyped
<1>2. /\ q \in CommandRecord
      /\ q.pc = "reply" /\ q.route = command[c].route /\ q.seen = command[c].seen
      /\ q.left = command[c].left /\ q.status = status
      BY <1>1 DEF CommandRecord, Pcs
<1>3. command' = [command EXCEPT ![c] = q]
      BY DEF Result, AnswersInv, CommandsTyped
<1> QED BY <1>2, <1>3

\* The result of a route that has stored what it speaks of.
LEMMA ResultKeeps ==
  ASSUME AnswersInv, UNCHANGED <<messages, rows, made, row, file>>, NEW c \in Commands, NEW status \in Statuses,
         Result(c, status), command[c].pc # "done", status = "completed" => Shown(command[c], made[c])
  PROVE  AnswersInv'
<1>1. PICK q \in CommandRecord :
        /\ command' = [command EXCEPT ![c] = q]
        /\ q.pc = "reply" /\ q.route = command[c].route /\ q.seen = command[c].seen
        /\ q.left = command[c].left /\ q.status = status
      BY ResultRecord
<1>2. Stage(q, made[c])
      BY <1>1 DEF Stage, Shown
<1> QED BY <1>1, <1>2, OnlyCommandKeeps

LEMMA StageNow ==
  ASSUME AnswersInv, NEW c \in Commands
  PROVE  /\ command[c] \in CommandRecord /\ made[c] \in MadeRecord
         /\ Stage(command[c], made[c])
BY DEF AnswersInv, CommandsTyped, StagesInv, StageOf

\* What a route has not written yet is as it was when the command began.
LEMMA NothingYet ==
  ASSUME AnswersInv, NEW c \in Commands, command[c].pc = "route"
  PROVE  made[c].ai = "none" /\ ~made[c].response /\ made[c].steps = <<>> /\ made[c].found = 0
<1>1. made[c] = Nothing
      BY StageNow DEF Stage
<1> QED BY <1>1 DEF Nothing

\* A route that only decides, or that fails, or that tells what is there already.
LEMMA DecidesKeep ==
  ASSUME AnswersInv, NEW c \in Commands, UNCHANGED <<row, file>>,
         Breaks(c) \/ Elsewhere(c) \/ List(c) \/ ProjectOpened(c)
  PROVE  AnswersInv'
<1>1. CASE Breaks(c)
  <2>1. Result(c, "failed") /\ command[c].pc # "done" /\ UNCHANGED <<messages, rows, made>> /\ "failed" \in Statuses
        BY <1>1 DEF Breaks, Raised, Statuses
  <2> QED BY <2>1, ResultKeeps
<1>2. CASE Elsewhere(c)
  <2>1. PICK status \in Statuses :
          /\ Result(c, status) /\ command[c].pc # "done" /\ UNCHANGED <<messages, rows, made>>
          /\ command[c].route \in {"voice", "navigate", "unclear", "remember", "computer"}
        BY <1>2 DEF Elsewhere, Statuses
  <2>2. Shown(command[c], made[c])
        BY <2>1 DEF Shown
  <2> QED BY <2>1, <2>2, ResultKeeps
<1>3. CASE List(c)
  <2>1. /\ Result(c, "completed") /\ command[c].pc # "done" /\ UNCHANGED <<messages, rows, made>>
        /\ "completed" \in Statuses /\ command[c].route = "list"
        BY <1>3 DEF List, At, Statuses
  <2>2. Shown(command[c], made[c])
        BY <2>1 DEF Shown
  <2> QED BY <2>1, <2>2, ResultKeeps
<1>4. CASE ProjectOpened(c)
  <2>1. /\ Result(c, "completed") /\ command[c].pc = "open" /\ UNCHANGED <<messages, rows, made>>
        /\ "completed" \in Statuses /\ command[c].route = "continue"
        BY <1>4 DEF ProjectOpened, At, Statuses
  <2>2. Shown(command[c], made[c])
        BY <2>1, StageNow DEF Shown, Stage
  <2> QED BY <2>1, <2>2, ResultKeeps
<1> QED BY <1>1, <1>2, <1>3, <1>4

LEMMA ReplyKeeps ==
  ASSUME AnswersInv, NEW c \in Commands, Reply(c), UNCHANGED <<row, file>>
  PROVE  AnswersInv'
<1> DEFINE new == [role |-> "assistant", of |-> c, status |-> command[c].status]
<1>1. /\ command[c].pc = "reply" /\ messages' = Append(messages, new) /\ Goes(c, "done") /\ UNCHANGED <<rows, made>>
      BY DEF Reply
<1>2. PICK q \in CommandRecord :
        /\ command' = [command EXCEPT ![c] = q]
        /\ q.pc = "done" /\ q.route = command[c].route /\ q.seen = command[c].seen
        /\ q.left = command[c].left /\ q.status = command[c].status
      BY <1>1, GoesRecord DEF Pcs
<1>3. command' = [command EXCEPT ![c] = q]
      BY <1>2
<1>4. new \in Message
      BY StageNow DEF Message, CommandRecord
<1>5. CommandsTyped'
      BY <1>1, <1>3, <1>4 DEF AnswersInv, CommandsTyped
<1>6. RowsGrow /\ RowsTyped'
      BY <1>1 DEF RowsGrow, AnswersInv, RowsTyped, rows
<1>7. RepliesInv'
  <2>1. messages \in Seq(Message) /\ command \in [Commands -> CommandRecord]
        BY DEF AnswersInv, CommandsTyped
  <2>2. ASSUME NEW i \in DOMAIN messages', messages'[i].role = "assistant"
        PROVE  command'[messages'[i].of].pc = "done" /\ command'[messages'[i].of].status = messages'[i].status
    <3>1. CASE i \in DOMAIN messages
      <4>1. messages[i] \in Message /\ messages'[i] = messages[i]
            BY <1>1, <1>4, <2>1, <3>1
      <4>2. command[messages[i].of].pc = "done" /\ command[messages[i].of].status = messages[i].status
            BY <2>2, <3>1, <4>1 DEF AnswersInv, RepliesInv
      <4>3. messages[i].of # c
            BY <1>1, <4>2
      <4> QED BY <1>3, <2>1, <4>1, <4>2, <4>3 DEF Message
    <3>2. CASE i \notin DOMAIN messages
      <4>1. messages'[i] = new
            BY <1>1, <1>4, <2>1, <2>2, <3>2
      <4> QED BY <1>2, <1>3, <2>1, <4>1
    <3> QED BY <3>1, <3>2
  <2> QED BY <2>2 DEF RepliesInv
<1>8. Stage(q, made[c])
  <2>1. command[c].status = "completed" => Shown(command[c], made[c])
        BY <1>1, StageNow DEF Stage
  <2>2. Shown(command[c], made[c]) => Shown(q, made[c])
        BY <1>2 DEF Shown
  <2> QED BY <1>2, <2>1, <2>2 DEF Stage
<1>9. ASSUME NEW d \in Commands PROVE StageOf(d)'
  <2>1. PICK p \in CommandRecord, n \in MadeRecord : p = command'[d] /\ n = made'[d]
        BY <1>5, <1>9 DEF CommandsTyped
  <2>2. Stage(p, n)
    <3>1. CASE d = c
          BY <1>1, <1>3, <1>8, <2>1, <3>1 DEF AnswersInv, CommandsTyped
    <3>2. CASE d # c
      <4>1. p = command[d] /\ n = made[d]
            BY <1>1, <1>3, <1>9, <2>1, <3>2 DEF AnswersInv, CommandsTyped
      <4> QED BY <1>9, <4>1, StageNow
    <3> QED BY <3>1, <3>2
  <2>3. Stage(p, n)'
        BY <1>6, <2>2, StageKeeps
  <2> QED BY <2>1, <2>3 DEF StageOf
<1> QED BY <1>5, <1>6, <1>7, <1>9 DEF AnswersInv, StagesInv

\* The task is there, and its entry in the log, before the reply speaks of it.
LEMMA TaskKeeps ==
  ASSUME AnswersInv, NEW c \in Commands, UNCHANGED <<row, file>>, TaskCreate(c) \/ TaskLog(c)
  PROVE  AnswersInv'
<1>1. PICK m \in MadeRecord : m = made[c]
      BY StageNow
<1>2. made' = [made EXCEPT ![c] = m] /\ UNCHANGED messages
      BY <1>1 DEF TaskCreate, TaskLog, AnswersInv, CommandsTyped
<1>3. CASE TaskCreate(c) /\ Raised(c) /\ UNCHANGED rows
  <2>1. "failed" \in Statuses /\ command[c].pc # "done" /\ UNCHANGED <<messages, made>>
        BY <1>3 DEF Statuses, TaskCreate, At
  <2> QED BY <1>3, <2>1, ResultKeeps DEF Raised
<1>4. CASE TaskCreate(c) /\ ~(Raised(c) /\ UNCHANGED rows)
  <2>1. PICK t \in Tasks : /\ todo[t] = "none" /\ todo' = [todo EXCEPT ![t] = "active"]
                           /\ Sees(c, "log", t) /\ UNCHANGED <<project, activity>>
        BY <1>4 DEF TaskCreate
  <2>2. RowsGrow /\ RowsTyped'
        BY <2>1 DEF RowsGrow, AnswersInv, RowsTyped
  <2>3. PICK q \in CommandRecord :
          /\ command' = [command EXCEPT ![c] = q]
          /\ q.pc = "log" /\ q.route = command[c].route /\ q.seen = t
          /\ q.left = command[c].left /\ q.status = command[c].status
    <3>1. "log" \in Pcs /\ t \in Seen
          BY DEF Pcs, Seen
    <3> QED BY <2>1, <3>1, SeesRecord
  <2>4. command[c].pc # "done" /\ q.route = "task"
        BY <1>4, <2>3 DEF TaskCreate, At
  <2>5. todo'[t] = "active"
        BY <2>1 DEF AnswersInv, RowsTyped
  <2>6. Stage(q, m)'
        BY <2>3, <2>4, <2>5 DEF Stage
  <2> QED BY <1>2, <2>2, <2>3, <2>4, <2>6, CommandKeeps
<1>5. CASE TaskLog(c)
  <2>1. /\ command[c].route = "task" /\ command[c].pc = "log" /\ Result(c, "completed") /\ UNCHANGED <<todo, project>>
        /\ activity' = activity \cup {<<"task_created", command[c].seen>>}
        BY <1>5 DEF TaskLog, At
  <2>2. PICK q \in CommandRecord :
          /\ command' = [command EXCEPT ![c] = q]
          /\ q.pc = "reply" /\ q.route = command[c].route /\ q.seen = command[c].seen
          /\ q.left = command[c].left /\ q.status = "completed"
        BY <2>1, ResultRecord DEF Statuses
  <2>3. command' = [command EXCEPT ![c] = q]
        BY <2>2
  <2>4. RowsGrow /\ RowsTyped'
        BY <2>1 DEF RowsGrow, AnswersInv, RowsTyped
  <2>5. q.seen \in Tasks /\ todo[q.seen] # "none"
        BY <2>1, <2>2, StageNow, ZenonT(60) DEF Stage
  <2>6. Shown(q, m)'
        BY <2>1, <2>2, <2>5 DEF Shown
  <2>7. Stage(q, m)'
        BY <2>2, <2>6 DEF Stage
  <2> QED BY <1>2, <2>1, <2>3, <2>4, <2>7, CommandKeeps
<1> QED BY <1>3, <1>4, <1>5

\* A command that goes on, or that has seen something, without having written.
LEMMA GoesKeeps ==
  ASSUME AnswersInv, UNCHANGED <<messages, rows, made, row, file>>, NEW c \in Commands, NEW pc \in Pcs,
         Goes(c, pc), command[c].pc # "done",
         \A q \in CommandRecord :
           q.pc = pc /\ q.route = command[c].route /\ q.seen = command[c].seen => Stage(q, made[c])
  PROVE  AnswersInv'
<1>1. PICK q \in CommandRecord :
        /\ command' = [command EXCEPT ![c] = q]
        /\ q.pc = pc /\ q.route = command[c].route /\ q.seen = command[c].seen
        /\ q.left = command[c].left /\ q.status = command[c].status
      BY GoesRecord
<1> QED BY <1>1, OnlyCommandKeeps

LEMMA SeesKeeps ==
  ASSUME AnswersInv, UNCHANGED <<messages, rows, made, row, file>>, NEW c \in Commands, NEW pc \in Pcs,
         NEW x \in Seen, Sees(c, pc, x), command[c].pc # "done",
         \A q \in CommandRecord : q.pc = pc /\ q.route = command[c].route /\ q.seen = x => Stage(q, made[c])
  PROVE  AnswersInv'
<1>1. PICK q \in CommandRecord :
        /\ command' = [command EXCEPT ![c] = q]
        /\ q.pc = pc /\ q.route = command[c].route /\ q.seen = x
        /\ q.left = command[c].left /\ q.status = command[c].status
      BY SeesRecord
<1> QED BY <1>1, OnlyCommandKeeps

\* A task that the phrase names is marked, then logged, and stays completed.
LEMMA CompleteKeeps ==
  ASSUME AnswersInv, NEW c \in Commands, UNCHANGED <<row, file>>,
         CompleteRead(c) \/ CompleteMatch(c) \/ CompleteMark(c) \/ CompleteLog(c)
  PROVE  AnswersInv'
<1>1. PICK m \in MadeRecord : m = made[c]
      BY StageNow
<1>2. /\ made' = [made EXCEPT ![c] = m] /\ UNCHANGED <<messages, made>> /\ command[c].route = "complete"
      /\ command[c].pc # "done" /\ command[c] \in CommandRecord
      BY <1>1, StageNow DEF CompleteRead, CompleteMatch, CompleteMark, CompleteLog, At, AnswersInv, CommandsTyped
<1>3. /\ "match" \in Pcs /\ "mark" \in Pcs /\ "log" \in Pcs
      /\ "completed" \in Statuses /\ "waiting" \in Statuses /\ "not_found" \in Statuses
      BY DEF Pcs, Statuses
<1>4. Active \subseteq Tasks /\ Tasks \subseteq Seen
      BY DEF Active, Seen
<1>5. CASE CompleteRead(c)
  <2>1. command[c].pc = "route" /\ UNCHANGED rows
        BY <1>5 DEF CompleteRead, At
  <2>2. command[c].seen = None
        BY <2>1, StageNow DEF Stage
  <2>3. ASSUME NEW q \in CommandRecord, q.pc = "match", q.seen \in Tasks \cup {None} PROVE Stage(q, made[c])
        BY <2>3 DEF Stage
  <2>4. CASE Goes(c, "match")
        BY <1>2, <1>3, <2>1, <2>2, <2>3, <2>4, GoesKeeps
  <2>5. ASSUME NEW t \in Active, Sees(c, "match", t) PROVE AnswersInv'
        BY <1>2, <1>3, <1>4, <2>1, <2>3, <2>5, SeesKeeps
  <2> QED BY <1>5, <2>4, <2>5 DEF CompleteRead
<1>6. CASE CompleteMatch(c)
  <2>1. command[c].pc = "match" /\ UNCHANGED rows
        BY <1>6 DEF CompleteMatch, At
  <2>2. command[c].seen \in Tasks \cup {None}
        BY <2>1, StageNow DEF Stage
  <2>3. ASSUME NEW q \in CommandRecord, q.pc = "mark", q.seen \in Tasks PROVE Stage(q, made[c])
        BY <2>3 DEF Stage
  <2>4. CASE command[c].seen # None
    <3>1. Goes(c, "mark") /\ command[c].seen \in Tasks
          BY <1>6, <2>2, <2>4 DEF CompleteMatch
    <3> QED BY <1>2, <1>3, <2>1, <2>3, <3>1, GoesKeeps
  <2>5. ASSUME NEW t \in Active, Sees(c, "mark", t) PROVE AnswersInv'
        BY <1>2, <1>3, <1>4, <2>1, <2>3, <2>5, SeesKeeps
  <2>6. ASSUME NEW status \in {"not_found", "waiting"}, Result(c, status) PROVE AnswersInv'
    <3>1. status \in Statuses /\ status # "completed"
          BY <1>3, <2>6
    <3> QED BY <1>2, <2>1, <2>6, <3>1, ResultKeeps
  <2> QED BY <1>6, <2>4, <2>5, <2>6 DEF CompleteMatch
<1>7. CASE CompleteMark(c)
  <2>1. /\ command[c].pc = "mark" /\ Goes(c, "log") /\ UNCHANGED <<project, activity>>
        /\ todo' = [todo EXCEPT ![command[c].seen] = "completed"]
        BY <1>7 DEF CompleteMark, At
  <2>2. PICK t \in Tasks : t = command[c].seen
        BY <2>1, StageNow DEF Stage
  <2>3. RowsTyped' /\ todo'[t] = "completed" /\ \A u \in Tasks : todo'[u] \in {todo[u], "completed"}
        BY <2>1, <2>2 DEF AnswersInv, RowsTyped
  <2>4. RowsGrow
        BY <2>1, <2>3 DEF RowsGrow
  <2>5. PICK q \in CommandRecord :
          /\ command' = [command EXCEPT ![c] = q]
          /\ q.pc = "log" /\ q.route = command[c].route /\ q.seen = command[c].seen
          /\ q.left = command[c].left /\ q.status = command[c].status
        BY <1>3, <2>1, GoesRecord
  <2>6. Stage(q, m)'
        BY <1>2, <2>2, <2>3, <2>5 DEF Stage
  <2> QED BY <1>2, <2>3, <2>4, <2>5, <2>6, CommandKeeps
<1>8. CASE CompleteLog(c)
  <2>1. /\ command[c].pc = "log" /\ Result(c, "completed") /\ UNCHANGED <<todo, project>>
        /\ activity' = activity \cup {<<"task_completed", command[c].seen>>}
        BY <1>8 DEF CompleteLog, At
  <2>2. PICK q \in CommandRecord :
          /\ command' = [command EXCEPT ![c] = q]
          /\ q.pc = "reply" /\ q.route = command[c].route /\ q.seen = command[c].seen
          /\ q.left = command[c].left /\ q.status = "completed"
        BY <1>3, <2>1, ResultRecord
  <2>3. RowsGrow /\ RowsTyped'
        BY <2>1 DEF RowsGrow, AnswersInv, RowsTyped
  <2>4. q.seen \in Tasks /\ todo[q.seen] = "completed"
        BY <1>2, <2>1, <2>2, StageNow, ZenonT(60) DEF Stage
  <2>5. Shown(q, m)'
        BY <1>2, <2>1, <2>2, <2>4 DEF Shown
  <2>6. Stage(q, m)'
        BY <2>2, <2>5 DEF Stage
  <2> QED BY <1>2, <2>2, <2>3, <2>6, CommandKeeps
<1> QED BY <1>5, <1>6, <1>7, <1>8

LEMMA ProjectKeeps ==
  ASSUME AnswersInv, NEW c \in Commands, UNCHANGED <<row, file>>,
         ProjectCreate(c) \/ ProjectLog(c) \/ ProjectContinue(c)
  PROVE  AnswersInv'
<1>1. PICK m \in MadeRecord : m = made[c]
      BY StageNow
<1>2. /\ made' = [made EXCEPT ![c] = m] /\ UNCHANGED <<messages, made>> /\ command[c].pc # "done"
      BY <1>1 DEF ProjectCreate, ProjectLog, ProjectContinue, At, AnswersInv, CommandsTyped
<1>3. /\ "log" \in Pcs /\ "open" \in Pcs /\ Projects \subseteq Seen
      /\ "completed" \in Statuses /\ "waiting" \in Statuses /\ "not_found" \in Statuses
      BY DEF Pcs, Statuses, Seen
<1>4. ASSUME NEW status \in {"not_found", "waiting"}, Result(c, status), UNCHANGED rows PROVE AnswersInv'
  <2>1. status \in Statuses /\ status # "completed"
        BY <1>3, <1>4
  <2> QED BY <1>2, <1>4, <2>1, ResultKeeps
<1>5. CASE ProjectCreate(c)
  <2>1. CASE UNCHANGED rows /\ Result(c, "waiting")
        BY <1>4, <2>1
  <2>2. ASSUME NEW p \in Projects \ project, project' = project \cup {p}, Sees(c, "log", p), UNCHANGED <<todo, activity>>
        PROVE  AnswersInv'
    <3>1. PICK q \in CommandRecord :
            /\ command' = [command EXCEPT ![c] = q]
            /\ q.pc = "log" /\ q.route = command[c].route /\ q.seen = p
            /\ q.left = command[c].left /\ q.status = command[c].status
      <4>1. p \in Seen
            BY <1>3
      <4> QED BY <1>3, <2>2, <4>1, SeesRecord
    <3>2. q.route = "project"
          BY <1>5, <3>1 DEF ProjectCreate, At
    <3>3. RowsGrow /\ RowsTyped'
          BY <2>2 DEF RowsGrow, AnswersInv, RowsTyped
    <3>4. Stage(q, m)'
          BY <2>2, <3>1, <3>2 DEF Stage
    <3> QED BY <1>2, <3>1, <3>3, <3>4, CommandKeeps
  <2> QED BY <1>5, <2>1, <2>2 DEF ProjectCreate
<1>6. CASE ProjectLog(c)
  <2>1. /\ command[c].pc = "log" /\ command[c].route = "project" /\ Result(c, "completed") /\ UNCHANGED <<todo, project>>
        /\ activity' = activity \cup {<<"project_created", command[c].seen>>}
        BY <1>6 DEF ProjectLog, At
  <2>2. PICK q \in CommandRecord :
          /\ command' = [command EXCEPT ![c] = q]
          /\ q.pc = "reply" /\ q.route = command[c].route /\ q.seen = command[c].seen
          /\ q.left = command[c].left /\ q.status = "completed"
        BY <1>3, <2>1, ResultRecord
  <2>3. RowsGrow /\ RowsTyped'
        BY <2>1 DEF RowsGrow, AnswersInv, RowsTyped
  <2>4. q.seen \in project
        BY <2>1, <2>2, StageNow DEF Stage
  <2>5. Shown(q, m)'
        BY <2>1, <2>2, <2>4 DEF Shown
  <2>6. Stage(q, m)'
        BY <2>2, <2>5 DEF Stage
  <2> QED BY <1>2, <2>2, <2>3, <2>6, CommandKeeps
<1>7. CASE ProjectContinue(c)
  <2>1. UNCHANGED rows /\ project \subseteq Projects
        BY <1>7 DEF ProjectContinue, AnswersInv, RowsTyped
  <2>2. ASSUME NEW p \in project, Sees(c, "open", p) PROVE AnswersInv'
    <3>1. \A q \in CommandRecord : q.pc = "open" /\ q.route = command[c].route /\ q.seen = p => Stage(q, made[c])
          BY <2>2 DEF Stage
    <3>2. p \in Seen
          BY <1>3, <2>1, <2>2
    <3> QED BY <1>2, <1>3, <2>1, <2>2, <3>1, <3>2, SeesKeeps
  <2>3. PICK matches \in SUBSET project :
          IF Cardinality(matches) = 1 THEN \E p \in matches : Sees(c, "open", p)
          ELSE Result(c, IF matches = {} THEN "not_found" ELSE "waiting")
        BY <1>7 DEF ProjectContinue
  <2> QED BY <1>4, <2>1, <2>2, <2>3
<1> QED BY <1>5, <1>6, <1>7

\* A command whose result is not a success, and that has written no row.
LEMMA RefusesKeeps ==
  ASSUME AnswersInv, UNCHANGED <<messages, rows, made, row, file>>, NEW c \in Commands,
         NEW status \in {"waiting", "failed", "not_found"}, Result(c, status), command[c].pc # "done"
  PROVE  AnswersInv'
<1>1. status \in Statuses /\ status # "completed"
      BY DEF Statuses
<1> QED BY <1>1, ResultKeeps

\* The plan has the tasks of the day that were read, each of them once it is stored.
LEMMA PlanKeeps ==
  ASSUME AnswersInv, NEW c \in Commands, UNCHANGED <<row, file>>, PlanRead(c) \/ PlanCreate(c) \/ PlanStep(c)
  PROVE  AnswersInv'
<1>1. PICK p \in CommandRecord : p = command[c]
      BY StageNow
<1>2. PICK m \in MadeRecord : m = made[c]
      BY StageNow
<1>3. p.route = "plan" /\ command[c].pc # "done" /\ UNCHANGED <<messages, rows>>
      BY <1>1 DEF PlanRead, PlanCreate, PlanStep, At
<1>4. CASE PlanRead(c)
  <2>1. PICK tasks \in SetToSeqs(Active) : command' = [command EXCEPT ![c].pc = "plan", ![c].left = tasks, ![c].seen = tasks]
        BY <1>4 DEF PlanRead
  <2>2. tasks \in Seq(Tasks)
    <3>1. IsFiniteSet(Active) /\ Active \subseteq Tasks
          BY FS_Subset, AssistantAssumption DEF Active
    <3>2. Cardinality(Active) \in Nat
          BY <3>1, FS_CardinalityType
    <3>3. tasks \in [1 .. Cardinality(Active) -> Active]
          BY DEF SetToSeqs
    <3> QED BY <3>1, <3>2, <3>3
  <2>3. PICK q \in CommandRecord : /\ q = [p EXCEPT !.pc = "plan", !.left = tasks, !.seen = tasks]
                                   /\ q.pc = "plan" /\ q.left = tasks /\ q.seen = tasks
    <3>1. tasks \in Seen /\ "plan" \in Pcs
          BY <2>2 DEF Seen, Pcs
    <3> DEFINE q == [p EXCEPT !.pc = "plan", !.left = tasks, !.seen = tasks]
    <3>2. q \in CommandRecord /\ q.pc = "plan" /\ q.left = tasks /\ q.seen = tasks
          BY <2>2, <3>1 DEF CommandRecord
    <3> QED BY <3>2
  <2>4. command' = [command EXCEPT ![c] = q]
        BY <1>1, <2>1, <2>3 DEF AnswersInv, CommandsTyped
  <2>5. UNCHANGED made /\ command[c].pc = "route"
        BY <1>4 DEF PlanRead, At
  <2>6. Stage(q, made[c])
        BY <2>3, <2>5, NothingYet DEF Stage
  <2> QED BY <1>3, <2>4, <2>5, <2>6, OnlyCommandKeeps
<1>5. CASE PlanCreate(c)
  <2>1. command[c].pc = "plan" /\ made' = [made EXCEPT ![c].plan = TRUE] /\ Goes(c, "steps")
        BY <1>5 DEF PlanCreate, At
  <2>2. PICK n \in MadeRecord : n = [m EXCEPT !.plan = TRUE] /\ n.plan /\ n.steps = m.steps
    <3> DEFINE n == [m EXCEPT !.plan = TRUE]
    <3>1. n \in MadeRecord /\ n.plan /\ n.steps = m.steps
          BY DEF MadeRecord
    <3> QED BY <3>1
  <2>3. made' = [made EXCEPT ![c] = n]
        BY <1>2, <2>1, <2>2 DEF AnswersInv, CommandsTyped
  <2>4. PICK q \in CommandRecord :
          /\ command' = [command EXCEPT ![c] = q]
          /\ q.pc = "steps" /\ q.route = command[c].route /\ q.seen = command[c].seen
          /\ q.left = command[c].left /\ q.status = command[c].status
        BY <2>1, GoesRecord DEF Pcs
  <2>5. m.steps = <<>> /\ p.seen = p.left /\ p.left \in Seq(Tasks)
        BY <1>1, <1>2, <2>1, StageNow DEF Stage, CommandRecord
  <2>6. q.seen = n.steps \o q.left
    <3>1. <<>> \o p.left = p.left
          BY <2>5, ConcatEmptySeq
    <3> QED BY <1>1, <2>2, <2>4, <2>5, <3>1
  <2>7. Stage(q, n)
        BY <2>2, <2>4, <2>6 DEF Stage
  <2> QED BY <1>3, <2>3, <2>4, <2>7, QuietKeeps
<1>6. CASE PlanStep(c)
  <2>1. p.pc = "steps" /\ m.plan /\ p.seen = m.steps \o p.left
        BY <1>1, <1>2, <1>6, StageNow DEF PlanStep, At, Stage
  <2>2. p.left \in Seq(Tasks) /\ m.steps \in Seq(Tasks)
        BY DEF CommandRecord, MadeRecord
  <2>3. CASE p.left = <<>>
    <3>1. Result(c, "completed") /\ UNCHANGED made /\ "completed" \in Statuses
          BY <1>1, <1>6, <2>3 DEF PlanStep, Statuses
    <3>2. m.steps \o <<>> = m.steps
          BY <2>2, ConcatEmptySeq
    <3>3. Shown(p, m)
          BY <1>3, <2>1, <2>3, <3>2 DEF Shown
    <3> QED BY <1>1, <1>2, <1>3, <3>1, <3>3, ResultKeeps
  <2>4. CASE p.left # <<>>
    <3>1. /\ made' = [made EXCEPT ![c].steps = Append(@, Head(command[c].left))]
          /\ command' = [command EXCEPT ![c].left = Tail(@)]
          BY <1>1, <1>6, <2>4 DEF PlanStep
    <3>2. Head(p.left) \in Tasks /\ Tail(p.left) \in Seq(Tasks)
          BY <2>2, <2>4
    <3>3. PICK n \in MadeRecord : n = [m EXCEPT !.steps = Append(@, Head(p.left))] /\ n.plan = m.plan
                                  /\ n.steps = Append(m.steps, Head(p.left))
      <4> DEFINE n == [m EXCEPT !.steps = Append(@, Head(p.left))]
      <4>1. Append(m.steps, Head(p.left)) \in Seq(Tasks)
            BY <2>2, <3>2
      <4>2. n \in MadeRecord /\ n.plan = m.plan /\ n.steps = Append(m.steps, Head(p.left))
            BY <4>1 DEF MadeRecord
      <4> QED BY <4>2
    <3>4. made' = [made EXCEPT ![c] = n]
          BY <1>1, <1>2, <3>1, <3>3 DEF AnswersInv, CommandsTyped
    <3>5. PICK q \in CommandRecord : /\ q = [p EXCEPT !.left = Tail(@)]
                                     /\ q.pc = p.pc /\ q.seen = p.seen /\ q.left = Tail(p.left)
      <4> DEFINE q == [p EXCEPT !.left = Tail(@)]
      <4>1. q \in CommandRecord /\ q.pc = p.pc /\ q.seen = p.seen /\ q.left = Tail(p.left)
            BY <3>2 DEF CommandRecord
      <4> QED BY <4>1
    <3>6. command' = [command EXCEPT ![c] = q]
          BY <1>1, <3>1, <3>5 DEF AnswersInv, CommandsTyped
    <3>7. Append(m.steps, Head(p.left)) \o Tail(p.left) = m.steps \o p.left
      <4>1. p.left = <<Head(p.left)>> \o Tail(p.left)
            BY <2>2, <2>4, <3>2
      <4>2. Append(m.steps, Head(p.left)) = m.steps \o <<Head(p.left)>>
            BY <2>2, <3>2, AppendIsConcat
      <4> DEFINE steps == m.steps
                 first == <<Head(p.left)>>
                 rest  == Tail(p.left)
      <4>3. steps \in Seq(Tasks) /\ first \in Seq(Tasks) /\ rest \in Seq(Tasks)
            BY <2>2, <3>2
      <4> HIDE DEF steps, first, rest
      <4>4. (steps \o first) \o rest = steps \o (first \o rest)
            BY <4>3, ConcatAssociative
      <4> QED BY <4>1, <4>2, <4>4 DEF steps, first, rest
    <3>8. Stage(q, n)
          BY <2>1, <3>3, <3>5, <3>7 DEF Stage
    <3> QED BY <1>3, <3>4, <3>6, <3>8, QuietKeeps
  <2> QED BY <2>3, <2>4
<1> QED BY <1>4, <1>5, <1>6

LEMMA DelegateKeeps ==
  ASSUME AnswersInv, NEW c \in Commands, UNCHANGED <<row, file>>, DelegateRead(c) \/ DelegateTask(c)
  PROVE  AnswersInv'
<1>1. CASE DelegateRead(c)
  <2>1. command[c].pc # "done" /\ UNCHANGED <<messages, rows, made>> /\ (Goes(c, "task") \/ Result(c, "waiting"))
        BY <1>1 DEF DelegateRead, At
  <2>2. \A q \in CommandRecord :
          q.pc = "task" /\ q.route = command[c].route /\ q.seen = command[c].seen => Stage(q, made[c])
        BY DEF Stage
  <2> QED BY <2>1, <2>2, GoesKeeps, RefusesKeeps DEF Pcs
<1>2. CASE DelegateTask(c)
  <2>1. /\ command[c].pc # "done" /\ command[c].route = "delegate" /\ UNCHANGED <<messages, rows>>
        /\ Result(c, "completed") /\ made' = [made EXCEPT ![c].delegated = TRUE]
        BY <1>2 DEF DelegateTask, At
  <2>2. PICK q \in CommandRecord :
          /\ command' = [command EXCEPT ![c] = q]
          /\ q.pc = "reply" /\ q.route = command[c].route /\ q.seen = command[c].seen
          /\ q.left = command[c].left /\ q.status = "completed"
        BY <2>1, ResultRecord DEF Statuses
  <2>3. PICK n \in MadeRecord : n = [made[c] EXCEPT !.delegated = TRUE] /\ n.delegated
    <3> DEFINE n == [made[c] EXCEPT !.delegated = TRUE]
    <3>1. made[c] \in MadeRecord
          BY StageNow
    <3>2. n \in MadeRecord /\ n.delegated
          BY <3>1 DEF MadeRecord
    <3> QED BY <3>2
  <2>4. made' = [made EXCEPT ![c] = n]
        BY <2>1, <2>3 DEF AnswersInv, CommandsTyped
  <2>5. Shown(q, n)
        BY <2>1, <2>2, <2>3 DEF Shown
  <2>6. Stage(q, n)
        BY <2>2, <2>5 DEF Stage
  <2> QED BY <2>1, <2>2, <2>4, <2>6, QuietKeeps
<1> QED BY <1>1, <1>2

\* The call of the model service is stored before it is made, and its response before the
\* route has a result.
LEMMA ModelKeeps ==
  ASSUME AnswersInv, NEW c \in Commands, UNCHANGED <<row, file>>,
         AskModel(c) \/ ModelAnswers(c) \/ ModelFails(c) \/ ModelResponse(c)
  PROVE  AnswersInv'
<1>1. PICK p \in CommandRecord, m \in MadeRecord : p = command[c] /\ m = made[c] /\ Stage(p, m)
      BY StageNow
<1>2. p.pc \in {"ask", "model", "response"} /\ UNCHANGED <<messages, rows>>
      BY <1>1 DEF AskModel, ModelAnswers, ModelFails, ModelResponse
<1>3. /\ p.route \in {"chat", "know", "analyze"} /\ ~m.response
      /\ p.route = "analyze" => p.seen \in Documents /\ file[p.seen].content
      BY <1>1, <1>2 DEF Stage
<1>4. ASSUME NEW pc \in {"model", "response"}, NEW ai \in {"running", "completed"}, Goes(c, pc),
             made' = [made EXCEPT ![c].ai = ai], pc = "response" => ai = "completed"
      PROVE  AnswersInv'
  <2> DEFINE n == [m EXCEPT !.ai = ai]
  <2>1. n \in MadeRecord /\ n.ai = ai /\ n.response = m.response
        BY DEF MadeRecord
  <2>2. made' = [made EXCEPT ![c] = n]
        BY <1>1, <1>4 DEF AnswersInv, CommandsTyped
  <2>3. PICK q \in CommandRecord :
          /\ command' = [command EXCEPT ![c] = q]
          /\ q.pc = pc /\ q.route = command[c].route /\ q.seen = command[c].seen
          /\ q.left = command[c].left /\ q.status = command[c].status
        BY <1>4, GoesRecord DEF Pcs
  <2> HIDE DEF n
  <2>4. Stage(q, n)
        BY <1>1, <1>3, <1>4, <2>1, <2>3 DEF Stage
  <2> QED BY <1>1, <1>2, <2>1, <2>2, <2>3, <2>4, QuietKeeps
<1>5. CASE AskModel(c)
      BY <1>4, <1>5 DEF AskModel
<1>6. CASE ModelAnswers(c)
      BY <1>4, <1>6 DEF ModelAnswers
<1>7. CASE ModelFails(c)
  <2> DEFINE n == [m EXCEPT !.ai = "failed"]
  <2>1. n \in MadeRecord
        BY DEF MadeRecord
  <2>2. made' = [made EXCEPT ![c] = n] /\ Result(c, "failed")
        BY <1>1, <1>7 DEF ModelFails, Raised, AnswersInv, CommandsTyped
  <2>3. PICK q \in CommandRecord :
          /\ command' = [command EXCEPT ![c] = q]
          /\ q.pc = "reply" /\ q.route = command[c].route /\ q.seen = command[c].seen
          /\ q.left = command[c].left /\ q.status = "failed"
        BY <2>2, ResultRecord DEF Statuses
  <2>4. Stage(q, n)
        BY <2>3 DEF Stage
  <2> QED BY <1>1, <1>2, <2>1, <2>2, <2>3, <2>4, QuietKeeps
<1>8. CASE ModelResponse(c)
  <2> DEFINE n == [m EXCEPT !.response = TRUE]
  <2>1. n \in MadeRecord /\ n.ai = m.ai /\ n.response
        BY DEF MadeRecord
  <2>2. made' = [made EXCEPT ![c] = n] /\ Result(c, "completed") /\ p.pc = "response"
        BY <1>1, <1>8 DEF ModelResponse, AnswersInv, CommandsTyped
  <2>3. PICK q \in CommandRecord :
          /\ command' = [command EXCEPT ![c] = q]
          /\ q.pc = "reply" /\ q.route = command[c].route /\ q.seen = command[c].seen
          /\ q.left = command[c].left /\ q.status = "completed"
        BY <2>2, ResultRecord DEF Statuses
  <2>4. m.ai = "completed"
        BY <1>1, <2>2 DEF Stage
  <2> HIDE DEF n
  <2>5. Shown(q, n)
        BY <1>1, <1>3, <2>1, <2>3, <2>4 DEF Shown
  <2>6. Stage(q, n)
        BY <2>3, <2>5 DEF Stage
  <2> QED BY <1>1, <1>2, <2>1, <2>2, <2>3, <2>6, QuietKeeps
<1> QED BY <1>5, <1>6, <1>7, <1>8

\* Chat, a question and the analysis of a document: the model service is asked, when it is
\* configured, after what the route needs has been read.
LEMMA ConsultKeeps ==
  ASSUME AnswersInv, NEW c \in Commands, UNCHANGED <<row, file>>,
         Chat(c) \/ Know(c) \/ AnalyzeRead(c) \/ AnalyzeContent(c)
  PROVE  AnswersInv'
<1>1. PICK p \in CommandRecord, m \in MadeRecord : p = command[c] /\ m = made[c] /\ Stage(p, m)
      BY StageNow
<1>2. p.pc \in {"route", "content"} /\ UNCHANGED <<messages, rows>> /\ "completed" \in Statuses /\ "ask" \in Pcs
      BY <1>1 DEF Chat, Know, AnalyzeRead, AnalyzeContent, At, Statuses, Pcs
<1>3. m.ai = "none" /\ ~m.response
      BY <1>1, <1>2, NothingYet DEF Stage
<1>4. ASSUME UNCHANGED made, NEW status \in {"waiting", "failed"}, Result(c, status) PROVE AnswersInv'
      BY <1>1, <1>2, <1>4, RefusesKeeps
<1>5. CASE Chat(c)
  <2>1. CASE Result(c, "waiting") /\ UNCHANGED made
        BY <1>4, <2>1
  <2>2. CASE Goes(c, "ask") /\ made' = [made EXCEPT ![c].sent = History]
    <3> DEFINE n == [m EXCEPT !.sent = History]
    <3>1. History \subseteq Commands
      <4>1. \A i \in DOMAIN messages : messages[i] \in Message
            BY DEF AnswersInv, CommandsTyped
      <4> QED BY <4>1 DEF History, Message
    <3>2. n \in MadeRecord /\ n.response = m.response
          BY <3>1 DEF MadeRecord
    <3>3. made' = [made EXCEPT ![c] = n]
          BY <1>1, <2>2 DEF AnswersInv, CommandsTyped
    <3>4. PICK q \in CommandRecord :
            /\ command' = [command EXCEPT ![c] = q]
            /\ q.pc = "ask" /\ q.route = command[c].route /\ q.seen = command[c].seen
            /\ q.left = command[c].left /\ q.status = command[c].status
          BY <1>2, <2>2, GoesRecord
    <3>5. q.route = "chat"
          BY <1>5, <3>4 DEF Chat, At
    <3> HIDE DEF n
    <3>6. Stage(q, n)
          BY <1>3, <3>2, <3>4, <3>5 DEF Stage
    <3> QED BY <1>1, <1>2, <3>2, <3>3, <3>4, <3>6, QuietKeeps
  <2> QED BY <1>5, <2>1, <2>2 DEF Chat
<1>6. CASE Know(c)
  <2>1. UNCHANGED made /\ p.route = "know" /\ (Result(c, "completed") \/ Goes(c, "ask"))
        BY <1>1, <1>6 DEF Know, At
  <2>2. Shown(p, m)
        BY <1>3, <2>1 DEF Shown
  <2>3. \A q \in CommandRecord : q.pc = "ask" /\ q.route = p.route /\ q.seen = p.seen => Stage(q, m)
        BY <1>3, <2>1 DEF Stage
  <2> QED BY <1>1, <1>2, <2>1, <2>2, <2>3, ResultKeeps, GoesKeeps
<1>7. CASE AnalyzeRead(c)
  <2>1. UNCHANGED made /\ p.route = "analyze"
        BY <1>1, <1>7 DEF AnalyzeRead, At
  <2>2. ASSUME NEW d \in Uploaded, Sees(c, "content", d) PROVE AnswersInv'
    <3>1. d \in Documents /\ d \in Seen /\ "content" \in Pcs
          BY DEF Uploaded, Seen, Pcs
    <3>2. \A q \in CommandRecord : q.pc = "content" /\ q.route = p.route /\ q.seen = d => Stage(q, m)
          BY <1>3, <2>1, <3>1 DEF Stage
    <3> QED BY <1>1, <1>2, <2>1, <2>2, <3>1, <3>2, SeesKeeps
  <2> QED BY <1>4, <1>7, <2>1, <2>2 DEF AnalyzeRead
<1>8. CASE AnalyzeContent(c)
  <2>1. UNCHANGED made /\ p.route = "analyze" /\ p.pc = "content"
        BY <1>1, <1>8 DEF AnalyzeContent, At
  <2>2. p.seen \in Documents
        BY <1>1, <2>1 DEF Stage
  <2>3. CASE file[p.seen].content
    <3>1. Goes(c, "ask") \/ Result(c, "completed")
          BY <1>1, <1>8, <2>3 DEF AnalyzeContent
    <3>2. Shown(p, m)
          BY <1>3, <2>1, <2>2, <2>3 DEF Shown
    <3>3. \A q \in CommandRecord : q.pc = "ask" /\ q.route = p.route /\ q.seen = p.seen => Stage(q, m)
          BY <1>3, <2>1, <2>2, <2>3 DEF Stage
    <3> QED BY <1>1, <1>2, <2>1, <3>1, <3>2, <3>3, ResultKeeps, GoesKeeps
  <2>4. CASE ~file[p.seen].content
        BY <1>1, <1>4, <1>8, <2>1, <2>4 DEF AnalyzeContent
  <2> QED BY <2>3, <2>4
<1> QED BY <1>5, <1>6, <1>7, <1>8

\* The records of a search are stored one by one, and counted, before it is completed.
LEMMA SearchKeeps ==
  ASSUME AnswersInv, NEW c \in Commands, UNCHANGED <<row, file>>,
         SearchCreate(c) \/ SearchAnswers(c) \/ SearchStore(c)
  PROVE  AnswersInv'
<1>1. PICK p \in CommandRecord, m \in MadeRecord : p = command[c] /\ m = made[c] /\ Stage(p, m)
      BY StageNow
<1>2. p.pc \in {"route", "search", "found"} /\ p.route = "research" /\ UNCHANGED <<messages, rows>>
      BY <1>1 DEF SearchCreate, SearchAnswers, SearchStore, At
<1>3. ASSUME NEW status \in {"waiting", "failed"}, Result(c, status), made' = [made EXCEPT ![c].search = status]
      PROVE  AnswersInv'
  <2> DEFINE n == [m EXCEPT !.search = status]
  <2>1. n \in MadeRecord
        BY DEF MadeRecord
  <2>2. made' = [made EXCEPT ![c] = n]
        BY <1>1, <1>3 DEF AnswersInv, CommandsTyped
  <2>3. PICK q \in CommandRecord :
          /\ command' = [command EXCEPT ![c] = q]
          /\ q.pc = "reply" /\ q.route = command[c].route /\ q.seen = command[c].seen
          /\ q.left = command[c].left /\ q.status = status
    <3>1. status \in Statuses
          BY DEF Statuses
    <3> QED BY <1>3, <3>1, ResultRecord
  <2>4. Stage(q, n)
        BY <2>3 DEF Stage
  <2> QED BY <1>1, <1>2, <2>1, <2>2, <2>3, <2>4, QuietKeeps
<1>4. CASE SearchCreate(c)
  <2>1. CASE Goes(c, "search") /\ made' = [made EXCEPT ![c].search = "running"]
    <3> DEFINE n == [m EXCEPT !.search = "running"]
    <3>1. n \in MadeRecord /\ n.found = m.found
          BY DEF MadeRecord
    <3>2. made' = [made EXCEPT ![c] = n]
          BY <1>1, <2>1 DEF AnswersInv, CommandsTyped
    <3>3. PICK q \in CommandRecord :
            /\ command' = [command EXCEPT ![c] = q]
            /\ q.pc = "search" /\ q.route = command[c].route /\ q.seen = command[c].seen
            /\ q.left = command[c].left /\ q.status = command[c].status
          BY <2>1, GoesRecord DEF Pcs
    <3>4. m.found = 0
          BY <1>1, <1>4, NothingYet DEF SearchCreate, At
    <3> HIDE DEF n
    <3>5. Stage(q, n)
          BY <3>1, <3>3, <3>4 DEF Stage
    <3> QED BY <1>1, <1>2, <3>1, <3>2, <3>3, <3>5, QuietKeeps
  <2>2. CASE Result(c, "waiting") /\ made' = [made EXCEPT ![c].search = "waiting"]
        BY <1>3, <2>2
  <2> QED BY <1>4, <2>1, <2>2 DEF SearchCreate
<1>5. CASE SearchAnswers(c)
  <2>1. ASSUME NEW k \in 0 .. MaxFound, Sees(c, "found", k), UNCHANGED made PROVE AnswersInv'
    <3>1. k \in Nat /\ k \in Seen /\ "found" \in Pcs
          BY AssistantAssumption DEF Seen, Pcs
    <3>2. m.found = 0
          BY <1>1, <1>5 DEF SearchAnswers, At, Stage
    <3>3. \A q \in CommandRecord : q.pc = "found" /\ q.route = p.route /\ q.seen = k => Stage(q, m)
          BY <3>1, <3>2 DEF Stage
    <3> QED BY <1>1, <1>2, <2>1, <3>1, <3>3, SeesKeeps
  <2>2. CASE Result(c, "failed") /\ made' = [made EXCEPT ![c].search = "failed"]
        BY <1>3, <2>2
  <2> QED BY <1>5, <2>1, <2>2 DEF SearchAnswers
<1>6. CASE SearchStore(c)
  <2>1. p.pc = "found"
        BY <1>1, <1>6 DEF SearchStore, At
  <2>2. p.seen \in Nat /\ m.found <= p.seen /\ m.found \in Nat
        BY <1>1, <2>1 DEF Stage, MadeRecord
  <2>3. CASE m.found < p.seen
    <3> DEFINE n == [m EXCEPT !.found = @ + 1]
    <3>1. n \in MadeRecord /\ n.found = m.found + 1
          BY <2>2 DEF MadeRecord
    <3>2. made' = [made EXCEPT ![c] = n] /\ UNCHANGED command
          BY <1>1, <1>6, <2>3 DEF SearchStore, AnswersInv, CommandsTyped
    <3>3. command' = [command EXCEPT ![c] = p]
          BY <1>1, <3>2 DEF AnswersInv, CommandsTyped
    <3> HIDE DEF n
    <3>4. Stage(p, n)
          BY <2>1, <2>2, <2>3, <3>1 DEF Stage
    <3> QED BY <1>1, <1>2, <3>1, <3>2, <3>3, <3>4, QuietKeeps
  <2>4. CASE ~(m.found < p.seen)
    <3> DEFINE n == [m EXCEPT !.search = "completed"]
    <3>1. n \in MadeRecord /\ n.found = m.found /\ n.search = "completed"
          BY DEF MadeRecord
    <3>2. made' = [made EXCEPT ![c] = n] /\ Result(c, "completed")
          BY <1>1, <1>6, <2>4 DEF SearchStore, AnswersInv, CommandsTyped
    <3>3. PICK q \in CommandRecord :
            /\ command' = [command EXCEPT ![c] = q]
            /\ q.pc = "reply" /\ q.route = command[c].route /\ q.seen = command[c].seen
            /\ q.left = command[c].left /\ q.status = "completed"
          BY <3>2, ResultRecord DEF Statuses
    <3>4. m.found = p.seen
          BY <2>2, <2>4
    <3> HIDE DEF n
    <3>5. Shown(q, n)
          BY <1>1, <1>2, <3>1, <3>3, <3>4 DEF Shown
    <3>6. Stage(q, n)
          BY <3>3, <3>5 DEF Stage
    <3> QED BY <1>1, <1>2, <3>1, <3>2, <3>3, <3>6, QuietKeeps
  <2> QED BY <2>3, <2>4
<1> QED BY <1>4, <1>5, <1>6

\* An execution that has a row keeps one, whatever becomes of it.
RowStays ==
  /\ DOMAIN row' = Executions
  /\ \A e \in Executions : /\ DOMAIN row'[e] = {"status", "results"}
                           /\ row[e].status # "none" => row'[e].status # "none"

LEMMA StatusIsSet ==
  ASSUME RowsTyped, NEW e \in Executions, NEW status, row[e].status # "none" => status # "none",
         row' = [row EXCEPT ![e].status = status]
  PROVE  RowStays /\ row'[e].status = status
BY DEF RowsTyped, RowStays

LEMMA RowIsSet ==
  ASSUME RowsTyped, NEW e \in Executions, NEW status, NEW results, status # "none",
         row' = [row EXCEPT ![e] = [status |-> status, results |-> results]]
  PROVE  RowStays
BY DEF RowsTyped, RowStays

LEMMA EngineRows ==
  ASSUME RowsTyped, NEW e \in Executions, Command(e) \/ Request(e) \/ Proceed(e) \/ Die(e)
  PROVE  RowStays
<1>1. CASE UNCHANGED row
      BY <1>1 DEF RowsTyped, RowStays
<1>2. CASE Command(e)
  <2>1. row' = [row EXCEPT ![e].status = "queued"] /\ (row[e].status # "none" => "queued" # "none")
        BY <1>2 DEF Command
  <2> QED BY <2>1, StatusIsSet
<1>3. CASE Request(e) /\ ~UNCHANGED row
  <2>1. row' = [row EXCEPT ![e].status = "running"] /\ (row[e].status # "none" => "running" # "none")
        BY <1>3 DEF Request
  <2> QED BY <2>1, StatusIsSet
<1>4. CASE Answer(e)
  <2> DEFINE status == IF client[e].error /\ row[e].status = "queued" THEN "failed" ELSE row[e].status
  <2>1. row' = [row EXCEPT ![e].status = status] /\ (row[e].status # "none" => status # "none")
        BY <1>4 DEF Answer
  <2> HIDE DEF status
  <2> QED BY <2>1, StatusIsSet
<1>5. CASE Load(e) /\ ~UNCHANGED row
  <2>1. row' = [row EXCEPT ![e] = [status |-> "running", results |-> <<>>]] /\ "running" # "none"
        BY <1>5 DEF Load
  <2> QED BY <2>1, RowIsSet
<1>6. CASE (Step(e) \/ Tool(e)) /\ ~UNCHANGED row
  <2>1. row' = [row EXCEPT ![e] = [status |-> "failed", results |-> run[e].results]] /\ "failed" # "none"
        BY <1>6 DEF Step, Tool, Failed
  <2> QED BY <2>1, RowIsSet
<1>7. CASE Finish(e)
  <2>1. row' = [row EXCEPT ![e] = [status |-> "completed", results |-> run[e].results]] /\ "completed" # "none"
        BY <1>7 DEF Finish
  <2> QED BY <2>1, RowIsSet
<1> QED BY <1>1, <1>2, <1>3, <1>4, <1>5, <1>6, <1>7 DEF Proceed, Submit, Die

\* The execution that a command starts has a row before the command waits for it.
LEMMA WorkflowKeeps ==
  ASSUME AnswersInv, NEW c \in Commands,
         (WorkflowStarted(c) /\ UNCHANGED <<row, file>>) \/ WorkflowStart(c)
  PROVE  AnswersInv'
<1>1. PICK p \in CommandRecord, m \in MadeRecord : p = command[c] /\ m = made[c] /\ Stage(p, m)
      BY StageNow
<1>2. p.pc \in {"route", "wait"} /\ p.route = "workflow" /\ UNCHANGED <<messages, rows, file>>
      BY <1>1 DEF WorkflowStart, WorkflowStarted, At, recorded
<1>3. CASE WorkflowStart(c)
  <2>1. ASSUME NEW status \in {"not_found", "waiting"}, Result(c, status), UNCHANGED <<made, engineVars>>
        PROVE  AnswersInv'
        BY <1>1, <1>2, <2>1, RefusesKeeps DEF engineVars
  <2>2. ASSUME NEW e \in Executions, Command(e), made' = [made EXCEPT ![c].execution = e], Goes(c, "wait")
        PROVE  AnswersInv'
    <3> DEFINE n == [m EXCEPT !.execution = e]
    <3>1. n \in MadeRecord /\ n.execution = e
          BY DEF MadeRecord
    <3>2. made' = [made EXCEPT ![c] = n]
          BY <1>1, <2>2 DEF AnswersInv, CommandsTyped
    <3>3. PICK q \in CommandRecord :
            /\ command' = [command EXCEPT ![c] = q]
            /\ q.pc = "wait" /\ q.route = command[c].route /\ q.seen = command[c].seen
            /\ q.left = command[c].left /\ q.status = command[c].status
          BY <2>2, GoesRecord DEF Pcs
    <3>4. RowStays /\ row'[e].status = "queued"
      <4>1. row' = [row EXCEPT ![e].status = "queued"] /\ (row[e].status # "none" => "queued" # "none")
            BY <2>2 DEF Command
      <4> QED BY <4>1, StatusIsSet DEF AnswersInv
    <3>5. RowsGrow /\ RowsTyped'
          BY <1>2, <3>4 DEF RowsGrow, RowStays, AnswersInv, RowsTyped, rows
    <3> HIDE DEF n
    <3>6. Stage(q, n)'
          BY <3>1, <3>3, <3>4 DEF Stage
    <3> QED BY <1>1, <1>2, <3>1, <3>2, <3>3, <3>5, <3>6, CommandKeeps
  <2> QED BY <1>3, <2>1, <2>2 DEF WorkflowStart
<1>4. CASE WorkflowStarted(c) /\ UNCHANGED <<row, file>>
  <2>1. UNCHANGED made /\ p.pc = "wait" /\ (Goes(c, "lost") \/ Result(c, "failed") \/ Result(c, "completed"))
        BY <1>1, <1>4 DEF WorkflowStarted, At
  <2>2. Shown(p, m)
        BY <1>1, <1>2, <2>1 DEF Stage, Shown
  <2>3. \A q \in CommandRecord : q.pc = "lost" => Stage(q, m)
        BY DEF Stage
  <2>4. "lost" \in Pcs /\ "completed" \in Statuses
        BY DEF Pcs, Statuses
  <2> QED BY <1>1, <1>2, <1>4, <2>1, <2>2, <2>3, <2>4, GoesKeeps, ResultKeeps, RefusesKeeps
<1> QED BY <1>3, <1>4

\* The processing of a document changes no row that a reply spoke of: a text is stored once.
LEMMA DocumentsKeep ==
  ASSUME AnswersInv, NEW d \in Documents, Upload(d) \/ Process(d), UNCHANGED assistantVars
  PROVE  AnswersInv'
<1>1. /\ DOMAIN file = Documents
      /\ \A x \in Documents : DOMAIN file[x] = {"status", "job", "text", "content", "sections", "linked", "pc"}
      BY DEF AnswersInv, RowsTyped
<1>2. /\ DOMAIN file' = Documents
      /\ \A x \in Documents : DOMAIN file'[x] = DOMAIN file[x] /\ (file[x].content => file'[x].content)
  <2>1. CASE Upload(d)
    <3>1. PICK text \in Texts : file' = [file EXCEPT ![d].status = "uploaded", ![d].text = text, ![d].pc = "task"]
          BY <2>1 DEF Upload
    <3> DEFINE f == [file[d] EXCEPT !.status = "uploaded", !.text = text, !.pc = "task"]
    <3>2. DOMAIN f = DOMAIN file[d] /\ f.content = file[d].content
          BY <1>1
    <3>3. file' = [file EXCEPT ![d] = f]
          BY <1>1, <3>1
    <3> HIDE DEF f
    <3> QED BY <1>1, <3>2, <3>3
  <2>2. CASE TakeJob(d)
        BY <1>1, <2>2 DEF TakeJob
  <2>3. CASE TakeDocument(d)
        BY <1>1, <2>3 DEF TakeDocument
  <2>4. CASE Index(d)
    <3>1. Indexed(file[d]).content /\ DOMAIN Indexed(file[d]) = DOMAIN file[d]
          BY <1>1 DEF Indexed
    <3>2. CASE file' = [file EXCEPT ![d] = Indexed(@)]
          BY <1>1, <3>1, <3>2
    <3>3. CASE file' = [file EXCEPT ![d].pc = "fail"]
          BY <1>1, <3>3
    <3> QED BY <2>4, <3>2, <3>3 DEF Index
  <2>5. CASE FailDocument(d)
        BY <1>1, <2>5 DEF FailDocument
  <2>6. CASE FailJob(d)
        BY <1>1, <2>6 DEF FailJob
  <2> QED BY <2>1, <2>2, <2>3, <2>4, <2>5, <2>6 DEF Process
<1>3. UNCHANGED <<messages, command, made, rows, row>>
      BY DEF assistantVars, rows, engineVars, Upload, Process, TakeJob, TakeDocument, Index, FailDocument, FailJob
<1>4. RowsGrow
      BY <1>1, <1>2, <1>3 DEF RowsGrow, rows
<1>5. RowsTyped'
      BY <1>1, <1>2, <1>3 DEF AnswersInv, RowsTyped, rows
<1> QED BY <1>3, <1>4, <1>5, RowsKeep

\* A message of the user; before the first one the workspace may be any that has no command.
LEMMA SayKeeps ==
  ASSUME AnswersInv, NEW c \in Commands, Say(c)
  PROVE  AnswersInv'
<1> DEFINE new == [role |-> "user", of |-> c, status |-> "completed"]
<1>2. /\ command[c].pc = "none" /\ messages' = Append(messages, new)
      /\ Existing /\ UNCHANGED <<activity, made, row, file>>
      BY DEF Say, engineVars, recorded
<1>3. PICK q \in CommandRecord : command' = [command EXCEPT ![c] = q] /\ q.pc \in {"route", "lost"} /\ q.seen = None
  <2>1. CASE \E route \in Routes : command' = [command EXCEPT ![c] = [Unasked EXCEPT !.pc = "route", !.route = route]]
    <3>1. PICK route \in Routes : command' = [command EXCEPT ![c] = [Unasked EXCEPT !.pc = "route", !.route = route]]
          BY <2>1
    <3> DEFINE q == [Unasked EXCEPT !.pc = "route", !.route = route]
    <3>2. Unasked \in CommandRecord /\ Unasked.seen = None /\ "route" \in Pcs
          BY DEF Unasked, CommandRecord, Pcs, Seen, Statuses
    <3>3. q \in CommandRecord /\ q.pc = "route" /\ q.seen = None
          BY <3>2 DEF CommandRecord
    <3> QED BY <3>1, <3>3
  <2>2. CASE command' = [command EXCEPT ![c].pc = "lost"]
    <3> DEFINE q == [command[c] EXCEPT !.pc = "lost"]
    <3>1. command \in [Commands -> CommandRecord] /\ command[c].seen = None /\ "lost" \in Pcs
          BY <1>2, StageNow DEF AnswersInv, CommandsTyped, Stage, Pcs
    <3>2. q \in CommandRecord /\ q.pc = "lost" /\ q.seen = None
          BY <3>1 DEF CommandRecord
    <3>3. command' = [command EXCEPT ![c] = q]
          BY <2>2, <3>1
    <3> QED BY <3>2, <3>3
  <2> QED BY <2>1, <2>2 DEF Say
<1>4. command' = [command EXCEPT ![c] = q]
      BY <1>3
<1>5. new \in Message
      BY DEF Message, Statuses
<1>6. CommandsTyped'
      BY <1>2, <1>4, <1>5 DEF AnswersInv, CommandsTyped
<1>7. RowsTyped'
  <2>1. CASE Asked = {}
    <3>1. PICK some \in BOOLEAN : /\ todo' = [t \in Tasks |-> IF some THEN "active" ELSE "none"]
                                  /\ project' = IF some THEN Projects ELSE {}
          BY <1>2, <2>1 DEF Existing
    <3> QED BY <1>2, <3>1 DEF AnswersInv, RowsTyped
  <2>2. CASE Asked # {}
        BY <1>2, <2>2 DEF Existing, AnswersInv, RowsTyped
  <2> QED BY <2>1, <2>2
<1>8. RepliesInv'
  <2>1. messages \in Seq(Message) /\ command \in [Commands -> CommandRecord]
        BY DEF AnswersInv, CommandsTyped
  <2>2. ASSUME NEW i \in DOMAIN messages', messages'[i].role = "assistant"
        PROVE  command'[messages'[i].of].pc = "done" /\ command'[messages'[i].of].status = messages'[i].status
    <3>1. i \in DOMAIN messages /\ messages'[i] = messages[i] /\ messages[i] \in Message
          BY <1>2, <1>5, <2>1, <2>2
    <3>2. command[messages[i].of].pc = "done" /\ command[messages[i].of].status = messages[i].status
          BY <2>2, <3>1 DEF AnswersInv, RepliesInv
    <3>3. messages[i].of # c
          BY <1>2, <3>2
    <3> QED BY <1>4, <2>1, <3>1, <3>2, <3>3 DEF Message
  <2> QED BY <2>2 DEF RepliesInv
<1>9. ASSUME NEW d \in Commands PROVE StageOf(d)'
  <2>1. PICK p \in CommandRecord, n \in MadeRecord : p = command'[d] /\ n = made'[d]
        BY <1>6, <1>9 DEF CommandsTyped
  <2>2. CASE d = c \/ Asked = {}
    <3>1. p.pc \in {"none", "route", "lost"} /\ p.seen = None /\ n = Nothing
      <4>1. CASE d = c
        <5>1. made[c] = Nothing
              BY <1>2, StageNow DEF Stage
        <5> QED BY <1>2, <1>3, <1>4, <2>1, <4>1, <5>1 DEF AnswersInv, CommandsTyped
      <4>2. CASE d # c /\ Asked = {}
        <5>1. command[d].pc = "none"
              BY <1>9, <4>2 DEF Asked
        <5>2. made[d] = Nothing /\ command[d].seen = None
              BY <1>9, <5>1, StageNow DEF Stage
        <5> QED BY <1>2, <1>4, <1>9, <2>1, <4>2, <5>1, <5>2 DEF AnswersInv, CommandsTyped
      <4> QED BY <2>2, <4>1, <4>2
    <3>2. Stage(p, n)'
          BY <3>1 DEF Stage
    <3> QED BY <2>1, <3>2 DEF StageOf
  <2>3. CASE d # c /\ Asked # {}
    <3>1. RowsGrow
          BY <1>2, <2>3 DEF RowsGrow, Existing
    <3>2. p = command[d] /\ n = made[d]
          BY <1>2, <1>4, <1>9, <2>1, <2>3 DEF AnswersInv, CommandsTyped
    <3>3. Stage(p, n)
          BY <1>9, <3>2, StageNow
    <3>4. Stage(p, n)'
          BY <3>1, <3>3, StageKeeps
    <3> QED BY <2>1, <3>4 DEF StageOf
  <2> QED BY <2>2, <2>3
<1> QED BY <1>6, <1>7, <1>8, <1>9 DEF AnswersInv, StagesInv

LEMMA AnsweringKeeps ==
  ASSUME AnswersInv, NEW c \in Commands, Work(c)
  PROVE  AnswersInv'
<1>1. CASE WorkflowStart(c)
      BY <1>1, WorkflowKeeps
<1>2. CASE Answering(c) /\ UNCHANGED <<row, file>>
      BY <1>2, ReplyKeeps, DecidesKeep, TaskKeeps, CompleteKeeps, PlanKeeps, ProjectKeeps, DelegateKeeps, ModelKeeps,
         ConsultKeeps, SearchKeeps, WorkflowKeeps DEF Answering
<1>3. UNCHANGED <<engineVars, recorded>> => UNCHANGED <<row, file>>
      BY DEF engineVars, recorded
<1> QED BY <1>1, <1>2, <1>3 DEF Work

LEMMA EngineKeeps ==
  ASSUME AnswersInv, NEW e \in Executions, Command(e) \/ Request(e) \/ Proceed(e) \/ Die(e),
         UNCHANGED <<recorded, assistantVars>>
  PROVE  AnswersInv'
<1>1. UNCHANGED <<messages, command, made, todo, project, activity, file>>
      BY DEF recorded, assistantVars, rows
<1>2. RowStays
      BY EngineRows DEF AnswersInv
<1>3. RowsGrow
      BY <1>1, <1>2 DEF RowsGrow, RowStays
<1>4. RowsTyped'
      BY <1>1, <1>2 DEF RowStays, AnswersInv, RowsTyped
<1> QED BY <1>1, <1>3, <1>4, RowsKeep

LEMMA RequestsKeep ==
  ASSUME AnswersInv, UNCHANGED <<assistantVars, file, engineVars>>
  PROVE  AnswersInv'
<1>1. UNCHANGED <<messages, command, made, todo, project, activity, file, row>>
      BY DEF assistantVars, rows, engineVars
<1>2. RowsGrow /\ RowsTyped'
      BY <1>1 DEF RowsGrow, AnswersInv, RowsTyped
<1> QED BY <1>1, <1>2, RowsKeep

LEMMA NextKeepsAnswers ==
  ASSUME AnswersInv, [Next]_vars
  PROVE  AnswersInv'
<1>1. ASSUME NEW e \in Executions, Command(e) \/ Request(e) \/ Proceed(e) \/ Die(e), UNCHANGED <<recorded, assistantVars>>
      PROVE  AnswersInv'
      BY <1>1, EngineKeeps
<1>2. ASSUME NEW d \in Documents, Upload(d) \/ Process(d), UNCHANGED assistantVars PROVE AnswersInv'
      BY <1>2, DocumentsKeep
<1>3. ASSUME NEW r \in Requests, Arrive(r) \/ Serve(r), UNCHANGED assistantVars PROVE AnswersInv'
  <2>1. UNCHANGED <<file, engineVars>>
        BY <1>3 DEF Arrive, Serve, Saw, RememberRead, RememberWrite,
           CorrectRead, CorrectWrite, ForgetRead, ForgetWrite, IngestRead, IngestWrite
  <2> QED BY <1>3, <2>1, RequestsKeep
<1>4. CASE WorkspaceNext /\ UNCHANGED assistantVars
      BY <1>1, <1>2, <1>3, <1>4 DEF WorkspaceNext
<1>5. CASE Background /\ UNCHANGED assistantVars
      BY <1>1, <1>2, <1>5 DEF Background
<1>6. ASSUME NEW c \in Commands, Say(c) \/ Work(c) PROVE AnswersInv'
      BY <1>6, SayKeeps, AnsweringKeeps
<1>7. CASE UNCHANGED vars
      BY <1>7, RequestsKeep DEF vars, recorded
<1> QED BY <1>4, <1>5, <1>6, <1>7 DEF Next

LEMMA EvidenceIsShown ==
  ASSUME NEW c \in Commands, Shown(command[c], made[c])
  PROVE  Evidence(c)
BY DEF Shown, Evidence

\* A reply of Echo that says that something was done is true, then and later: the task, the
\* project, the plan with its steps, the response, the results and the execution it speaks of
\* are stored, whatever other commands, requests and tasks do in between and after it, and
\* wherever a route breaks off (EchoCommandService._route stores before it answers).
THEOREM AnswersAreTrue == Spec => []AnswersHaveEvidence
<1>1. AnswersInv /\ [Next]_vars => AnswersInv'
      BY NextKeepsAnswers
<1>2. AnswersInv => AnswersHaveEvidence
  <2> SUFFICES ASSUME AnswersInv, NEW i \in Replies, messages[i].status = "completed" PROVE Evidence(messages[i].of)
      BY DEF AnswersHaveEvidence
  <2>1. PICK c \in Commands : c = messages[i].of
    <3>1. messages[i] \in Message
          BY DEF Replies, AnswersInv, CommandsTyped
    <3> QED BY <3>1 DEF Message
  <2>2. command[c].pc = "done" /\ command[c].status = "completed"
        BY <2>1 DEF Replies, AnswersInv, RepliesInv
  <2>3. Shown(command[c], made[c])
        BY <2>2, StageNow DEF Stage
  <2> QED BY <2>1, <2>3, EvidenceIsShown
<1> QED BY <1>1, <1>2, InitAnswers, PTL DEF Spec
-----------------------------------------------------------------------------
(***************************************************************************)
(* The order of the steps.  A set of numbers that has a least element is   *)
(* how induction is put here; the loop of _ordered_steps is followed turn  *)
(* by turn: what it has queued so far, each once, is what waits for        *)
(* nothing that is not in the order.                                       *)
(***************************************************************************)
LEMMA LeastOf ==
  ASSUME NEW T \in SUBSET Nat, T # {}
  PROVE  \E x \in T : \A y \in T : x <= y
<1> DEFINE R == OpToRel(<, Nat)
<1>1. IsWellFoundedOn(R, Nat)
  BY NatLessThanWellFounded
<1>2. \A x, y \in Nat : y < x => <<y, x>> \in R
  BY DEF OpToRel
<1> HIDE DEF R
<1>3. PICK x \in T : \A y \in T : ~ (<<y, x>> \in R)
  BY <1>1, WFMin
<1>4. ASSUME NEW y \in T
      PROVE  x <= y
  <2>1. ~ (y < x)
    BY <1>2, <1>3
  <2>2. QED
    BY <2>1
<1>5. QED
  BY <1>4

LEMMA Induction ==
  ASSUME NEW T, 0 \in T, \A n \in Nat : n \in T => n + 1 \in T
  PROVE  Nat \subseteq T
<1>1. SUFFICES ASSUME Nat \ T # {} PROVE FALSE
  OBVIOUS
<1>2. PICK x \in Nat \ T : \A y \in Nat \ T : x <= y
  BY <1>1, LeastOf
<1>3. x # 0 /\ x - 1 \in Nat
  BY <1>2
<1>4. x - 1 \in T
  BY <1>2, <1>3
<1>5. QED
  BY <1>2, <1>3, <1>4

-----------------------------------------------------------------------------
\* f lists the elements of S from the least to the greatest.
Lists(f, S) == f \in [1 .. Cardinality(S) -> S] /\ \A i, j \in DOMAIN f : i < j => f[i] < f[j]

LEMMA ListExists ==
  ASSUME NEW S \in SUBSET Nat, IsFiniteSet(S)
  PROVE  \E f : Lists(f, S)
<1> DEFINE T == {n \in Nat : \A U \in SUBSET Nat : IsFiniteSet(U) /\ Cardinality(U) = n => \E f : Lists(f, U)}
<1>1. 0 \in T
  <2>1. ASSUME NEW U \in SUBSET Nat, IsFiniteSet(U), Cardinality(U) = 0 PROVE Lists(<<>>, U)
        BY <2>1, FS_EmptySet DEF Lists
  <2> QED BY <2>1
<1>2. ASSUME NEW n \in Nat, n \in T PROVE n + 1 \in T
  <2>1. SUFFICES ASSUME NEW U \in SUBSET Nat, IsFiniteSet(U), Cardinality(U) = n + 1 PROVE \E f : Lists(f, U)
        OBVIOUS
  <2>2. U # {}
        BY <2>1, FS_EmptySet
  <2>3. PICK x \in U : \A y \in U : x <= y
        BY <2>2, LeastOf
  <2>4. IsFiniteSet(U \ {x}) /\ Cardinality(U \ {x}) = n
    <3>1. IsFiniteSet(U \ {x}) /\ Cardinality(U \ {x}) = Cardinality(U) - 1
          BY <2>1, FS_RemoveElement
    <3> QED BY <2>1, <3>1
  <2>5. PICK f : Lists(f, U \ {x})
        BY <1>2, <2>4
  <2>6. f \in [1 .. n -> U \ {x}] /\ \A i, j \in 1 .. n : i < j => f[i] < f[j]
        BY <2>4, <2>5 DEF Lists
  <2> DEFINE g == [i \in 1 .. n + 1 |-> IF i = 1 THEN x ELSE f[i - 1]]
  <2>7. \A i \in 1 .. n + 1 : i # 1 => g[i] = f[i - 1] /\ i - 1 \in 1 .. n /\ f[i - 1] \in U /\ f[i - 1] # x
        BY <2>6
  <2>8. g[1] = x /\ g \in [1 .. n + 1 -> U]
        BY <2>7
  <2> HIDE DEF g
  <2>9. ASSUME NEW i \in 1 .. n + 1, NEW j \in 1 .. n + 1, i < j PROVE g[i] < g[j]
    <3>1. j # 1 /\ g[j] = f[j - 1] /\ j - 1 \in 1 .. n /\ g[j] \in Nat
      <4>1. j # 1
            BY <2>9
      <4>2. g[j] = f[j - 1] /\ j - 1 \in 1 .. n /\ f[j - 1] \in U
            BY <2>7, <4>1
      <4> QED BY <2>1, <4>1, <4>2
    <3>2. CASE i = 1
      <4>1. g[j] \in U /\ g[j] # x /\ x \in Nat
            BY <2>1, <2>7, <3>1
      <4>2. x <= g[j] /\ g[i] = x
            BY <2>3, <2>8, <3>2, <4>1
      <4> QED BY <3>1, <4>1, <4>2
    <3>3. CASE i # 1
      <4>1. g[i] = f[i - 1] /\ i - 1 \in 1 .. n /\ i - 1 < j - 1
            BY <2>7, <2>9, <3>3
      <4> QED BY <2>6, <3>1, <4>1
    <3> QED BY <3>2, <3>3
  <2>10. Lists(g, U)
        BY <2>1, <2>8, <2>9 DEF Lists
  <2> QED BY <2>10
<1> HIDE DEF T
<1>3. Nat \subseteq T
      BY <1>1, <1>2, Induction
<1>4. Cardinality(S) \in T
      BY <1>3, FS_CardinalityType
<1> QED BY <1>4 DEF T

LEMMA SortedLists ==
  ASSUME NEW S \in SUBSET Nat, IsFiniteSet(S)
  PROVE  Sorted(S) \in Seq(S) /\ IsInjective(Sorted(S)) /\ ToSet(Sorted(S)) = S
<1> DEFINE f == Sorted(S)
           n == Cardinality(S)
<1>1. n \in Nat
      BY FS_CardinalityType
<1>2. f \in [1 .. n -> S] /\ \A i, j \in 1 .. n : i < j => f[i] < f[j]
  <2>1. f = CHOOSE g \in [1 .. n -> S] : \A i, j \in DOMAIN g : i < j => g[i] < g[j]
        BY DEF Sorted
  <2>2. \E g \in [1 .. n -> S] : \A i, j \in DOMAIN g : i < j => g[i] < g[j]
        BY ListExists DEF Lists
  <2> HIDE DEF f
  <2> QED BY <2>1, <2>2
<1> HIDE DEF f
<1>3. ASSUME NEW i \in 1 .. n, NEW j \in 1 .. n, f[i] = f[j] PROVE i = j
  <2>1. f[i] \in Nat /\ f[j] \in Nat
        BY <1>2
  <2>2. ~(i < j) /\ ~(j < i)
        BY <1>2, <1>3, <2>1
  <2> QED BY <1>1, <2>2
<1>4. f \in Injection(1 .. n, S)
      BY <1>2, <1>3 DEF Injection, IsInjective
<1>5. IsFiniteSet(1 .. n) /\ Cardinality(1 .. n) = n
      BY <1>1, FS_Interval
<1>6. f \in Surjection(1 .. n, S)
      BY <1>4, <1>5, FS_Injection
<1>7. ToSet(f) = S
      BY <1>2, <1>6 DEF Surjection, ToSet
<1>8. f \in Seq(S)
      BY <1>1, <1>2
<1> QED BY <1>4, <1>7, <1>8 DEF Injection, f

\* Two lists put after each other.
LEMMA Concatenated ==
  ASSUME NEW K, NEW a \in Seq(K), NEW b \in Seq(K)
  PROVE  /\ ToSet(a \o b) = ToSet(a) \cup ToSet(b)
         /\ IsInjective(a) /\ IsInjective(b) /\ ToSet(a) \cap ToSet(b) = {} => IsInjective(a \o b)
<1> DEFINE c == a \o b
           m == Len(a)
           n == Len(b)
<1>1. /\ c \in Seq(K) /\ m \in Nat /\ n \in Nat /\ DOMAIN a = 1 .. m /\ DOMAIN b = 1 .. n /\ DOMAIN c = 1 .. m + n
      /\ \A i \in 1 .. m : c[i] = a[i]
      /\ \A i \in m + 1 .. m + n : c[i] = b[i - m] /\ i - m \in 1 .. n
      /\ \A i \in 1 .. n : i + m \in m + 1 .. m + n /\ c[i + m] = b[i]
      OBVIOUS
<1> HIDE DEF c, m, n
<1>2. 1 .. m + n = (1 .. m) \cup (m + 1 .. m + n)
      BY <1>1
<1>3. ToSet(c) = ToSet(a) \cup ToSet(b)
  <2>1. ToSet(c) \subseteq ToSet(a) \cup ToSet(b)
        BY <1>1, <1>2 DEF ToSet
  <2>2. ToSet(a) \subseteq ToSet(c)
        BY <1>1, <1>2 DEF ToSet
  <2>3. ASSUME NEW i \in 1 .. n PROVE b[i] \in ToSet(c)
    <3>1. i + m \in DOMAIN c /\ c[i + m] = b[i]
          BY <1>1, <1>2
    <3> QED BY <3>1 DEF ToSet
  <2>4. ToSet(b) \subseteq ToSet(c)
        BY <1>1, <2>3 DEF ToSet
  <2> QED BY <2>1, <2>2, <2>4
<1>4. ASSUME IsInjective(a), IsInjective(b), ToSet(a) \cap ToSet(b) = {} PROVE IsInjective(c)
  <2>1. \A i \in 1 .. m : c[i] \in ToSet(a)
        BY <1>1 DEF ToSet
  <2>2. \A i \in m + 1 .. m + n : c[i] \in ToSet(b)
        BY <1>1 DEF ToSet
  <2>3. ASSUME NEW i \in 1 .. m + n, NEW j \in 1 .. m + n, c[i] = c[j] PROVE i = j
    <3>1. CASE i \in 1 .. m /\ j \in 1 .. m
          BY <1>1, <1>4, <2>3, <3>1 DEF IsInjective
    <3>2. CASE i \in m + 1 .. m + n /\ j \in m + 1 .. m + n
      <4>1. i - m \in DOMAIN b /\ j - m \in DOMAIN b /\ b[i - m] = b[j - m]
            BY <1>1, <2>3, <3>2
      <4>2. i - m = j - m
            BY <1>4, <4>1 DEF IsInjective
      <4> QED BY <1>1, <4>2
    <3> QED BY <1>2, <1>4, <2>1, <2>2, <2>3, <3>1, <3>2
  <2> QED BY <1>1, <2>3 DEF IsInjective
<1> QED BY <1>3, <1>4 DEF c

LEMMA Regrouped ==
  ASSUME NEW K, NEW a \in Seq(K), NEW b \in Seq(K), NEW c \in Seq(K), NEW d, d = a \o b
  PROVE  a \o (b \o c) = d \o c
<1>1. (a \o b) \o c = a \o (b \o c)
      BY ConcatAssociative
<1> QED BY <1>1, Zenon

LEMMA Joining ==
  ASSUME NEW K, NEW a \in Seq(K), NEW b \in Seq(K)
  PROVE  /\ a \o b \in Seq(K) /\ Len(a \o b) = Len(a) + Len(b)
         /\ \A i \in 1 .. Len(a) + Len(b) : (a \o b)[i] = IF i <= Len(a) THEN a[i] ELSE b[i - Len(a)]
BY ConcatProperties

\* The first of one list goes to the end of another.
LEMMA MovedOver ==
  ASSUME NEW K, NEW a \in Seq(K), NEW b \in Seq(K), b # <<>>
  PROVE  /\ Head(b) \in K /\ Tail(b) \in Seq(K) /\ Append(a, Head(b)) \in Seq(K)
         /\ Len(Append(a, Head(b))) = Len(a) + 1
         /\ Append(a, Head(b)) \o Tail(b) = a \o b
         /\ a \o b \in Seq(K) /\ Head(b) \in ToSet(a \o b)
         /\ IsInjective(a \o b) => Head(b) \notin ToSet(a)
<1> DEFINE c == Append(a, Head(b))
           d == c \o Tail(b)
           e == a \o b
           m == Len(a)
           n == Len(b)
<1>1. /\ Head(b) \in K /\ Tail(b) \in Seq(K) /\ c \in Seq(K) /\ Len(c) = m + 1 /\ m \in Nat /\ n \in Nat \ {0}
      /\ DOMAIN a = 1 .. m /\ Len(Tail(b)) = n - 1 /\ Head(b) = b[1]
      /\ \A i \in 1 .. n - 1 : Tail(b)[i] = b[i + 1]
      /\ \A i \in 1 .. m : c[i] = a[i]
      /\ c[m + 1] = Head(b)
      OBVIOUS
<1>2. /\ d \in Seq(K) /\ Len(d) = m + n
      /\ \A i \in 1 .. m + n : d[i] = IF i <= m + 1 THEN c[i] ELSE Tail(b)[i - (m + 1)]
  <2> DEFINE u == Tail(b)
  <2>1. c \in Seq(K) /\ u \in Seq(K) /\ Len(c) = m + 1 /\ Len(u) = n - 1 /\ (m + 1) + (n - 1) = m + n
        BY <1>1
  <2> HIDE DEF c, u
  <2>2. /\ c \o u \in Seq(K) /\ Len(c \o u) = Len(c) + Len(u)
        /\ \A i \in 1 .. Len(c) + Len(u) : (c \o u)[i] = IF i <= Len(c) THEN c[i] ELSE u[i - Len(c)]
    <3>1. c \in Seq(K) /\ u \in Seq(K)
          BY <2>1
    <3> QED BY <3>1, Joining, Zenon
  <2> HIDE DEF m, n
  <2>3. d = c \o u
        BY DEF u
  <2> HIDE DEF d
  <2>4. \A i \in 1 .. m + n : d[i] = IF i <= m + 1 THEN c[i] ELSE u[i - (m + 1)]
        BY <2>1, <2>2, <2>3
  <2> QED BY <2>1, <2>2, <2>3, <2>4 DEF u
<1>3. /\ e \in Seq(K) /\ Len(e) = m + n /\ DOMAIN e = 1 .. m + n
      /\ \A i \in 1 .. m + n : e[i] = IF i <= m THEN a[i] ELSE b[i - m]
      BY <1>1, ConcatProperties
<1> HIDE DEF c, d, e, m, n
<1>4. ASSUME NEW i \in 1 .. m + n PROVE d[i] = e[i]
  <2>1. CASE i <= m
        BY <1>1, <1>2, <1>3, <2>1
  <2>2. CASE i = m + 1
    <3>1. i - m = 1
          BY <1>1, <2>2
    <3> QED BY <1>1, <1>2, <1>3, <2>2, <3>1
  <2>3. CASE i > m + 1
    <3>1. i - (m + 1) \in 1 .. n - 1 /\ (i - (m + 1)) + 1 = i - m
          BY <1>1, <2>3
    <3> QED BY <1>1, <1>2, <1>3, <2>3, <3>1
  <2> QED BY <1>1, <2>1, <2>2, <2>3
<1>5. d = e
      BY <1>1, <1>2, <1>3, <1>4, SeqEqual
<1>6. m + 1 \in DOMAIN e /\ e[m + 1] = Head(b)
  <2>1. (m + 1) - m = 1 /\ m + 1 \in 1 .. m + n
        BY <1>1
  <2> QED BY <1>1, <1>3, <2>1
<1>7. Head(b) \in ToSet(e)
      BY <1>6 DEF ToSet
<1>8. ASSUME IsInjective(e) PROVE Head(b) \notin ToSet(a)
  <2>1. ASSUME NEW i \in DOMAIN a PROVE a[i] # Head(b)
    <3>1. i \in DOMAIN e /\ e[i] = a[i] /\ i # m + 1
          BY <1>1, <1>3
    <3> QED BY <1>6, <1>8, <3>1 DEF IsInjective
  <2> QED BY <2>1 DEF ToSet
<1> QED BY <1>1, <1>3, <1>5, <1>7, <1>8 DEF c, d, e, m

-----------------------------------------------------------------------------
\* The places at which step k needs a step that is not in the order yet.
Waiting(w, order, k) == {i \in DOMAIN Needs(w, k) : Needs(w, k)[i] \notin ToSet(order)}

\* The loop of _ordered_steps after some turns: what has been queued is what waits for nothing.
Halfway(w, s) ==
  /\ s \in Orders(w)
  /\ IsInjective(s.order \o s.queue)
  /\ ToSet(s.order \o s.queue) = {k \in Ids(w) : s.waits[k] = 0}
  /\ \A k \in Ids(w) : s.waits[k] = Cardinality(Waiting(w, s.order, k))
  /\ \A i \in DOMAIN s.order : ToSet(Needs(w, s.order[i])) \subseteq {s.order[j] : j \in 1 .. i - 1}

LEMMA DefinitionIsFinite ==
  ASSUME WorkflowAssumption, NEW w \in Workflows
  PROVE  /\ Len(w) \in Nat /\ DOMAIN w = 1 .. Len(w) /\ IsFiniteSet(Ids(w)) /\ Ids(w) \subseteq Nat
         /\ \A k \in Ids(w) : Needs(w, k) \in Seq(StepIds \cup {Unknown})
         /\ WellFormed(w) => Cardinality(Ids(w)) = Len(w)
<1> DEFINE Steps == [id : StepIds, needs : Seq(StepIds \cup {Unknown}), tool : {"open", "strict", "denied", "gone"}]
           n == Len(w)
           f == [i \in 1 .. n |-> w[i].id]
<1>1. w \in Seq(Steps) /\ StepIds \subseteq Nat
      BY DEF WorkflowAssumption
<1> HIDE DEF Steps
<1>2. n \in Nat /\ DOMAIN w = 1 .. n /\ \A i \in 1 .. n : w[i] \in Steps
      BY <1>1
<1>3. \A i \in 1 .. n : w[i].id \in StepIds /\ w[i].needs \in Seq(StepIds \cup {Unknown})
      BY <1>2 DEF Steps
<1>4. f \in Surjection(1 .. n, Ids(w))
      BY <1>2 DEF Surjection, Ids
<1>5. IsFiniteSet(1 .. n) /\ Cardinality(1 .. n) = n
  <2> HIDE DEF n
  <2> QED BY <1>2, FS_Interval
<1>6. IsFiniteSet(Ids(w)) /\ (Cardinality(Ids(w)) = n <=> f \in Injection(1 .. n, Ids(w)))
      BY <1>4, <1>5, FS_Surjection
<1>7. ASSUME WellFormed(w) PROVE f \in Injection(1 .. n, Ids(w))
  <2>1. \A i, j \in 1 .. n : f[i] = f[j] => i = j
        BY <1>2, <1>7 DEF WellFormed
  <2> QED BY <1>4, <2>1 DEF Surjection, Injection, IsInjective
<1>8. Ids(w) \subseteq Nat
  <2>1. \A i \in DOMAIN w : w[i].id \in Nat
        BY <1>1, <1>2, <1>3
  <2> QED BY <2>1 DEF Ids
<1>9. ASSUME NEW k \in Ids(w) PROVE Needs(w, k) \in Seq(StepIds \cup {Unknown})
  <2>1. \E i \in DOMAIN w : w[i].id = k
        BY DEF Ids
  <2> QED BY <1>2, <1>3, <2>1 DEF Needs, StepOf
<1> QED BY <1>2, <1>6, <1>7, <1>8, <1>9

\* A step that is taken is one step less to wait for, as often as it is named.
LEMMA OneLess ==
  ASSUME WorkflowAssumption, NEW w \in Workflows, NEW k \in Ids(w), NEW order \in Seq(Ids(w)),
         NEW id \in Ids(w), id \notin ToSet(order)
  PROVE  /\ Cardinality(Waiting(w, order, k)) \in Nat /\ Count(Needs(w, k), id) \in Nat
         /\ Cardinality(Waiting(w, Append(order, id), k)) =
              Cardinality(Waiting(w, order, k)) - Count(Needs(w, k), id)
         /\ Cardinality(Waiting(w, order, k)) = 0 => Waiting(w, order, k) = {}
<1> DEFINE needs == Needs(w, k)
           A == Waiting(w, order, k)
           C == {i \in DOMAIN needs : needs[i] = id}
<1>1. IsFiniteSet(DOMAIN needs)
  <2>1. needs \in Seq(StepIds \cup {Unknown})
        BY DefinitionIsFinite
  <2>2. DOMAIN needs = 1 .. Len(needs) /\ Len(needs) \in Nat
        BY <2>1
  <2> QED BY <2>2, FS_Interval
<1>2. A \subseteq DOMAIN needs /\ C \subseteq A
      BY DEF Waiting
<1>3. IsFiniteSet(A) /\ IsFiniteSet(C) /\ A \cap C = C
      BY <1>1, <1>2, FS_Subset
<1>4. ToSet(Append(order, id)) = ToSet(order) \cup {id}
  <2> DEFINE b == Append(order, id)
             m == Len(order)
  <2>1. m \in Nat /\ DOMAIN order = 1 .. m /\ DOMAIN b = 1 .. m + 1 /\ b[m + 1] = id /\ \A i \in 1 .. m : b[i] = order[i]
        OBVIOUS
  <2> HIDE DEF b, m
  <2>2. 1 .. m + 1 = (1 .. m) \cup {m + 1}
        BY <2>1
  <2>3. ToSet(b) \subseteq ToSet(order) \cup {id}
        BY <2>1, <2>2 DEF ToSet
  <2>4. ToSet(order) \subseteq ToSet(b)
        BY <2>1, <2>2 DEF ToSet
  <2>5. m + 1 \in DOMAIN b
        BY <2>1
  <2>6. id \in ToSet(b)
        BY <2>1, <2>5 DEF ToSet
  <2> QED BY <2>3, <2>4, <2>6 DEF b
<1>5. Waiting(w, Append(order, id), k) = A \ C
      BY <1>4 DEF Waiting
<1>6. Cardinality(A \ C) = Cardinality(A) - Cardinality(C)
      BY <1>3, FS_Difference
<1>7. Count(needs, id) = Cardinality(C)
      BY DEF Count
<1>8. Cardinality(A) \in Nat /\ Cardinality(C) \in Nat /\ (Cardinality(A) = 0 => A = {})
      BY <1>3, FS_CardinalityType, FS_EmptySet
<1> QED BY <1>5, <1>6, <1>7, <1>8

LEMMA TurnKeeps ==
  ASSUME WorkflowAssumption, NEW w \in Workflows, NEW s, Halfway(w, s)
  PROVE  /\ Halfway(w, Turn(w)[s])
         /\ s.queue = <<>> => Turn(w)[s] = s
         /\ s.queue # <<>> => Len(Turn(w)[s].order) = Len(s.order) + 1
<1> DEFINE I == Ids(w)
           id == Head(s.queue)
           waits == [k \in I |-> s.waits[k] - Count(Needs(w, k), id)]
           freed == {k \in I : waits[k] = 0 /\ Count(Needs(w, k), id) > 0}
           order == Append(s.order, id)
           t == [queue |-> Tail(s.queue) \o Sorted(freed), waits |-> waits, order |-> order]
<1>1. s \in Orders(w) /\ Turn(w)[s] = IF s.queue = <<>> THEN s ELSE t
      BY DEF Halfway, Turn
<1>2. CASE s.queue = <<>>
      BY <1>1, <1>2
<1>3. CASE s.queue # <<>>
  <2>1. s.queue \in Seq(I) /\ s.order \in Seq(I) /\ s.waits \in [I -> Int]
        BY <1>1 DEF Orders
  <2>2. /\ id \in I /\ Tail(s.queue) \in Seq(I) /\ order \in Seq(I) /\ Len(order) = Len(s.order) + 1
        /\ order \o Tail(s.queue) = s.order \o s.queue
    <3> QED BY <1>3, <2>1, MovedOver
  <2> DEFINE all == s.order \o s.queue
  <2>3. id \notin ToSet(s.order) /\ id \in ToSet(all) /\ all \in Seq(I)
    <3>1. IsInjective(all)
          BY DEF Halfway
    <3> QED BY <1>3, <2>1, <3>1, MovedOver
  <2>4. ASSUME NEW k \in I
        PROVE  /\ s.waits[k] \in Nat /\ Count(Needs(w, k), id) \in Nat /\ waits[k] = s.waits[k] - Count(Needs(w, k), id)
               /\ waits[k] = Cardinality(Waiting(w, order, k))
               /\ s.waits[k] = 0 => Waiting(w, s.order, k) = {}
    <3>1. s.waits[k] = Cardinality(Waiting(w, s.order, k))
          BY DEF Halfway
    <3> QED BY <2>1, <2>2, <2>3, <3>1, OneLess
  <2> HIDE DEF waits
  <2>5. \A k \in I : s.waits[k] = 0 => Count(Needs(w, k), id) = 0
    <3>1. SUFFICES ASSUME NEW k \in I, s.waits[k] = 0 PROVE Count(Needs(w, k), id) = 0
          OBVIOUS
    <3>2. {i \in DOMAIN Needs(w, k) : Needs(w, k)[i] = id} = {}
      <4>1. Waiting(w, s.order, k) = {}
            BY <2>4, <3>1
      <4> QED BY <2>3, <4>1 DEF Waiting
    <3> QED BY <3>2, FS_EmptySet DEF Count
  <2>6. freed \subseteq I /\ IsFiniteSet(freed) /\ freed \in SUBSET Nat
        BY DefinitionIsFinite, FS_Subset
  <2>7. ToSet(all) = {k \in I : s.waits[k] = 0}
        BY DEF Halfway
  <2>8. ToSet(all) \cap freed = {} /\ ToSet(all) \cup freed = {k \in I : waits[k] = 0}
    <3>1. \A k \in I : s.waits[k] = 0 => waits[k] = 0 /\ k \notin freed
          BY <2>4, <2>5
    <3>2. \A k \in I : waits[k] = 0 /\ s.waits[k] # 0 => k \in freed
          BY <2>4
    <3> QED BY <2>6, <2>7, <3>1, <3>2
  <2> HIDE DEF freed
  <2>9. Sorted(freed) \in Seq(I) /\ IsInjective(Sorted(freed)) /\ ToSet(Sorted(freed)) = freed
        BY <2>6, SortedLists, SeqMonotonic
  <2> DEFINE sorted == Sorted(freed)
             tail == Tail(s.queue)
  <2>10. order \o (tail \o sorted) = all \o sorted
    <3>1. order \in Seq(I) /\ tail \in Seq(I) /\ sorted \in Seq(I) /\ all = order \o tail
          BY <2>2, <2>9
    <3> HIDE DEF order, tail, sorted, all, I
    <3> QED BY <3>1, Regrouped
  <2>11. /\ t.queue = Tail(s.queue) \o Sorted(freed) /\ t.waits = waits /\ t.order = order
         /\ t \in Orders(w)
    <3>1. Tail(s.queue) \o Sorted(freed) \in Seq(I)
          BY <2>2, <2>9
    <3>2. waits \in [I -> Int]
          BY <2>4 DEF waits
    <3> QED BY <2>2, <3>1, <3>2 DEF Orders
  <2>12. IsInjective(t.order \o t.queue) /\ ToSet(t.order \o t.queue) = {k \in I : t.waits[k] = 0}
    <3>1. IsInjective(all)
          BY DEF Halfway
    <3>2. IsInjective(all \o sorted) /\ ToSet(all \o sorted) = ToSet(all) \cup freed
      <4>1. all \in Seq(I) /\ sorted \in Seq(I) /\ IsInjective(sorted) /\ ToSet(sorted) = freed
            BY <2>3, <2>9
      <4> HIDE DEF all, sorted, I
      <4> QED BY <2>8, <3>1, <4>1, Concatenated
    <3> HIDE DEF all, t
    <3> QED BY <2>8, <2>10, <2>11, <3>2
  <2>13. \A k \in I : t.waits[k] = Cardinality(Waiting(w, t.order, k))
         BY <2>4, <2>11
  <2>14. ASSUME NEW i \in DOMAIN order PROVE ToSet(Needs(w, order[i])) \subseteq {order[j] : j \in 1 .. i - 1}
    <3>1. /\ Len(s.order) \in Nat /\ DOMAIN order = 1 .. Len(s.order) + 1 /\ DOMAIN s.order = 1 .. Len(s.order)
          /\ order[Len(s.order) + 1] = id /\ \A j \in 1 .. Len(s.order) : order[j] = s.order[j]
          BY <2>1, <2>2
    <3> HIDE DEF order
    <3>2. CASE i \in 1 .. Len(s.order)
      <4>1. ToSet(Needs(w, s.order[i])) \subseteq {s.order[j] : j \in 1 .. i - 1}
            BY <3>1, <3>2 DEF Halfway
      <4>2. \A j \in 1 .. i - 1 : s.order[j] = order[j]
            BY <3>1, <3>2
      <4> QED BY <3>1, <3>2, <4>1, <4>2
    <3>3. CASE i = Len(s.order) + 1
      <4>1. s.waits[id] = 0
            BY <2>3, <2>7
      <4>2. Waiting(w, s.order, id) = {}
            BY <2>2, <2>4, <4>1
      <4>3. ToSet(Needs(w, id)) \subseteq ToSet(s.order)
            BY <4>2 DEF Waiting, ToSet
      <4>4. ToSet(s.order) = {order[j] : j \in 1 .. i - 1}
        <5>1. DOMAIN s.order = 1 .. i - 1 /\ \A j \in 1 .. i - 1 : order[j] = s.order[j]
              BY <3>1, <3>3
        <5> QED BY <5>1 DEF ToSet
      <4> QED BY <3>1, <3>3, <4>3, <4>4
    <3> QED BY <3>1, <3>2, <3>3
  <2> HIDE DEF t
  <2>15. Halfway(w, t)
    <3>1. \A i \in DOMAIN t.order : ToSet(Needs(w, t.order[i])) \subseteq {t.order[j] : j \in 1 .. i - 1}
      <4>1. t.order = order
            BY <2>11
      <4> HIDE DEF order
      <4> QED BY <2>14, <4>1
    <3> HIDE DEF order
    <3> QED BY <2>11, <2>12, <2>13, <3>1 DEF Halfway
  <2> QED BY <1>1, <1>3, <2>2, <2>11, <2>15
<1> QED BY <1>2, <1>3

-----------------------------------------------------------------------------
Start(w) ==
  LET waits == [k \in Ids(w) |-> Len(Needs(w, k))]
  IN  [queue |-> Sorted({k \in Ids(w) : waits[k] = 0}), waits |-> waits, order |-> <<>>]

\* f has what Walk says, up to turn n.
WalkTo(w, n, f) == f = [i \in 0 .. n |-> IF i = 0 THEN Start(w) ELSE Turn(w)[f[i - 1]]]

LEMMA WalkExists ==
  ASSUME NEW w, NEW n \in Nat
  PROVE  \E f : WalkTo(w, n, f)
<1> DEFINE T == {m \in Nat : \E f : WalkTo(w, m, f)}
<1>1. 0 \in T
  <2>1. WalkTo(w, 0, [i \in 0 .. 0 |-> Start(w)])
        BY DEF WalkTo
  <2> QED BY <2>1
<1>2. ASSUME NEW m \in Nat, m \in T PROVE m + 1 \in T
  <2>1. PICK f : WalkTo(w, m, f)
        BY <1>2
  <2> DEFINE g == [i \in 0 .. m + 1 |-> IF i = m + 1 THEN Turn(w)[f[m]] ELSE f[i]]
  <2>2. \A i \in 0 .. m : f[i] = IF i = 0 THEN Start(w) ELSE Turn(w)[f[i - 1]]
        BY <2>1 DEF WalkTo
  <2>3. \A i \in 0 .. m : g[i] = f[i]
        OBVIOUS
  <2>4. \A i \in 0 .. m + 1 : g[i] = IF i = 0 THEN Start(w) ELSE Turn(w)[g[i - 1]]
    <3>1. ASSUME NEW i \in 0 .. m PROVE g[i] = IF i = 0 THEN Start(w) ELSE Turn(w)[g[i - 1]]
      <4>1. CASE i = 0
            BY <2>2, <2>3, <4>1
      <4>2. CASE i # 0
        <5>1. i - 1 \in 0 .. m /\ g[i] = f[i] /\ g[i - 1] = f[i - 1]
              BY <2>3, <4>2
        <5> QED BY <2>2, <4>2, <5>1
      <4> QED BY <4>1, <4>2
    <3>2. g[m + 1] = Turn(w)[g[m]]
          BY <2>3
    <3> HIDE DEF g
    <3> QED BY <3>1, <3>2
  <2>5. g = [i \in 0 .. m + 1 |-> g[i]]
        OBVIOUS
  <2> HIDE DEF g
  <2>6. WalkTo(w, m + 1, g)
        BY <2>4, <2>5 DEF WalkTo
  <2> QED BY <2>6
<1> HIDE DEF T
<1>3. Nat \subseteq T
      BY <1>1, <1>2, Induction
<1> QED BY <1>3 DEF T

LEMMA WalkTurns ==
  ASSUME NEW w, Len(w) \in Nat
  PROVE  /\ Walk(w)[0] = Start(w)
         /\ \A i \in 1 .. Len(w) : Walk(w)[i] = Turn(w)[Walk(w)[i - 1]]
<1>1. WalkTo(w, Len(w), Walk(w))
  <2>1. Walk(w) = CHOOSE f : WalkTo(w, Len(w), f)
        BY DEF Walk, WalkTo, Start
  <2> QED BY <2>1, WalkExists
<1> QED BY <1>1 DEF WalkTo

LEMMA StartIsHalfway ==
  ASSUME WorkflowAssumption, NEW w \in Workflows
  PROVE  Halfway(w, Start(w)) /\ Len(Start(w).order) = 0
<1> DEFINE I == Ids(w)
           waits == [k \in I |-> Len(Needs(w, k))]
           free == {k \in I : waits[k] = 0}
           s == Start(w)
<1>1. s = [queue |-> Sorted(free), waits |-> waits, order |-> <<>>]
      BY DEF Start
<1>2. free \in SUBSET Nat /\ free \subseteq I /\ IsFiniteSet(free)
      BY DefinitionIsFinite, FS_Subset
<1>3. Sorted(free) \in Seq(I) /\ IsInjective(Sorted(free)) /\ ToSet(Sorted(free)) = free
  <2> HIDE DEF free
  <2> QED BY <1>2, SortedLists, SeqMonotonic
<1>4. ASSUME NEW k \in I PROVE waits[k] \in Nat /\ waits[k] = Cardinality(Waiting(w, <<>>, k))
  <2> DEFINE needs == Needs(w, k)
  <2>1. needs \in Seq(StepIds \cup {Unknown})
        BY DefinitionIsFinite
  <2> HIDE DEF needs
  <2>2. DOMAIN needs = 1 .. Len(needs) /\ Len(needs) \in Nat
        BY <2>1
  <2>3. Cardinality(1 .. Len(needs)) = Len(needs)
    <3>1. \A n \in Nat : Cardinality(1 .. n) = n
          BY FS_Interval
    <3> QED BY <2>2, <3>1
  <2>4. ToSet(<<>>) = {}
        BY DEF ToSet
  <2>5. Waiting(w, <<>>, k) = DOMAIN needs
        BY <2>4 DEF Waiting, needs
  <2> QED BY <2>2, <2>3, <2>5 DEF needs
<1> HIDE DEF free
<1>5. s.order = <<>> /\ s.waits = waits /\ s.queue = Sorted(free) /\ s \in Orders(w)
  <2>1. waits \in [I -> Int]
        BY <1>4
  <2> HIDE DEF waits
  <2> QED BY <1>1, <1>3, <2>1 DEF Orders
<1> HIDE DEF s
<1>6. s.order \o s.queue = Sorted(free)
      BY <1>3, <1>5, ConcatEmptySeq
<1>7. free = {k \in I : s.waits[k] = 0}
      BY <1>5 DEF free
<1>8. \A k \in I : s.waits[k] = Cardinality(Waiting(w, s.order, k))
  <2> HIDE DEF waits
  <2> QED BY <1>4, <1>5
<1>9. \A i \in DOMAIN s.order : ToSet(Needs(w, s.order[i])) \subseteq {s.order[j] : j \in 1 .. i - 1}
      BY <1>5
<1>10. Halfway(w, s)
  <2> HIDE DEF waits
  <2> QED BY <1>3, <1>5, <1>6, <1>7, <1>8, <1>9 DEF Halfway
<1> QED BY <1>5, <1>10 DEF s

\* The loop ends within as many turns as there are steps.
LEMMA WalkEnds ==
  ASSUME WorkflowAssumption, NEW w \in Workflows, WellFormed(w)
  PROVE  LET s == Walk(w)[Len(w)] IN
         /\ Halfway(w, s) /\ s.queue = <<>>
         /\ Len(s.order) = Len(w) => ToSet(s.order) = Ids(w)
         /\ Len(s.order) # Len(w) => ToSet(s.order) # Ids(w)
<1> DEFINE I == Ids(w)
           n == Len(w)
           s(i) == Walk(w)[i]
           T == {i \in Nat : i <= n => Halfway(w, s(i)) /\ (s(i).queue = <<>> \/ Len(s(i).order) = i)}
<1>1. n \in Nat /\ IsFiniteSet(I) /\ Cardinality(I) = n
      BY DefinitionIsFinite
<1>2. s(0) = Start(w) /\ \A i \in 1 .. n : s(i) = Turn(w)[s(i - 1)]
      BY <1>1, WalkTurns
<1> HIDE DEF s
<1>3. 0 \in T
      BY <1>2, StartIsHalfway
<1>4. ASSUME NEW i \in Nat, i \in T PROVE i + 1 \in T
  <2>1. SUFFICES ASSUME i + 1 <= n
                 PROVE  Halfway(w, s(i + 1)) /\ (s(i + 1).queue = <<>> \/ Len(s(i + 1).order) = i + 1)
        OBVIOUS
  <2>2. s(i + 1) = Turn(w)[s(i)] /\ Halfway(w, s(i)) /\ (s(i).queue = <<>> \/ Len(s(i).order) = i)
    <3>1. i + 1 \in 1 .. n /\ (i + 1) - 1 = i
          BY <1>1, <2>1
    <3>2. s(i + 1) = Turn(w)[s((i + 1) - 1)]
          BY <1>2, <3>1
    <3> QED BY <1>1, <1>4, <2>1, <3>1, <3>2
  <2> QED BY <2>2, TurnKeeps
<1>5. Nat \subseteq T
  <2> HIDE DEF T
  <2> QED BY <1>3, <1>4, Induction
<1> DEFINE e == s(n)
<1>6. Halfway(w, e) /\ (e.queue = <<>> \/ Len(e.order) = n)
      BY <1>1, <1>5
<1> HIDE DEF e, T
<1> DEFINE all == e.order \o e.queue
           m == Len(all)
<1>7. e.order \in Seq(I) /\ e.queue \in Seq(I)
      BY <1>6 DEF Halfway, Orders
<1>8. all \in Seq(I) /\ m = Len(e.order) + Len(e.queue) /\ IsInjective(all) /\ ToSet(all) \subseteq I
      BY <1>6, <1>7 DEF Halfway
<1> HIDE DEF all
<1>9. m \in Nat /\ all \in [1 .. m -> I] /\ all \in Injection(1 .. m, I)
  <2>1. Len(all) \in Nat /\ all \in [1 .. Len(all) -> I]
        BY <1>8, LenProperties
  <2> QED BY <1>8, <2>1 DEF Injection
<1>10. IsFiniteSet(1 .. m) /\ Cardinality(1 .. m) = m
  <2> HIDE DEF m
  <2> QED BY <1>9, FS_Interval
<1>11. m <= n /\ (m = n <=> all \in Surjection(1 .. m, I))
       BY <1>1, <1>9, <1>10, FS_Injection
<1>12. e.queue = <<>>
  <2>1. CASE Len(e.order) = n
    <3>1. Len(e.queue) = 0
          BY <1>1, <1>7, <1>8, <1>11, <2>1
    <3> QED BY <1>7, <3>1
  <2> QED BY <1>6, <2>1
<1>13. all = e.order
       BY <1>7, <1>12 DEF all
<1>14. Len(e.order) = n => ToSet(e.order) = I
       BY <1>8, <1>9, <1>11, <1>13 DEF Surjection, ToSet
<1>15. ASSUME ToSet(e.order) = I PROVE Len(e.order) = n
  <2>1. all \in Surjection(1 .. m, I)
        BY <1>9, <1>13, <1>15 DEF Surjection, ToSet
  <2> QED BY <1>11, <1>13, <2>1
<1> QED BY <1>6, <1>12, <1>14, <1>15 DEF e, s

\* _ordered_steps is right for every definition: an order has every step once, after the steps it
\* needs, and it rejects only a definition some of whose steps wait for each other.
THEOREM OrderIsSound == OrderIsRight
<1> SUFFICES ASSUME NEW w \in Workflows
             PROVE  /\ WellFormed(w) /\ Ordered(w) = <<>> =>
                         \E cycle \in SUBSET Ids(w) :
                           cycle # {} /\ \A id \in cycle : ToSet(Needs(w, id)) \cap cycle # {}
                    /\ Ordered(w) # <<>> => Ordered(w) \in Seq(Ids(w)) /\ Respects(w, Ordered(w))
    BY DEF OrderIsRight
<1> DEFINE e == Walk(w)[Len(w)]
           I == Ids(w)
<1>1. CASE ~WellFormed(w)
      BY <1>1 DEF Ordered
<1>2. CASE WellFormed(w)
  <2>1. /\ Halfway(w, e) /\ e.queue = <<>>
        /\ Len(e.order) = Len(w) => ToSet(e.order) = Ids(w)
        /\ Len(e.order) # Len(w) => ToSet(e.order) # Ids(w)
        BY <1>2, WorkflowAssumption, WalkEnds
  <2>2. Ordered(w) = IF Len(e.order) = Len(w) THEN e.order ELSE <<>>
        BY <1>2 DEF Ordered
  <2> HIDE DEF e
  <2>3. e.order \in Seq(I) /\ Len(w) \in Nat /\ Cardinality(I) = Len(w) /\ w # <<>>
        BY <1>2, <2>1, WorkflowAssumption, DefinitionIsFinite DEF Halfway, Orders, WellFormed
  <2>4. CASE Len(e.order) = Len(w)
    <3>1. Ordered(w) = e.order /\ Ordered(w) # <<>>
      <4>1. Len(w) # 0
        <5>1. w \in Seq([id : StepIds, needs : Seq(StepIds \cup {Unknown}), tool : {"open", "strict", "denied", "gone"}])
              BY WorkflowAssumption DEF WorkflowAssumption
        <5> QED BY <2>3, <5>1, EmptySeq
      <4> QED BY <2>2, <2>3, <2>4, <4>1
    <3>2. Respects(w, e.order)
          BY <2>1, <2>3, <2>4 DEF Respects, Halfway
    <3> QED BY <2>3, <3>1, <3>2
  <2>5. CASE Len(e.order) # Len(w)
    <3> DEFINE cycle == I \ ToSet(e.order)
    <3>1. ToSet(e.order) \subseteq I
          BY <2>3 DEF ToSet
    <3>2. cycle # {}
          BY <2>1, <2>5, <3>1
    <3>3. ASSUME NEW id \in cycle PROVE ToSet(Needs(w, id)) \cap cycle # {}
      <4>1. e.order \o e.queue = e.order
            BY <2>1, <2>3, ConcatEmptySeq
      <4>2. e.waits[id] # 0 /\ e.waits[id] = Cardinality(Waiting(w, e.order, id))
            BY <2>1, <3>3, <4>1 DEF Halfway
      <4>3. Waiting(w, e.order, id) # {}
            BY <4>2, FS_EmptySet
      <4>4. PICK i \in DOMAIN Needs(w, id) : Needs(w, id)[i] \notin ToSet(e.order)
            BY <4>3 DEF Waiting
      <4>5. Needs(w, id)[i] \in ToSet(Needs(w, id))
            BY DEF ToSet
      <4>6. ToSet(Needs(w, id)) \subseteq I
        <5>1. \E j \in DOMAIN w : w[j].id = id
              BY <3>3 DEF Ids
        <5> QED BY <1>2, <5>1 DEF WellFormed, Needs, StepOf
      <4> QED BY <4>4, <4>5, <4>6
    <3>4. Ordered(w) = <<>>
          BY <2>2, <2>5
    <3> QED BY <3>2, <3>3, <3>4
  <2> QED BY <2>4, <2>5
<1> QED BY <1>1, <1>2

-----------------------------------------------------------------------------
(***************************************************************************)
(* Executions of a workflow: what the engine makes of the order, whatever  *)
(* is retried, raised and lost.                                            *)
(***************************************************************************)

Named == UNION {Ids(w) : w \in Workflows}

Execution == [status : {"none", "queued", "running", "completed", "failed"}, results : Seq(Named)]
Attempt   == [pc : {"none", "load", "step", "tool", "over"}, order : Seq(Named), results : Seq(Named), tries : Nat]
Starter   == [by : {"none", "command", "api"}, pc : {"none", "submit", "wait", "answer", "done"},
              error : BOOLEAN, told : {"none", "started", "completed", "failed"}]

EndsWith(done, results) ==
  \E from \in 0 .. Len(done) : SubSeq(done, from + 1, Len(done)) = results

\* An execution with row r, attempt n, starter c and effects f.  Where an attempt stands, its
\* results are the first steps of the order and the last effects; only a running row has one.
Orderly(w, r, n, c, f) ==
  /\ r \in Execution /\ n \in Attempt /\ c \in Starter /\ f \in Seq(Named)
  /\ c.by = "none" => r.status = "none" /\ n.pc = "none" /\ n.results = <<>> /\ c.pc = "none"
  /\ n.pc \in {"step", "tool"} =>
       /\ r.status = "running"
       /\ n.order = Ordered(w) /\ w \in Workflows /\ Ordered(w) # <<>>
       /\ Len(n.results) <= Len(n.order)
       /\ n.results = SubSeq(n.order, 1, Len(n.results))
       /\ EndsWith(f, n.results)
  /\ n.pc = "tool" => Len(n.results) < Len(n.order)
  /\ r.status = "completed" =>
       w \in Workflows /\ Ordered(w) # <<>> /\ r.results = Ordered(w) /\ EndsWith(f, r.results)

ExecutionsInv ==
  /\ workflow \in Workflows \cup {<<>>}
  /\ row \in [Executions -> Execution] /\ run \in [Executions -> Attempt]
  /\ client \in [Executions -> Starter] /\ effects \in [Executions -> Seq(Named)]
  /\ \A e \in Executions : Orderly(workflow, row[e], run[e], client[e], effects[e])

LEMMA NothingToOrder == Ordered(<<>>) = <<>>
BY DEF Ordered, WellFormed

LEMMA OrderIsNamed ==
  ASSUME NEW w \in Workflows \cup {<<>>}, Ordered(w) # <<>>
  PROVE  /\ w \in Workflows /\ Ordered(w) \in Seq(Ids(w)) /\ Ordered(w) \in Seq(Named)
         /\ Respects(w, Ordered(w))
<1>1. w \in Workflows
      BY NothingToOrder
<1>2. Ordered(w) \in Seq(Ids(w)) /\ Respects(w, Ordered(w))
      BY <1>1, OrderIsSound DEF OrderIsRight
<1>3. Ids(w) \subseteq Named
      BY <1>1 DEF Named
<1> QED BY <1>1, <1>2, <1>3

LEMMA StepIsNamed ==
  ASSUME NEW w, NEW id \in Ids(w)
  PROVE  StepOf(w, id).id = id
BY DEF Ids, StepOf

LEMMA NothingEnds == ASSUME NEW S, NEW f \in Seq(S) PROVE EndsWith(f, <<>>)
<1>1. SubSeq(f, Len(f) + 1, Len(f)) = <<>>
      OBVIOUS
<1>2. Len(f) \in 0 .. Len(f)
      OBVIOUS
<1> QED BY <1>1, <1>2 DEF EndsWith

LEMMA OneMoreEnds ==
  ASSUME NEW S, NEW f \in Seq(S), NEW r \in Seq(S), NEW x \in S, EndsWith(f, r)
  PROVE  EndsWith(Append(f, x), Append(r, x))
<1>1. PICK from \in 0 .. Len(f) : SubSeq(f, from + 1, Len(f)) = r
      BY DEF EndsWith
<1> DEFINE g == Append(f, x)
           s == SubSeq(g, from + 1, Len(g))
           a == Append(r, x)
<1>2. g \in Seq(S) /\ Len(g) = Len(f) + 1 /\ g[Len(g)] = x /\ \A i \in 1 .. Len(f) : g[i] = f[i]
      OBVIOUS
<1>3. Len(r) = Len(f) - from /\ \A i \in 1 .. Len(r) : r[i] = f[from + i]
      BY <1>1, SMTT(30)
<1> HIDE DEF g
<1>4. s \in Seq(S) /\ Len(s) = Len(f) + 1 - from /\ \A i \in 1 .. Len(f) + 1 - from : s[i] = g[from + i]
  <2>1. \A i \in from + 1 .. Len(g) : g[i] \in S
        BY <1>2
  <2>2. \A i \in 1 .. Len(g) - (from + 1) + 1 : s[i] = g[from + 1 + i - 1]
        BY <1>2, <2>1, SubSeqProperties
  <2>3. s \in Seq(S) /\ Len(s) = IF from + 1 <= Len(g) THEN Len(g) - (from + 1) + 1 ELSE 0
        BY <1>2, <2>1, SubSeqProperties
  <2> QED BY <1>2, <2>2, <2>3, SMTT(30)
<1> HIDE DEF s
<1>5. /\ a \in Seq(S) /\ Len(a) = Len(r) + 1
      /\ a[Len(r) + 1] = x /\ \A i \in 1 .. Len(r) : a[i] = r[i]
      OBVIOUS
<1> HIDE DEF a
<1>6. ASSUME NEW i \in 1 .. Len(s) PROVE s[i] = a[i]
  <2>1. CASE i = Len(r) + 1
    <3>1. from + i = Len(g)
          BY <1>2, <1>3, <2>1
    <3> QED BY <1>2, <1>3, <1>4, <1>5, <2>1, <3>1
  <2>2. CASE i \in 1 .. Len(r)
    <3>1. from + i \in 1 .. Len(f)
          BY <1>3, <2>2
    <3>2. s[i] = g[from + i]
          BY <1>3, <1>4, <2>2
    <3>3. g[from + i] = f[from + i]
          BY <1>2, <3>1
    <3> QED BY <1>3, <1>5, <2>2, <3>2, <3>3
  <2> QED BY <1>3, <1>4, <2>1, <2>2
<1>7. s = a
      BY <1>3, <1>4, <1>5, <1>6, SeqEqual
<1>8. from \in 0 .. Len(g)
      BY <1>2
<1> QED BY <1>7, <1>8 DEF EndsWith, g, s, a

LEMMA FirstSteps ==
  ASSUME NEW S, NEW o \in Seq(S), NEW r \in Seq(S), Len(r) < Len(o), r = SubSeq(o, 1, Len(r))
  PROVE  Append(r, o[Len(r) + 1]) = SubSeq(o, 1, Len(r) + 1)
<1> DEFINE n == Len(r)
           a == Append(r, o[n + 1])
           b == SubSeq(o, 1, n + 1)
<1>1. n \in Nat /\ n + 1 \in 1 .. Len(o) /\ \A i \in 1 .. n : r[i] = o[i]
      OBVIOUS
<1>2. o[n + 1] \in S
      BY <1>1
<1>3. a \in Seq(S) /\ Len(a) = n + 1 /\ a[n + 1] = o[n + 1] /\ \A i \in 1 .. n : a[i] = r[i]
      BY <1>1, <1>2
<1>4. b \in Seq(S) /\ Len(b) = n + 1 /\ \A i \in 1 .. n + 1 : b[i] = o[i]
      BY <1>1
<1> HIDE DEF n, a, b
<1>5. \A i \in 1 .. Len(a) : a[i] = b[i]
      BY <1>1, <1>3, <1>4
<1>6. a = b
      BY <1>3, <1>4, <1>5
<1> QED BY <1>6 DEF a, b, n

\* A step of one execution, of a workflow that is there.
LEMMA OneExecution ==
  ASSUME ExecutionsInv, NEW e \in Executions, NEW r, NEW n, NEW c, NEW f,
         UNCHANGED workflow, Orderly(workflow, r, n, c, f),
         row' = [row EXCEPT ![e] = r], run' = [run EXCEPT ![e] = n],
         client' = [client EXCEPT ![e] = c], effects' = [effects EXCEPT ![e] = f]
  PROVE  ExecutionsInv'
<1>1. r \in Execution /\ n \in Attempt /\ c \in Starter /\ f \in Seq(Named)
      BY DEF Orderly
<1>2. /\ row' \in [Executions -> Execution] /\ run' \in [Executions -> Attempt]
      /\ client' \in [Executions -> Starter] /\ effects' \in [Executions -> Seq(Named)]
      BY <1>1 DEF ExecutionsInv
<1>3. ASSUME NEW d \in Executions PROVE Orderly(workflow, row'[d], run'[d], client'[d], effects'[d])
      BY <1>1 DEF ExecutionsInv
<1>4. \A d \in Executions : Orderly(workflow', row'[d], run'[d], client'[d], effects'[d])
      BY <1>3
<1> QED BY <1>2, <1>4 DEF ExecutionsInv

\* The first step of the first execution, which also finds the definition.
LEMMA FirstExecution ==
  ASSUME ExecutionsInv, NEW e \in Executions, client[e].by = "none", Defined,
         NEW r, NEW n, NEW c, Orderly(workflow', r, n, c, effects[e]),
         row' = [row EXCEPT ![e] = r], run' = [run EXCEPT ![e] = n],
         client' = [client EXCEPT ![e] = c], UNCHANGED effects
  PROVE  ExecutionsInv'
<1>1. r \in Execution /\ n \in Attempt /\ c \in Starter
      BY DEF Orderly
<1>2. /\ row' \in [Executions -> Execution] /\ run' \in [Executions -> Attempt]
      /\ client' \in [Executions -> Starter] /\ effects' \in [Executions -> Seq(Named)]
      BY <1>1 DEF ExecutionsInv
<1>3. workflow' \in Workflows \cup {<<>>}
      BY DEF Defined, ExecutionsInv
<1>4. ASSUME NEW d \in Executions, d # e PROVE Orderly(workflow', row[d], run[d], client[d], effects[d])
  <2>1. Orderly(workflow, row[d], run[d], client[d], effects[d])
        BY DEF ExecutionsInv
  <2>2. CASE client[d].by = "none"
        BY <2>1, <2>2 DEF Orderly
  <2>3. CASE client[d].by # "none"
    <3>1. UNCHANGED workflow
          BY <2>3, <1>4 DEF Defined
    <3> QED BY <2>1, <3>1
  <2> QED BY <2>2, <2>3
<1>5. ASSUME NEW d \in Executions PROVE Orderly(workflow', row'[d], run'[d], client'[d], effects'[d])
  <2>1. CASE d = e
        BY <2>1 DEF ExecutionsInv
  <2>2. CASE d # e
        BY <1>4, <2>2 DEF ExecutionsInv
  <2> QED BY <2>1, <2>2
<1> QED BY <1>2, <1>3, <1>5 DEF ExecutionsInv

\* The four functions when columns of one execution change.
LEMMA Held ==
  ASSUME ExecutionsInv, NEW e \in Executions
  PROVE  /\ Orderly(workflow, row[e], run[e], client[e], effects[e])
         /\ row[e] \in Execution /\ run[e] \in Attempt /\ client[e] \in Starter /\ effects[e] \in Seq(Named)
         /\ row = [row EXCEPT ![e] = row[e]] /\ run = [run EXCEPT ![e] = run[e]]
         /\ client = [client EXCEPT ![e] = client[e]] /\ effects = [effects EXCEPT ![e] = effects[e]]
BY DEF ExecutionsInv

LEMMA CommandOrderly ==
  ASSUME ExecutionsInv, NEW e \in Executions, Command(e)
  PROVE  ExecutionsInv'
<1> DEFINE r == [row[e] EXCEPT !.status = "queued"]
           c == [client[e] EXCEPT !.by = "command", !.pc = "submit"]
<1>1. /\ row' = [row EXCEPT ![e] = r] /\ run' = [run EXCEPT ![e] = run[e]]
      /\ client' = [client EXCEPT ![e] = c] /\ UNCHANGED effects
      BY Held DEF Command, ExecutionsInv
<1>2. r \in Execution /\ c \in Starter /\ r.status = "queued" /\ c.by = "command"
      BY Held DEF Execution, Starter
<1>3. client[e].by = "none" /\ run[e].pc = "none" /\ Defined
      BY Held DEF Command, Orderly
<1> HIDE DEF r, c
<1>4. Orderly(workflow', r, run[e], c, effects[e])
      BY <1>2, <1>3, Held DEF Orderly
<1> QED BY <1>1, <1>3, <1>4, FirstExecution

LEMMA RequestOrderly ==
  ASSUME ExecutionsInv, NEW e \in Executions, Request(e)
  PROVE  ExecutionsInv'
<1>1. client[e].by = "none" /\ run[e].pc = "none" /\ row[e].status = "none" /\ Defined /\ UNCHANGED effects
      BY Held DEF Request, Orderly
<1>2. CASE Ordered(workflow') = <<>>
  <2> DEFINE c == [client[e] EXCEPT !.by = "api", !.pc = "done", !.told = "failed"]
  <2>1. /\ client' = [client EXCEPT ![e] = c]
        /\ row' = [row EXCEPT ![e] = row[e]] /\ run' = [run EXCEPT ![e] = run[e]]
        BY <1>2, Held, ZenonT(60) DEF Request, ExecutionsInv
  <2>2. c \in Starter /\ c.by = "api"
        BY Held DEF Starter
  <2> HIDE DEF c
  <2>3. Orderly(workflow', row[e], run[e], c, effects[e])
        BY <1>1, <2>2, Held DEF Orderly
  <2> QED BY <1>1, <2>1, <2>3, FirstExecution
<1>3. CASE Ordered(workflow') # <<>>
  <2> DEFINE c == [client[e] EXCEPT !.by = "api", !.pc = "wait"]
             r == [row[e] EXCEPT !.status = "running"]
             n == [run[e] EXCEPT !.pc = "step", !.order = Ordered(workflow')]
  <2>1. /\ client' = [client EXCEPT ![e] = c] /\ row' = [row EXCEPT ![e] = r] /\ run' = [run EXCEPT ![e] = n]
        BY <1>3, Held, ZenonT(60) DEF Request, ExecutionsInv
  <2>2. workflow' \in Workflows \cup {<<>>}
        BY <1>1 DEF Defined, ExecutionsInv
  <2>3. workflow' \in Workflows /\ Ordered(workflow') \in Seq(Named)
        BY <1>3, <2>2, OrderIsNamed
  <2>4. c \in Starter /\ c.by = "api" /\ r \in Execution /\ r.status = "running"
        BY Held DEF Starter, Execution
  <2>5. n \in Attempt /\ n.pc = "step" /\ n.order = Ordered(workflow') /\ n.results = run[e].results
        BY <2>3, Held DEF Attempt
  <2>6. run[e].results = <<>>
        BY <1>1, Held DEF Orderly
  <2> HIDE DEF c, r, n
  <2>7. n.results = SubSeq(n.order, 1, 0) /\ Len(n.results) = 0 /\ Len(n.order) \in Nat
        BY <2>3, <2>5, <2>6
  <2>8. EndsWith(effects[e], n.results)
        BY <2>5, <2>6, NothingEnds, Held
  <2>9. Orderly(workflow', r, n, c, effects[e])
        BY <1>3, <2>3, <2>4, <2>5, <2>7, <2>8, Held DEF Orderly
  <2> QED BY <1>1, <2>1, <2>9, FirstExecution
<1> QED BY <1>2, <1>3

\* An attempt ends, to be taken up again or not.
LEMMA ReturnOrderly ==
  ASSUME ExecutionsInv, NEW e \in Executions, run[e].pc # "none", UNCHANGED workflow,
         NEW r \in Execution, NEW f \in Seq(Named), NEW raised \in BOOLEAN, NEW runtime \in BOOLEAN,
         row' = [row EXCEPT ![e] = r], effects' = [effects EXCEPT ![e] = f],
         r.status = "completed" =>
           workflow \in Workflows /\ Ordered(workflow) # <<>> /\ r.results = Ordered(workflow) /\ EndsWith(f, r.results),
         Return(e, raised, runtime)
  PROVE  ExecutionsInv'
<1>1. client[e].by # "none"
      BY Held DEF Orderly
<1>2. CASE raised /\ runtime /\ client[e].by = "command" /\ run[e].tries < MaxRetries
  <2> DEFINE n == [NoRun EXCEPT !.pc = "load", !.tries = run[e].tries + 1]
  <2>1. run' = [run EXCEPT ![e] = n] /\ client' = [client EXCEPT ![e] = client[e]]
        BY <1>2, Held DEF Return
  <2>2. n \in Attempt /\ n.pc = "load"
    <3>1. NoRun \in Attempt
          BY DEF Attempt, NoRun
    <3>2. run[e].tries + 1 \in Nat
          BY Held DEF Attempt
    <3> QED BY <3>1, <3>2 DEF Attempt
  <2> HIDE DEF n
  <2>3. Orderly(workflow, r, n, client[e], f)
        BY <1>1, <2>2, Held DEF Orderly
  <2> QED BY <2>1, <2>3, OneExecution
<1>3. CASE ~(raised /\ runtime /\ client[e].by = "command" /\ run[e].tries < MaxRetries)
  <2> DEFINE n == [run[e] EXCEPT !.pc = "over"]
             c == IF client[e].pc = "wait" THEN [client[e] EXCEPT !.pc = "answer", !.error = raised] ELSE client[e]
  <2>1. run' = [run EXCEPT ![e] = n]
        BY <1>3, Held DEF Return, ExecutionsInv
  <2>2. client' = [client EXCEPT ![e] = c]
        BY <1>3, Held DEF Return, ExecutionsInv
  <2>3. n \in Attempt /\ n.pc = "over"
        BY Held DEF Attempt
  <2>4. c \in Starter /\ c.by = client[e].by
        BY Held DEF Starter
  <2> HIDE DEF n, c
  <2>5. Orderly(workflow, r, n, c, f)
        BY <1>1, <2>3, <2>4, Held DEF Orderly
  <2> QED BY <2>1, <2>2, <2>5, OneExecution
<1> QED BY <1>2, <1>3

LEMMA FailedOrderly ==
  ASSUME ExecutionsInv, NEW e \in Executions, run[e].pc # "none", UNCHANGED workflow,
         NEW f \in Seq(Named), effects' = [effects EXCEPT ![e] = f], NEW runtime \in BOOLEAN, Failed(e, runtime)
  PROVE  ExecutionsInv'
<1> DEFINE r == [status |-> "failed", results |-> run[e].results]
<1>1. r \in Execution /\ r.status = "failed"
      BY Held DEF Execution, Attempt
<1>2. row' = [row EXCEPT ![e] = r] /\ Return(e, TRUE, runtime)
      BY DEF Failed
<1> HIDE DEF r
<1> QED BY <1>1, <1>2, ReturnOrderly

\* The current step is a step of the workflow, the next of its order.
LEMMA CurrentStep ==
  ASSUME ExecutionsInv, NEW e \in Executions, run[e].pc \in {"step", "tool"}, More(e)
  PROVE  /\ Current(e).id = run[e].order[Len(run[e].results) + 1]
         /\ Current(e).id \in Named
<1> DEFINE k == Len(run[e].results) + 1
<1>1. /\ run[e].order = Ordered(workflow) /\ workflow \in Workflows /\ Ordered(workflow) # <<>>
      /\ run[e].results \in Seq(Named) /\ run[e].order \in Seq(Named)
      BY Held DEF Orderly, Attempt
<1>2. Ordered(workflow) \in Seq(Ids(workflow))
      BY <1>1, OrderIsNamed
<1>3. k \in 1 .. Len(run[e].order)
      BY <1>1 DEF More
<1>4. run[e].order[k] \in Ids(workflow)
      BY <1>1, <1>2, <1>3
<1>5. Current(e).id = run[e].order[k]
      BY <1>4, StepIsNamed DEF Current
<1> QED BY <1>1, <1>3, <1>5

LEMMA SubmitOrderly ==
  ASSUME ExecutionsInv, NEW e \in Executions, Submit(e)
  PROVE  ExecutionsInv'
<1>1. /\ client[e].by # "none" /\ UNCHANGED workflow
      /\ row' = [row EXCEPT ![e] = row[e]] /\ effects' = [effects EXCEPT ![e] = effects[e]]
      BY Held DEF Submit, Orderly
<1>2. ASSUME run' = [run EXCEPT ![e].pc = "load"], client' = [client EXCEPT ![e].pc = IF eager THEN "wait" ELSE "answer"]
      PROVE  ExecutionsInv'
  <2> DEFINE n == [run[e] EXCEPT !.pc = "load"]
             c == [client[e] EXCEPT !.pc = IF eager THEN "wait" ELSE "answer"]
  <2>1. n \in Attempt /\ n.pc = "load" /\ c \in Starter /\ c.by = client[e].by
        BY Held, ZenonT(60) DEF Attempt, Starter
  <2>2. run' = [run EXCEPT ![e] = n] /\ client' = [client EXCEPT ![e] = c]
        BY <1>2 DEF ExecutionsInv
  <2> HIDE DEF n, c
  <2>3. Orderly(workflow, row[e], n, c, effects[e])
        BY <1>1, <2>1, Held DEF Orderly
  <2> QED BY <1>1, <2>2, <2>3, OneExecution
<1>3. ASSUME UNCHANGED run, client' = [client EXCEPT ![e].pc = "answer", ![e].error = TRUE]
      PROVE  ExecutionsInv'
  <2> DEFINE c == [client[e] EXCEPT !.pc = "answer", !.error = TRUE]
  <2>1. c \in Starter /\ c.by = client[e].by
        BY Held DEF Starter
  <2>2. run' = [run EXCEPT ![e] = run[e]] /\ client' = [client EXCEPT ![e] = c]
        BY <1>3, Held DEF ExecutionsInv
  <2> HIDE DEF c
  <2>3. Orderly(workflow, row[e], run[e], c, effects[e])
        BY <1>1, <2>1, Held DEF Orderly
  <2> QED BY <1>1, <2>2, <2>3, OneExecution
<1> QED BY <1>2, <1>3 DEF Submit

LEMMA AnswerOrderly ==
  ASSUME ExecutionsInv, NEW e \in Executions, Answer(e)
  PROVE  ExecutionsInv'
<1> DEFINE s == IF client[e].error /\ row[e].status = "queued" THEN "failed" ELSE row[e].status
           r == [row[e] EXCEPT !.status = s]
           c == [client[e] EXCEPT !.pc = "done", !.told = IF s \in {"completed", "failed"} THEN s ELSE "started"]
<1>1. /\ UNCHANGED workflow /\ row' = [row EXCEPT ![e] = r] /\ client' = [client EXCEPT ![e] = c]
      /\ run' = [run EXCEPT ![e] = run[e]] /\ effects' = [effects EXCEPT ![e] = effects[e]]
      BY Held DEF Answer, ExecutionsInv
<1>2. s \in {"none", "queued", "running", "completed", "failed"}
      BY Held DEF Execution
<1>3. r \in Execution /\ r.results = row[e].results /\ (r.status = row[e].status \/ (r.status = "failed" /\ row[e].status = "queued"))
      BY <1>2, Held DEF Execution
<1>4. c \in Starter /\ c.by = client[e].by
      BY <1>2, Held DEF Starter
<1>5. client[e].by # "none"
      BY Held DEF Answer, Orderly
<1> HIDE DEF r, c
<1>6. Orderly(workflow, r, run[e], c, effects[e])
      BY <1>3, <1>4, <1>5, Held DEF Orderly
<1> QED BY <1>1, <1>6, OneExecution

LEMMA LoadOrderly ==
  ASSUME ExecutionsInv, NEW e \in Executions, Load(e)
  PROVE  ExecutionsInv'
<1>1. /\ run[e].pc = "load" /\ client[e].by # "none" /\ UNCHANGED workflow
      /\ effects' = [effects EXCEPT ![e] = effects[e]]
      BY Held DEF Load, Orderly
<1>2. CASE Ordered(workflow) = <<>>
  <2>1. Return(e, TRUE, FALSE) /\ row' = [row EXCEPT ![e] = row[e]]
        BY <1>2, Held DEF Load
  <2>2. row[e].status = "completed" =>
          workflow \in Workflows /\ Ordered(workflow) # <<>> /\ row[e].results = Ordered(workflow) /\ EndsWith(effects[e], row[e].results)
        BY Held DEF Orderly
  <2>3. row[e] \in Execution /\ effects[e] \in Seq(Named) /\ run[e].pc # "none"
        BY <1>1, Held
  <2> QED BY <1>1, <2>1, <2>2, <2>3, ReturnOrderly
<1>3. CASE Ordered(workflow) # <<>>
  <2> DEFINE r == [status |-> "running", results |-> <<>>]
             n == [run[e] EXCEPT !.pc = "step", !.order = Ordered(workflow), !.results = <<>>]
  <2>1. row' = [row EXCEPT ![e] = r] /\ run' = [run EXCEPT ![e] = n] /\ client' = [client EXCEPT ![e] = client[e]]
        BY <1>3, Held DEF Load, ExecutionsInv
  <2>2. workflow \in Workflows /\ Ordered(workflow) \in Seq(Named)
        BY <1>3, OrderIsNamed DEF ExecutionsInv
  <2>3. r \in Execution /\ r.status = "running"
        BY DEF Execution
  <2>4. n \in Attempt /\ n.pc = "step" /\ n.order = Ordered(workflow) /\ n.results = <<>>
    <3>1. <<>> \in Seq(Named) /\ run[e] \in Attempt
          BY Held
    <3> QED BY <2>2, <3>1 DEF Attempt
  <2> HIDE DEF r, n
  <2>5. n.results = SubSeq(n.order, 1, 0) /\ Len(n.results) = 0 /\ Len(n.order) \in Nat
        BY <2>2, <2>4
  <2>6. EndsWith(effects[e], n.results)
        BY <2>4, NothingEnds, Held
  <2>7. Orderly(workflow, r, n, client[e], effects[e])
        BY <1>1, <1>3, <2>2, <2>3, <2>4, <2>5, <2>6, Held DEF Orderly
  <2> QED BY <1>1, <2>1, <2>7, OneExecution
<1> QED BY <1>2, <1>3

LEMMA StepOrderly ==
  ASSUME ExecutionsInv, NEW e \in Executions, Step(e)
  PROVE  ExecutionsInv'
<1>1. /\ run[e].pc = "step" /\ More(e) /\ UNCHANGED workflow /\ client[e].by # "none"
      /\ effects' = [effects EXCEPT ![e] = effects[e]] /\ effects[e] \in Seq(Named)
      BY Held DEF Step, Orderly
<1>2. CASE Failed(e, FALSE)
  <2>1. run[e].pc # "none"
        BY <1>1
  <2> QED BY <1>1, <1>2, <2>1, FailedOrderly
<1>3. CASE run' = [run EXCEPT ![e].pc = "tool"] /\ UNCHANGED <<row, client>>
  <2> DEFINE n == [run[e] EXCEPT !.pc = "tool"]
  <2>1. /\ run' = [run EXCEPT ![e] = n] /\ row' = [row EXCEPT ![e] = row[e]]
        /\ client' = [client EXCEPT ![e] = client[e]]
        BY <1>3, Held DEF ExecutionsInv
  <2>2. n \in Attempt /\ n.pc = "tool" /\ n.order = run[e].order /\ n.results = run[e].results
        BY Held DEF Attempt
  <2> HIDE DEF n
  <2>3. Orderly(workflow, row[e], n, client[e], effects[e])
        BY <1>1, <2>2, Held DEF Orderly, More
  <2> QED BY <1>1, <2>1, <2>3, OneExecution
<1> QED BY <1>2, <1>3 DEF Step

LEMMA ToolOrderly ==
  ASSUME ExecutionsInv, NEW e \in Executions, Tool(e)
  PROVE  ExecutionsInv'
<1> DEFINE id == Current(e).id
<1>1. run[e].pc = "tool" /\ UNCHANGED workflow /\ client[e].by # "none" /\ run[e].pc # "none"
      BY Held DEF Tool, Orderly
<1>2. More(e)
      BY <1>1, Held DEF More, Orderly
<1>3. id = run[e].order[Len(run[e].results) + 1] /\ id \in Named
      BY <1>1, <1>2, CurrentStep
<1> HIDE DEF id
<1>4. ASSUME NEW runtime \in BOOLEAN, Failed(e, runtime), UNCHANGED effects PROVE ExecutionsInv'
  <2>1. effects' = [effects EXCEPT ![e] = effects[e]] /\ effects[e] \in Seq(Named)
        BY <1>4, Held
  <2> QED BY <1>1, <1>4, <2>1, FailedOrderly
<1>5. ASSUME Failed(e, TRUE), effects' = [effects EXCEPT ![e] = Append(@, id)] PROVE ExecutionsInv'
  <2>1. effects' = [effects EXCEPT ![e] = Append(effects[e], id)] /\ Append(effects[e], id) \in Seq(Named)
        BY <1>3, <1>5, Held DEF ExecutionsInv
  <2> QED BY <1>1, <1>5, <2>1, FailedOrderly
<1>6. ASSUME effects' = [effects EXCEPT ![e] = Append(@, id)], UNCHANGED <<row, client>>,
             run' = [run EXCEPT ![e].pc = "step", ![e].results = Append(@, id)]
      PROVE  ExecutionsInv'
  <2> DEFINE f == Append(effects[e], id)
             rs == Append(run[e].results, id)
             n == [run[e] EXCEPT !.pc = "step", !.results = rs]
  <2>1. /\ run' = [run EXCEPT ![e] = n] /\ effects' = [effects EXCEPT ![e] = f]
        /\ row' = [row EXCEPT ![e] = row[e]] /\ client' = [client EXCEPT ![e] = client[e]]
        BY <1>6, Held DEF ExecutionsInv
  <2>2. run[e].results \in Seq(Named) /\ run[e].order \in Seq(Named) /\ effects[e] \in Seq(Named)
        BY Held DEF Attempt
  <2>3. f \in Seq(Named) /\ rs \in Seq(Named) /\ Len(rs) = Len(run[e].results) + 1
        BY <1>3, <2>2
  <2>4. EndsWith(f, rs)
        BY <1>1, <1>3, <2>2, OneMoreEnds, Held DEF Orderly
  <2>5. rs = SubSeq(run[e].order, 1, Len(run[e].results) + 1)
        BY <1>1, <1>2, <1>3, <2>2, FirstSteps, Held DEF Orderly, More
  <2> HIDE DEF f, rs
  <2>6. n \in Attempt /\ n.pc = "step" /\ n.order = run[e].order /\ n.results = rs
        BY <2>3, Held DEF Attempt
  <2> HIDE DEF n
  <2>7. Len(n.results) <= Len(n.order) /\ n.results = SubSeq(n.order, 1, Len(n.results))
        BY <1>2, <2>2, <2>3, <2>5, <2>6 DEF More
  <2>8. Orderly(workflow, row[e], n, client[e], f)
        BY <1>1, <2>3, <2>4, <2>6, <2>7, Held DEF Orderly
  <2> QED BY <1>1, <2>1, <2>8, OneExecution
<1> QED BY <1>4, <1>5, <1>6 DEF Tool, id

LEMMA FinishOrderly ==
  ASSUME ExecutionsInv, NEW e \in Executions, Finish(e)
  PROVE  ExecutionsInv'
<1> DEFINE r == [status |-> "completed", results |-> run[e].results]
<1>1. /\ run[e].pc = "step" /\ ~More(e) /\ UNCHANGED workflow /\ Return(e, FALSE, FALSE) /\ row' = [row EXCEPT ![e] = r]
      /\ effects' = [effects EXCEPT ![e] = effects[e]] /\ effects[e] \in Seq(Named) /\ run[e].pc # "none"
      BY Held DEF Finish
<1>2. run[e].results \in Seq(Named) /\ run[e].order \in Seq(Named)
      BY Held DEF Attempt
<1>3. /\ run[e].order = Ordered(workflow) /\ workflow \in Workflows /\ Ordered(workflow) # <<>>
      /\ Len(run[e].results) <= Len(run[e].order)
      /\ run[e].results = SubSeq(run[e].order, 1, Len(run[e].results)) /\ EndsWith(effects[e], run[e].results)
      BY <1>1, Held DEF Orderly
<1>4. Len(run[e].results) = Len(run[e].order)
      BY <1>1, <1>2, <1>3 DEF More
<1>5. run[e].results = Ordered(workflow)
      BY <1>2, <1>3, <1>4, SubSeqFull
<1>6. r \in Execution /\ r.results = run[e].results
      BY <1>2 DEF Execution
<1> HIDE DEF r
<1> QED BY <1>1, <1>3, <1>5, <1>6, ReturnOrderly

LEMMA DieOrderly ==
  ASSUME ExecutionsInv, NEW e \in Executions, Die(e)
  PROVE  ExecutionsInv'
<1> DEFINE n == [run[e] EXCEPT !.pc = "over"]
           c == IF client[e].pc = "wait" THEN [client[e] EXCEPT !.pc = "done"] ELSE client[e]
<1>1. /\ UNCHANGED workflow /\ row' = [row EXCEPT ![e] = row[e]] /\ effects' = [effects EXCEPT ![e] = effects[e]]
      /\ run' = [run EXCEPT ![e] = n] /\ client[e].by # "none"
      BY Held DEF Die, Orderly, ExecutionsInv
<1>2. client' = [client EXCEPT ![e] = c]
      BY Held DEF Die, ExecutionsInv
<1>3. n \in Attempt /\ n.pc = "over" /\ c \in Starter /\ c.by = client[e].by
      BY Held, ZenonT(60) DEF Attempt, Starter
<1> HIDE DEF n, c
<1>4. Orderly(workflow, row[e], n, c, effects[e])
      BY <1>1, <1>3, Held DEF Orderly
<1> QED BY <1>1, <1>2, <1>4, OneExecution

LEMMA ExecutionsStep ==
  ASSUME ExecutionsInv, [Next]_vars
  PROVE  ExecutionsInv'
<1>1. CASE UNCHANGED engineVars
  <2>1. /\ workflow' = workflow /\ row' = row /\ run' = run /\ client' = client /\ effects' = effects
        BY <1>1 DEF engineVars
  <2> QED BY <2>1 DEF ExecutionsInv
<1>2. ASSUME NEW e \in Executions, Command(e) \/ Request(e) \/ Proceed(e) \/ Die(e) PROVE ExecutionsInv'
      BY <1>2, CommandOrderly, RequestOrderly, SubmitOrderly, AnswerOrderly, LoadOrderly, StepOrderly, ToolOrderly,
         FinishOrderly, DieOrderly DEF Proceed
<1>3. ASSUME NEW d \in Documents, Upload(d) \/ Process(d) PROVE UNCHANGED engineVars
      BY <1>3 DEF Upload, Process, TakeJob, TakeDocument, Index, FailDocument, FailJob
<1>4. ASSUME NEW q \in Requests, Arrive(q) \/ Serve(q) PROVE UNCHANGED engineVars
      BY <1>4 DEF Arrive, Serve, Saw, RememberRead, RememberWrite,
         CorrectRead, CorrectWrite, ForgetRead, ForgetWrite, IngestRead, IngestWrite
<1>5. CASE WorkspaceNext \/ Background
      BY <1>1, <1>2, <1>3, <1>4, <1>5 DEF WorkspaceNext, Background
<1>6. ASSUME NEW c \in Commands, Say(c) \/ Work(c) PROVE ExecutionsInv'
      BY <1>1, <1>2, <1>6 DEF Say, Work, WorkflowStart
<1> QED BY <1>1, <1>5, <1>6 DEF Next, vars

\* A definition is rejected only when steps wait for each other, and a completed execution did
\* the work of every step, each after the steps it needs, and stored it all, through retries,
\* exceptions and deaths of its process, for any definitions (WorkflowExecutor.execute starts
\* every attempt again, with no results).
THEOREM WorkflowsRunInOrder == Spec => []CompletedInOrder
<1>1. Init => ExecutionsInv
  <2> SUFFICES ASSUME Init PROVE ExecutionsInv
      OBVIOUS
  <2>1. /\ workflow = <<>> /\ row = [e \in Executions |-> [status |-> "none", results |-> <<>>]]
        /\ run = [e \in Executions |-> NoRun] /\ effects = [e \in Executions |-> <<>>]
        /\ client = [e \in Executions |-> [by |-> "none", pc |-> "none", error |-> FALSE, told |-> "none"]]
        BY DEF Init, WorkspaceInit, EngineInit
  <2>2. /\ [status |-> "none", results |-> <<>>] \in Execution /\ NoRun \in Attempt /\ <<>> \in Seq(Named)
        /\ [by |-> "none", pc |-> "none", error |-> FALSE, told |-> "none"] \in Starter
        BY DEF Execution, Attempt, Starter, NoRun
  <2> QED BY <2>1, <2>2 DEF ExecutionsInv, Orderly, NoRun
<1>2. ExecutionsInv /\ [Next]_vars => ExecutionsInv'
      BY ExecutionsStep
<1>3. ExecutionsInv => CompletedInOrder
  <2> SUFFICES ASSUME ExecutionsInv PROVE CompletedInOrder
      OBVIOUS
  <2>1. ASSUME WellFormed(workflow), Ordered(workflow) = <<>>
        PROVE  \E cycle \in SUBSET Ids(workflow) :
                 cycle # {} /\ \A id \in cycle : ToSet(Needs(workflow, id)) \cap cycle # {}
    <3>1. workflow \in Workflows
          BY <2>1 DEF ExecutionsInv, WellFormed
    <3> QED BY <2>1, <3>1, OrderIsSound DEF OrderIsRight
  <2>2. ASSUME NEW e \in Executions, row[e].status = "completed"
        PROVE  /\ Respects(workflow, row[e].results)
               /\ \E from \in 0 .. Len(effects[e]) :
                    SubSeq(effects[e], from + 1, Len(effects[e])) = row[e].results
    <3>1. workflow \in Workflows /\ Ordered(workflow) # <<>> /\ row[e].results = Ordered(workflow) /\ EndsWith(effects[e], row[e].results)
          BY <2>2, Held DEF Orderly
    <3> QED BY <3>1, OrderIsNamed DEF EndsWith
  <2> QED BY <2>1, <2>2 DEF CompletedInOrder
<1> QED BY <1>1, <1>2, <1>3, PTL DEF Spec

-----------------------------------------------------------------------------
(***************************************************************************)
(* The sections of a text, for texts and sections of any length.           *)
(***************************************************************************)
NoSections == [chunks |-> <<>>, current |-> <<>>]

\* f has what Sections says, up to paragraph n.
SectionsTo(text, n, f) ==
  f = [i \in 0 .. n |-> IF i = 0 THEN NoSections ELSE Fitted(f[i - 1], Paragraph(text, i))]

LEMMA SectionsExist ==
  ASSUME NEW text, NEW n \in Nat
  PROVE  \E f : SectionsTo(text, n, f)
<1> DEFINE T == {m \in Nat : \E f : SectionsTo(text, m, f)}
<1>1. 0 \in T
  <2>1. SectionsTo(text, 0, [i \in 0 .. 0 |-> NoSections])
    BY DEF SectionsTo
  <2>2. QED
    BY <2>1
<1>2. ASSUME NEW m \in Nat, m \in T
      PROVE  m + 1 \in T
  <2>1. PICK f : SectionsTo(text, m, f)
    BY <1>2
  <2> DEFINE g == [i \in 0 .. m + 1 |-> IF i = m + 1 THEN Fitted(f[m], Paragraph(text, m + 1)) ELSE f[i]]
  <2>2. \A i \in 0 .. m : f[i] = IF i = 0 THEN NoSections ELSE Fitted(f[i - 1], Paragraph(text, i))
    BY <2>1 DEF SectionsTo
  <2>3. \A i \in 0 .. m : g[i] = f[i]
    OBVIOUS
  <2>4. \A i \in 0 .. m + 1 : g[i] = IF i = 0 THEN NoSections ELSE Fitted(g[i - 1], Paragraph(text, i))
    <3>1. ASSUME NEW i \in 0 .. m
          PROVE  g[i] = IF i = 0 THEN NoSections ELSE Fitted(g[i - 1], Paragraph(text, i))
      <4>1. CASE i = 0
        BY <2>2, <2>3, <4>1
      <4>2. CASE i # 0
        <5>1. i - 1 \in 0 .. m /\ g[i] = f[i] /\ g[i - 1] = f[i - 1]
          BY <2>3, <4>2
        <5>2. QED
          BY <2>2, <4>2, <5>1
      <4>3. QED
        BY <4>1, <4>2
    <3>2. g[m + 1] = Fitted(g[m], Paragraph(text, m + 1))
      BY <2>3
    <3> HIDE DEF g
    <3>3. QED
      BY <3>1, <3>2
  <2>5. g = [i \in 0 .. m + 1 |-> g[i]]
    OBVIOUS
  <2> HIDE DEF g
  <2>6. SectionsTo(text, m + 1, g)
    BY <2>4, <2>5 DEF SectionsTo
  <2>7. QED
    BY <2>6
<1> HIDE DEF T
<1>3. Nat \subseteq T
  BY <1>1, <1>2, Induction
<1>4. QED
  BY <1>3 DEF T

LEMMA SectionsStep ==
  ASSUME NEW text, Len(text) \in Nat
  PROVE  /\ Sections(text)[0] = NoSections
         /\ \A i \in 1 .. Len(text) : Sections(text)[i] = Fitted(Sections(text)[i - 1], Paragraph(text, i))
<1>1. SectionsTo(text, Len(text), Sections(text))
  <2>1. Sections(text) = CHOOSE f : SectionsTo(text, Len(text), f)
    BY DEF Sections, SectionsTo, NoSections
  <2>2. QED
    BY <2>1, SectionsExist
<1>2. QED
  BY <1>1 DEF SectionsTo

-----------------------------------------------------------------------------
Places == Nat \X Nat

\* What the sections of a list show.
ShownBy(parts) == UNION {ToSet(parts[k]) : k \in DOMAIN parts}

\* An element of two lists put after each other is one of the first or one of the second.
LEMMA Joined ==
  ASSUME NEW K, NEW a \in Seq(K), NEW b \in Seq(K)
  PROVE  /\ \A k \in DOMAIN b : Len(a) + k \in DOMAIN (a \o b) /\ (a \o b)[Len(a) + k] = b[k]
         /\ \A k \in DOMAIN a : k \in DOMAIN (a \o b) /\ (a \o b)[k] = a[k]
         /\ \A k \in DOMAIN (a \o b) : \/ k \in DOMAIN a /\ (a \o b)[k] = a[k]
                                       \/ k - Len(a) \in DOMAIN b /\ (a \o b)[k] = b[k - Len(a)]
<1>1. ASSUME NEW k \in DOMAIN b
      PROVE  Len(a) + k \in DOMAIN (a \o b) /\ (a \o b)[Len(a) + k] = b[k]
  OBVIOUS
<1>2. \A k \in DOMAIN a : k \in DOMAIN (a \o b) /\ (a \o b)[k] = a[k]
  OBVIOUS
<1>3. ASSUME NEW k \in DOMAIN (a \o b)
      PROVE  \/ k \in DOMAIN a /\ (a \o b)[k] = a[k]
             \/ k - Len(a) \in DOMAIN b /\ (a \o b)[k] = b[k - Len(a)]
  <2>1. k \in 1 .. Len(a) + Len(b) /\ Len(a) \in Nat /\ Len(b) \in Nat
    OBVIOUS
  <2>2. CASE k <= Len(a)
    BY <2>1, <2>2
  <2>3. CASE k > Len(a)
    <3>1. k - Len(a) \in DOMAIN b /\ Len(a) + (k - Len(a)) = k
      BY <2>1, <2>3
    <3>2. QED
      BY <1>1, <3>1
  <2>4. QED
    BY <2>1, <2>2, <2>3
<1>4. QED
  BY <1>1, <1>2, <1>3

LEMMA PartsJoined ==
  ASSUME NEW a \in Seq(Seq(Places)), NEW b \in Seq(Seq(Places))
  PROVE  ShownBy(a \o b) = ShownBy(a) \cup ShownBy(b)
<1>1. /\ \A k \in DOMAIN b : Len(a) + k \in DOMAIN (a \o b) /\ (a \o b)[Len(a) + k] = b[k]
      /\ \A k \in DOMAIN a : k \in DOMAIN (a \o b) /\ (a \o b)[k] = a[k]
      /\ \A k \in DOMAIN (a \o b) : \/ k \in DOMAIN a /\ (a \o b)[k] = a[k]
                                    \/ k - Len(a) \in DOMAIN b /\ (a \o b)[k] = b[k - Len(a)]
  BY Joined
<1>2. ShownBy(a \o b) \subseteq ShownBy(a) \cup ShownBy(b)
  BY <1>1 DEF ShownBy
<1>3. ShownBy(a) \cup ShownBy(b) \subseteq ShownBy(a \o b)
  BY <1>1 DEF ShownBy
<1>4. QED
  BY <1>2, <1>3

LEMMA PartsAndOne ==
  ASSUME NEW a \in Seq(Seq(Places)), NEW p \in Seq(Places)
  PROVE  ShownBy(Append(a, p)) = ShownBy(a) \cup ToSet(p)
<1>1. Append(a, p) = a \o <<p>> /\ <<p>> \in Seq(Seq(Places))
  OBVIOUS
<1>2. ShownBy(<<p>>) = ToSet(p)
  BY DEF ShownBy
<1>3. QED
  BY <1>1, <1>2, PartsJoined

LEMMA ParagraphShown ==
  ASSUME NEW text \in Seq(Nat \ {0}), NEW i \in DOMAIN text
  PROVE  /\ Paragraph(text, i) \in Seq(Places) /\ Len(Paragraph(text, i)) = text[i]
         /\ <<i, 1>> \in ToSet(Paragraph(text, i))
<1>1. text[i] \in Nat \ {0} /\ i \in Nat
  OBVIOUS
<1>2. \A k \in 1 .. text[i] : <<i, k>> \in Places
  BY <1>1 DEF Places
<1>3. Paragraph(text, i) \in Seq(Places) /\ Len(Paragraph(text, i)) = text[i]
  BY <1>1, <1>2 DEF Paragraph
<1>4. 1 \in DOMAIN Paragraph(text, i) /\ Paragraph(text, i)[1] = <<i, 1>>
  BY <1>1 DEF Paragraph
<1>5. QED
  BY <1>3, <1>4 DEF ToSet

LEMMA EndOfSection ==
  ASSUME NEW p \in Seq(Places), NEW n \in Nat
  PROVE  LastOf(p, n) \in Seq(Places) /\ Len(LastOf(p, n)) <= n /\ ToSet(LastOf(p, n)) \subseteq ToSet(p)
<1> DEFINE from == IF Len(p) > n THEN Len(p) - n + 1 ELSE 1
<1>1. from \in 1 .. Len(p) + 1 /\ Len(p) - from + 1 <= n
  OBVIOUS
<1> HIDE DEF from
<1>2. SubSeq(p, from, Len(p)) \in Seq(Places) /\ Len(SubSeq(p, from, Len(p))) = Len(p) - from + 1
  BY <1>1
<1>3. \A k \in DOMAIN SubSeq(p, from, Len(p)) : SubSeq(p, from, Len(p))[k] = p[from + k - 1] /\ from + k - 1 \in DOMAIN p
  BY <1>1, <1>2
<1>4. LastOf(p, n) = SubSeq(p, from, Len(p))
  BY DEF LastOf, from
<1>5. QED
  BY <1>1, <1>2, <1>3, <1>4 DEF ToSet

\* Pieces that begin step places apart, none of them shorter than that but the last, leave out none.
LEMMA PiecesShowAll ==
  ASSUME WorkspaceAssumption, NEW p \in Seq(Places)
  PROVE  /\ Pieces(p) \in Seq(Seq(Places)) /\ ShownBy(Pieces(p)) = ToSet(p)
         /\ \A i \in DOMAIN Pieces(p) : Len(Pieces(p)[i]) <= Target
<1> DEFINE step == IF Target > Overlap THEN Target - Overlap ELSE 1
           n == (Len(p) + step - 1) \div step
           from(i) == (i - 1) * step + 1
           to(i) == IF (i - 1) * step + Target < Len(p) THEN (i - 1) * step + Target ELSE Len(p)
<1>1. step \in Nat \ {0} /\ step <= Target /\ Target \in Nat \ {0} /\ Len(p) \in Nat
  BY DEF WorkspaceAssumption
<1>2. Pieces(p) = [i \in 1 .. n |-> SubSeq(p, from(i), to(i))]
  BY DEF Pieces
<1> HIDE DEF step
<1>3. n \in Nat /\ Len(p) + step - 1 < n * step + step /\ n * step <= Len(p) + step - 1
  BY <1>1
<1> HIDE DEF n
<1>4. ASSUME NEW i \in 1 .. n
      PROVE  /\ SubSeq(p, from(i), to(i)) \in Seq(Places)
             /\ Len(SubSeq(p, from(i), to(i))) <= Target
             /\ ToSet(SubSeq(p, from(i), to(i))) \subseteq ToSet(p)
  <2>1. (i - 1) * step \in Nat
    BY <1>1, <1>3
  <2> DEFINE s == SubSeq(p, from(i), to(i))
  <2>2. from(i) \in Nat \ {0} /\ to(i) \in Nat /\ to(i) <= Len(p) /\ to(i) - from(i) + 1 <= Target
    BY <1>1, <2>1
  <2> HIDE DEF from, to
  <2>3. s \in Seq(Places) /\ Len(s) <= Target
    BY <1>1, <2>2
  <2>4. \A k \in DOMAIN s : s[k] = p[from(i) + k - 1] /\ from(i) + k - 1 \in DOMAIN p
    BY <2>2
  <2>5. ToSet(s) \subseteq ToSet(p)
    BY <2>4 DEF ToSet
  <2>6. QED
    BY <2>3, <2>5
<1>5. ASSUME NEW k \in DOMAIN p
      PROVE  \E i \in 1 .. n : p[k] \in ToSet(SubSeq(p, from(i), to(i)))
  <2> DEFINE q == (k - 1) \div step
  <2>1. q \in Nat /\ q * step <= k - 1 /\ k - 1 < q * step + step
    <3>1. k - 1 \in Nat /\ step \in Nat \ {0}
      BY <1>1, <1>5
    <3> HIDE DEF step
    <3> QED BY <3>1, SMTT(60)
  <2> HIDE DEF q
  <2>2. (q + 1) * step = q * step + step /\ q * step \in Nat
    BY <1>1, <2>1
  <2>3. (q + 1) * step < n * step + step
    BY <1>1, <1>3, <2>1, <2>2
  <2>4. q + 1 <= n
    BY <1>1, <1>3, <2>1, <2>3
  <2> DEFINE i == q + 1
  <2>5. i \in 1 .. n /\ from(i) = q * step + 1 /\ to(i) = IF q * step + Target < Len(p) THEN q * step + Target ELSE Len(p)
    BY <1>3, <2>1, <2>4
  <2>6. /\ from(i) \in Nat \ {0} /\ from(i) <= k /\ k <= to(i) /\ to(i) <= Len(p) /\ to(i) \in Nat
    BY <1>1, <2>1, <2>2, <2>5
  <2> HIDE DEF i, from, to
  <2> DEFINE s == SubSeq(p, from(i), to(i))
  <2>7. k - from(i) + 1 \in DOMAIN s /\ s[k - from(i) + 1] = p[k]
    BY <2>6
  <2>8. p[k] \in ToSet(s)
    BY <2>7 DEF ToSet
  <2>9. QED
    BY <2>5, <2>8
<1> DEFINE piece(i) == SubSeq(p, from(i), to(i))
<1> HIDE DEF from, to
<1>6. /\ Pieces(p) \in Seq(Seq(Places)) /\ DOMAIN Pieces(p) = 1 .. n
      /\ \A i \in 1 .. n : Pieces(p)[i] = piece(i)
  <2>1. \A i \in 1 .. n : piece(i) \in Seq(Places)
    BY <1>4
  <2>2. Pieces(p) = [i \in 1 .. n |-> piece(i)]
    BY <1>2
  <2> HIDE DEF piece
  <2>3. QED
    BY <1>3, <2>1, <2>2
<1>7. ShownBy(Pieces(p)) \subseteq ToSet(p)
  BY <1>4, <1>6 DEF ShownBy
<1>8. ToSet(p) \subseteq ShownBy(Pieces(p))
  <2>1. ASSUME NEW k \in DOMAIN p
        PROVE  p[k] \in ShownBy(Pieces(p))
    <3>1. PICK i \in 1 .. n : p[k] \in ToSet(piece(i))
      BY <1>5
    <3> HIDE DEF piece
    <3>2. QED
      BY <1>6, <3>1 DEF ShownBy
  <2>2. QED
    BY <2>1 DEF ToSet
<1>9. QED
  BY <1>4, <1>6, <1>7, <1>8

\* A section that is longer than two lengths begins a paragraph that is too long.
Fitting(text, part) ==
  Len(part) > Target + Overlap => \E k \in DOMAIN text : text[k] > Target /\ <<k, 1>> \in ToSet(part)

\* After i paragraphs.
Covers(text, i, s) ==
  /\ s \in [chunks : Seq(Seq(Places)), current : Seq(Places)]
  /\ ShownBy(s.chunks) \cup ToSet(s.current) = UNION {ToSet(Paragraph(text, j)) : j \in 1 .. i}
  /\ \A k \in DOMAIN s.chunks : Fitting(text, s.chunks[k])
  /\ Fitting(text, s.current)

LEMMA CoversWhen ==
  ASSUME NEW text, NEW i, NEW a \in Seq(Seq(Places)), NEW c \in Seq(Places),
         ShownBy(a) \cup ToSet(c) = UNION {ToSet(Paragraph(text, j)) : j \in 1 .. i},
         \A k \in DOMAIN a : Fitting(text, a[k]), Fitting(text, c)
  PROVE  Covers(text, i, [chunks |-> a, current |-> c])
BY DEF Covers

LEMMA FittedCovers ==
  ASSUME WorkspaceAssumption, NEW text \in Seq(Nat \ {0}), NEW i \in DOMAIN text, NEW s, Covers(text, i - 1, s)
  PROVE  Covers(text, i, Fitted(s, Paragraph(text, i)))
<1> DEFINE places == Paragraph(text, i)
           whole(n) == UNION {ToSet(Paragraph(text, j)) : j \in 1 .. n}
           t == Fitted(s, places)
<1>1. places \in Seq(Places) /\ Len(places) = text[i] /\ <<i, 1>> \in ToSet(places)
  BY ParagraphShown
<1>2. /\ s.chunks \in Seq(Seq(Places)) /\ s.current \in Seq(Places)
      /\ s = [chunks |-> s.chunks, current |-> s.current]
      /\ Target \in Nat \ {0} /\ Overlap \in Nat /\ text[i] \in Nat
  BY DEF Covers, WorkspaceAssumption
<1>3. whole(i) = whole(i - 1) \cup ToSet(places)
  <2>1. i \in Nat \ {0}
    OBVIOUS
  <2>2. 1 .. i = (1 .. i - 1) \cup {i}
    BY <2>1
  <2>3. QED
    BY <2>2
<1>4. ShownBy(s.chunks) \cup ToSet(s.current) = whole(i - 1)
  BY DEF Covers
<1> HIDE DEF places, whole
<1>5. CASE Len(s.current) + Len(places) <= Target
  <2>1. t = [chunks |-> s.chunks, current |-> s.current \o places]
    BY <1>2, <1>5 DEF Fitted
  <2>2. /\ s.current \o places \in Seq(Places) /\ ToSet(s.current \o places) = ToSet(s.current) \cup ToSet(places)
        /\ Len(s.current \o places) = Len(s.current) + Len(places)
    BY <1>1, <1>2, Concatenated
  <2>3. Fitting(text, s.current \o places)
    BY <1>2, <1>5, <2>2 DEF Fitting
  <2>4. ShownBy(s.chunks) \cup ToSet(s.current \o places) = whole(i)
    BY <1>3, <1>4, <2>2
  <2>5. Covers(text, i, [chunks |-> s.chunks, current |-> s.current \o places])
    <3>1. \A k \in DOMAIN s.chunks : Fitting(text, s.chunks[k])
      BY DEF Covers
    <3>2. QED
      BY <1>2, <2>2, <2>3, <2>4, <3>1, CoversWhen DEF whole
  <2>6. QED
    BY <2>1, <2>5 DEF places
<1>6. CASE ~(Len(s.current) + Len(places) <= Target) /\ s.current # <<>>
  <2> DEFINE c == LastOf(s.current, Overlap) \o places
             a == Append(s.chunks, s.current)
  <2>1. t = [chunks |-> a, current |-> c]
    BY <1>6 DEF Fitted
  <2>2. /\ LastOf(s.current, Overlap) \in Seq(Places) /\ Len(LastOf(s.current, Overlap)) <= Overlap
        /\ ToSet(LastOf(s.current, Overlap)) \subseteq ToSet(s.current)
    BY <1>2, EndOfSection
  <2>3. /\ c \in Seq(Places) /\ ToSet(c) = ToSet(LastOf(s.current, Overlap)) \cup ToSet(places)
        /\ Len(c) <= Overlap + text[i]
    BY <1>1, <1>2, <2>2, Concatenated
  <2>4. a \in Seq(Seq(Places)) /\ ShownBy(a) = ShownBy(s.chunks) \cup ToSet(s.current)
    BY <1>2, PartsAndOne
  <2>5. \A k \in DOMAIN a : Fitting(text, a[k])
    BY <1>2 DEF Covers
  <2> HIDE DEF a, c
  <2>6. Fitting(text, c)
    <3>1. Len(c) > Target + Overlap => text[i] > Target
      BY <1>2, <2>3
    <3>2. <<i, 1>> \in ToSet(c)
      BY <1>1, <2>3
    <3>3. QED
      BY <3>1, <3>2 DEF Fitting
  <2>7. ShownBy(a) \cup ToSet(c) = whole(i)
    BY <1>3, <1>4, <2>2, <2>3, <2>4
  <2>8. QED
    <3>1. Covers(text, i, [chunks |-> a, current |-> c])
      BY <2>3, <2>4, <2>5, <2>6, <2>7, CoversWhen DEF whole
    <3>2. QED
      BY <2>1, <3>1 DEF places
<1>7. CASE ~(Len(s.current) + Len(places) <= Target) /\ s.current = <<>>
  <2> DEFINE a == s.chunks \o Pieces(places)
  <2>1. t = [chunks |-> a, current |-> s.current]
    BY <1>2, <1>7 DEF Fitted
  <2>2. /\ Pieces(places) \in Seq(Seq(Places)) /\ ShownBy(Pieces(places)) = ToSet(places)
        /\ \A k \in DOMAIN Pieces(places) : Len(Pieces(places)[k]) <= Target
    BY <1>1, PiecesShowAll
  <2>3. a \in Seq(Seq(Places)) /\ ShownBy(a) = ShownBy(s.chunks) \cup ToSet(places)
    BY <1>2, <2>2, PartsJoined
  <2>4. \A k \in DOMAIN Pieces(places) : Fitting(text, Pieces(places)[k])
    <3>1. \A k \in DOMAIN Pieces(places) : Len(Pieces(places)[k]) \in Nat
      BY <2>2
    <3>2. QED
      BY <1>2, <2>2, <3>1 DEF Fitting
  <2>5. \A k \in DOMAIN a : \/ k \in DOMAIN s.chunks /\ a[k] = s.chunks[k]
                            \/ k - Len(s.chunks) \in DOMAIN Pieces(places) /\ a[k] = Pieces(places)[k - Len(s.chunks)]
    <3>1. \A x, y \in Seq(Seq(Places)) : \A k \in DOMAIN (x \o y) :
            \/ k \in DOMAIN x /\ (x \o y)[k] = x[k]
            \/ k - Len(x) \in DOMAIN y /\ (x \o y)[k] = y[k - Len(x)]
      BY Joined
    <3>2. QED
      BY <1>2, <2>2, <3>1
  <2>6. \A k \in DOMAIN a : Fitting(text, a[k])
    BY <2>4, <2>5 DEF Covers
  <2> HIDE DEF a
  <2>7. ShownBy(a) \cup ToSet(s.current) = whole(i)
    BY <1>3, <1>4, <2>3
  <2>8. Fitting(text, s.current)
    BY DEF Covers
  <2>9. QED
    <3>1. Covers(text, i, [chunks |-> a, current |-> s.current])
      BY <1>2, <2>3, <2>6, <2>7, <2>8, CoversWhen DEF whole
    <3>2. QED
      BY <2>1, <3>1 DEF places
<1>8. QED
  BY <1>5, <1>6, <1>7 DEF places

\* Every place of a text is shown by some section, and a section is too long only where a
\* paragraph is (_chunk_text).
LEMMA SectionsAreComplete ==
  ASSUME WorkspaceAssumption, NEW text \in Seq(Nat \ {0})
  PROVE  /\ ShownBy(Chunks(text)) = UNION {ToSet(Paragraph(text, i)) : i \in DOMAIN text}
         /\ \A i \in DOMAIN Chunks(text) : Fitting(text, Chunks(text)[i])
<1> DEFINE s(i) == Sections(text)[i]
           T == {n \in Nat : n <= Len(text) => Covers(text, n, s(n))}
<1>0. Len(text) \in Nat /\ DOMAIN text = 1 .. Len(text)
  OBVIOUS
<1>1. s(0) = NoSections /\ \A i \in 1 .. Len(text) : s(i) = Fitted(s(i - 1), Paragraph(text, i))
  BY <1>0, SectionsStep
<1>2. 0 \in T
  <2>1. ShownBy(<<>>) = {} /\ ToSet(<<>>) = {}
    BY DEF ShownBy, ToSet
  <2>2. UNION {ToSet(Paragraph(text, j)) : j \in 1 .. 0} = {}
    OBVIOUS
  <2>3. Fitting(text, <<>>)
    BY DEF Fitting, WorkspaceAssumption
  <2>4. Covers(text, 0, NoSections)
    BY <2>1, <2>2, <2>3 DEF Covers, NoSections
  <2>5. QED
    BY <1>1, <2>4
<1> HIDE DEF s
<1>3. ASSUME NEW n \in Nat, n \in T
      PROVE  n + 1 \in T
  <2>1. SUFFICES ASSUME n + 1 <= Len(text) PROVE Covers(text, n + 1, s(n + 1))
    OBVIOUS
  <2>2. n + 1 \in DOMAIN text /\ Covers(text, (n + 1) - 1, s(n)) /\ s(n + 1) = Fitted(s(n), Paragraph(text, n + 1))
    <3>1. (n + 1) - 1 = n /\ n + 1 \in 1 .. Len(text)
      BY <1>0, <2>1
    <3>2. QED
      BY <1>0, <1>1, <1>3, <3>1
  <2>3. QED
    BY <2>2, FittedCovers
<1>4. Covers(text, Len(text), s(Len(text)))
  <2> HIDE DEF T
  <2>1. Nat \subseteq T
    BY <1>2, <1>3, Induction
  <2>2. QED
    BY <1>0, <2>1 DEF T
<1> DEFINE e == s(Len(text))
<1>5. /\ e.chunks \in Seq(Seq(Places)) /\ e.current \in Seq(Places)
      /\ ShownBy(e.chunks) \cup ToSet(e.current) = UNION {ToSet(Paragraph(text, i)) : i \in DOMAIN text}
      /\ \A k \in DOMAIN e.chunks : Fitting(text, e.chunks[k])
      /\ Fitting(text, e.current)
  BY <1>0, <1>4 DEF Covers
<1>6. Chunks(text) = IF e.current = <<>> THEN e.chunks ELSE Append(e.chunks, e.current)
  BY DEF Chunks, s
<1> HIDE DEF e
<1>7. CASE e.current = <<>>
  <2>1. ToSet(<<>>) = {}
    BY DEF ToSet
  <2>2. QED
    BY <1>5, <1>6, <1>7, <2>1
<1>8. CASE e.current # <<>>
  <2>1. Chunks(text) = Append(e.chunks, e.current)
    BY <1>6, <1>8
  <2>2. ShownBy(Append(e.chunks, e.current)) = ShownBy(e.chunks) \cup ToSet(e.current)
    BY <1>5, PartsAndOne
  <2>3. \A k \in DOMAIN Append(e.chunks, e.current) : Fitting(text, Append(e.chunks, e.current)[k])
    BY <1>5
  <2>4. QED
    BY <1>5, <2>1, <2>2, <2>3
<1>9. QED
  BY <1>7, <1>8

-----------------------------------------------------------------------------
\* A document that is indexed stays as it was stored: every step before it leaves another status.
WholeFile(q) ==
  /\ DOMAIN q = {"status", "job", "text", "content", "sections", "linked", "pc"}
  /\ q.pc # "none" => q.text \in Texts
  /\ q.status = "indexed" =>
       q.pc = "over" /\ q.content /\ q.linked /\ q.job = "completed" /\ q.text \in Texts /\ q.sections = Chunks(q.text)

FilesInv == DOMAIN file = Documents /\ \A d \in Documents : WholeFile(file[d])

LEMMA OneFile ==
  ASSUME FilesInv, NEW d \in Documents, NEW q, WholeFile(q), file' = [file EXCEPT ![d] = q]
  PROVE  FilesInv'
<1>1. DOMAIN file' = Documents /\ \A x \in Documents : WholeFile(file'[x])
      BY DEF FilesInv
<1> QED BY <1>1 DEF FilesInv, WholeFile

LEMMA FilesStep ==
  ASSUME FilesInv, NEW d \in Documents, Upload(d) \/ Process(d)
  PROVE  FilesInv'
<1>1. /\ DOMAIN file = Documents /\ WholeFile(file[d])
      /\ DOMAIN file[d] = {"status", "job", "text", "content", "sections", "linked", "pc"}
      BY DEF FilesInv, WholeFile
<1>2. CASE Upload(d)
  <2>1. PICK text \in Texts : file' = [file EXCEPT ![d].status = "uploaded", ![d].text = text, ![d].pc = "task"]
        BY <1>2 DEF Upload
  <2> DEFINE q == [file[d] EXCEPT !.status = "uploaded", !.text = text, !.pc = "task"]
  <2>2. WholeFile(q)
        BY <1>1 DEF WholeFile
  <2>3. file' = [file EXCEPT ![d] = q]
        BY <1>1, <2>1
  <2> HIDE DEF q
  <2> QED BY <2>2, <2>3, OneFile
<1>3. CASE TakeJob(d)
  <2> DEFINE q == [file[d] EXCEPT !.job = "running", !.pc = "begin"]
  <2>1. WholeFile(q)
        BY <1>1, <1>3 DEF WholeFile, TakeJob
  <2>2. file' = [file EXCEPT ![d] = q]
        BY <1>1, <1>3 DEF TakeJob
  <2> HIDE DEF q
  <2> QED BY <2>1, <2>2, OneFile
<1>4. CASE TakeDocument(d)
  <2> DEFINE q == [file[d] EXCEPT !.status = "processing", !.pc = "extract"]
  <2>1. WholeFile(q)
        BY <1>1, <1>4 DEF WholeFile, TakeDocument
  <2>2. file' = [file EXCEPT ![d] = q]
        BY <1>1, <1>4 DEF TakeDocument
  <2> HIDE DEF q
  <2> QED BY <2>1, <2>2, OneFile
<1>5. CASE Index(d) /\ file' = [file EXCEPT ![d] = Indexed(@)]
  <2> DEFINE q == Indexed(file[d])
  <2>1. WholeFile(q)
    <3>1. file[d].text \in Texts
          BY <1>1, <1>5 DEF WholeFile, Index
    <3>2. /\ DOMAIN q = DOMAIN file[d] /\ q.text = file[d].text /\ q.pc = "over" /\ q.job = "completed"
          /\ q.content = TRUE /\ q.linked = TRUE /\ q.sections = Chunks(file[d].text)
          BY <1>1 DEF Indexed
    <3> HIDE DEF q
    <3> QED BY <1>1, <3>1, <3>2 DEF WholeFile
  <2>2. file' = [file EXCEPT ![d] = q]
        BY <1>1, <1>5
  <2> HIDE DEF q
  <2> QED BY <2>1, <2>2, OneFile
<1>6. CASE Index(d) /\ file' = [file EXCEPT ![d].pc = "fail"]
  <2> DEFINE q == [file[d] EXCEPT !.pc = "fail"]
  <2>1. WholeFile(q)
        BY <1>1, <1>6 DEF WholeFile, Index
  <2>2. file' = [file EXCEPT ![d] = q]
        BY <1>1, <1>6
  <2> HIDE DEF q
  <2> QED BY <2>1, <2>2, OneFile
<1>7. CASE FailDocument(d)
  <2>1. PICK linked \in BOOLEAN :
          file' = [file EXCEPT ![d].status = "failed", ![d].linked = linked, ![d].pc = "close"]
        BY <1>7 DEF FailDocument
  <2> DEFINE q == [file[d] EXCEPT !.status = "failed", !.linked = linked, !.pc = "close"]
  <2>2. WholeFile(q)
        BY <1>1, <1>7 DEF WholeFile, FailDocument
  <2>3. file' = [file EXCEPT ![d] = q]
        BY <1>1, <2>1
  <2> HIDE DEF q
  <2> QED BY <2>2, <2>3, OneFile
<1>8. CASE FailJob(d)
  <2> DEFINE q == [file[d] EXCEPT !.job = "failed", !.pc = "over"]
  <2>1. WholeFile(q)
        BY <1>1, <1>8 DEF WholeFile, FailJob
  <2>2. file' = [file EXCEPT ![d] = q]
        BY <1>1, <1>8 DEF FailJob
  <2> HIDE DEF q
  <2> QED BY <2>1, <2>2, OneFile
<1> QED BY <1>2, <1>3, <1>4, <1>5, <1>6, <1>7, <1>8 DEF Process, Index

\* A document that is shown as indexed is whole, whatever its text and however long sections
\* are: it was stored with its links and its job at once, and every place of the text is in one
\* of its sections (DocumentService.process, _chunk_text).
THEOREM DocumentsAreComplete == Spec => []IndexedIsComplete
<1>1. Init => FilesInv
      BY DEF Init, WorkspaceInit, NoFile, FilesInv, WholeFile
<1>2. FilesInv /\ [Next]_vars => FilesInv'
  <2> SUFFICES ASSUME FilesInv, [Next]_vars PROVE FilesInv'
      OBVIOUS
  <2>1. CASE UNCHANGED file
        BY <2>1 DEF FilesInv, WholeFile
  <2>2. ASSUME NEW d \in Documents, Upload(d) \/ Process(d) PROVE FilesInv'
        BY <2>2, FilesStep
  <2>3. ASSUME NEW q \in Requests, Arrive(q) \/ Serve(q) PROVE UNCHANGED file
        BY <2>3 DEF Arrive, Serve, Saw, RememberRead, RememberWrite,
           CorrectRead, CorrectWrite, ForgetRead, ForgetWrite, IngestRead, IngestWrite, tables
  <2>4. CASE WorkspaceNext \/ Background
        BY <2>1, <2>2, <2>3, <2>4 DEF WorkspaceNext, Background, recorded
  <2>5. ASSUME NEW c \in Commands, Say(c) \/ Work(c) PROVE UNCHANGED file
        BY <2>5 DEF Say, Work, WorkflowStart, recorded
  <2> QED BY <2>1, <2>4, <2>5 DEF Next, vars, recorded
<1>3. FilesInv => IndexedIsComplete
  <2> SUFFICES ASSUME FilesInv, NEW d \in Documents, file[d].status = "indexed"
               PROVE  LET text  == file[d].text
                          parts == file[d].sections
                      IN  /\ file[d].content /\ file[d].linked /\ file[d].job = "completed"
                          /\ UNION {ToSet(parts[i]) : i \in DOMAIN parts} = UNION {ToSet(Paragraph(text, i)) : i \in DOMAIN text}
                          /\ \A i \in DOMAIN parts : Len(parts[i]) > Target + Overlap =>
                               \E k \in DOMAIN text : text[k] > Target /\ <<k, 1>> \in ToSet(parts[i])
      BY DEF IndexedIsComplete
  <2>1. WholeFile(file[d])
        BY DEF FilesInv
  <2>2. file[d].text \in Seq(Nat \ {0}) /\ file[d].sections = Chunks(file[d].text)
        BY <2>1, WorkspaceAssumption DEF WholeFile
  <2>3. /\ ShownBy(file[d].sections) = UNION {ToSet(Paragraph(file[d].text, i)) : i \in DOMAIN file[d].text}
        /\ \A i \in DOMAIN file[d].sections : Fitting(file[d].text, file[d].sections[i])
        BY <2>2, SectionsAreComplete, WorkspaceAssumption
  <2> QED BY <2>1, <2>3 DEF WholeFile, ShownBy, Fitting
<1> QED BY <1>1, <1>2, <1>3, PTL DEF Spec
=============================================================================
