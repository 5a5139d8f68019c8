---------------------------- MODULE ToolRegistry ----------------------------
(***************************************************************************)
(* The registry of tools: one table per process, filled by providers when  *)
(* it is first needed and again after a provider failed, while several     *)
(* threads of the server ask for tools.                                    *)
(***************************************************************************)
EXTENDS Naturals, FiniteSets, Sequences

CONSTANTS
  Threads,        \* threads of the process that look for a tool
  Provided,       \* by provider, in the order of _providers: its tools, in order
  MaxTools,       \* of a provider
  MaxBroken,      \* providers that raise half-way (bound)
  MaxLookups      \* discoveries (bound)

\* Providers are listed, and each names tools of its own (the five of the repository do:
\* core_tools, computer_use, desktop_control, agent_manager, domain_services).
ASSUME RegistryAssumption ==
  /\ MaxBroken \in Nat /\ MaxLookups \in Nat /\ MaxTools \in Nat
  /\ Len(Provided) \in Nat /\ DOMAIN Provided = 1 .. Len(Provided)
  /\ \A p \in DOMAIN Provided : Len(Provided[p]) \in 1 .. MaxTools
  /\ \A p, q \in DOMAIN Provided : \A i \in 1 .. Len(Provided[p]), j \in 1 .. Len(Provided[q]) :
       Provided[p][i] = Provided[q][j] => p = q

VARIABLES
  registry,       \* definitions: [tool, source]
  duplicates,     \* refused registrations
  errors,         \* providers that failed in the last bootstrap
  bootstrapped, bootstrapping,
  ensuring,       \* ToolExecutor._ensuring
  held,           \* threads that hold the lock of the registry
  thread,         \* discoveries: [pc, at]
  broken,         \* providers that raised so far
  lookups

regvars == <<registry, duplicates, errors, bootstrapped, bootstrapping, ensuring, held, thread,
             broken, lookups>>

Providers == DOMAIN Provided
Firsts(p, n) == {[tool |-> Provided[p][i], source |-> p] : i \in 1 .. n}

\* The process is ready: the providers were tried once, before any thread, and some of them
\* raised after their first few tools.
RegistryInit ==
  /\ \E got \in [Providers -> 0 .. MaxTools] :
       /\ \A p \in Providers : got[p] <= Len(Provided[p])
       /\ registry = UNION {Firsts(p, got[p]) : p \in Providers}
       /\ errors = {p \in Providers : got[p] < Len(Provided[p])}
  /\ bootstrapped = (errors = {})
  /\ duplicates = {} /\ bootstrapping = FALSE /\ ensuring = FALSE
  /\ held = {}
  /\ thread = [t \in Threads |-> [pc |-> "idle", at |-> 0]]
  /\ broken = 0 /\ lookups = 0

Goto(t, pc, at) == thread' = [thread EXCEPT ![t] = [pc |-> pc, at |-> at]]

\* _ensure_registry: the flag is shared by all threads; while one fills the registry the
\* others use what is there.
Discover(t) ==
  /\ thread[t].pc = "idle" /\ lookups < MaxLookups
  /\ lookups' = lookups + 1
  /\ Goto(t, IF ensuring THEN "read" ELSE "set", 0)
  /\ UNCHANGED <<registry, duplicates, errors, bootstrapped, bootstrapping, ensuring, held, broken>>

Ensure(t) ==
  /\ thread[t].pc = "set"
  /\ ensuring' = TRUE
  /\ Goto(t, "lock", 0)
  /\ UNCHANGED <<registry, duplicates, errors, bootstrapped, bootstrapping, held, broken, lookups>>

\* bootstrap: under the lock, and nothing to do once it succeeded.
Lock(t) ==
  /\ thread[t].pc = "lock" /\ held = {}
  /\ held' = {t}
  /\ IF bootstrapped
     THEN Goto(t, "unlock", 0) /\ UNCHANGED <<errors, bootstrapping>>
     ELSE Goto(t, "load", 1) /\ errors' = {} /\ bootstrapping' = TRUE
  /\ UNCHANGED <<registry, duplicates, bootstrapped, ensuring, broken, lookups>>

\* register, for the first n tools of provider p.  A definition that is there already is
\* kept; the same name from another provider is refused and ends the provider.
Clash(p, n)  == {i \in 1 .. n : \E d \in registry : d.tool = Provided[p][i] /\ d.source # p}
Reached(p, n) == IF Clash(p, n) = {} THEN n ELSE (CHOOSE i \in Clash(p, n) : \A j \in Clash(p, n) : i <= j) - 1

\* One provider: its module is imported and its tools are registered, all of them or, when
\* it raises, the first few.
Load(t, n) ==
  LET p == thread[t].at
      fails == n < Len(Provided[p]) \/ Clash(p, n) # {}
  IN  /\ thread[t].pc = "load" /\ p \in Providers
      /\ n \in 0 .. Len(Provided[p])
      /\ n < Len(Provided[p]) => broken < MaxBroken
      /\ broken' = IF n < Len(Provided[p]) THEN broken + 1 ELSE broken
      /\ registry' = registry \cup Firsts(p, Reached(p, n))
      /\ duplicates' = duplicates \cup {Provided[p][i] : i \in Clash(p, n)}
      /\ errors' = IF fails THEN errors \cup {p} ELSE errors
      /\ Goto(t, "load", p + 1)
      /\ UNCHANGED <<bootstrapped, bootstrapping, ensuring, held, lookups>>

\* Fault: a bootstrap that ended is complete.
LoadedAnyway(t) ==
  /\ thread[t].pc = "load" /\ thread[t].at \notin Providers
  /\ bootstrapped' = TRUE
  /\ bootstrapping' = FALSE
  /\ Goto(t, "unlock", 0)
  /\ UNCHANGED <<registry, duplicates, errors, ensuring, held, broken, lookups>>

\* Every provider was tried.
Loaded(t) ==
  /\ thread[t].pc = "load" /\ thread[t].at \notin Providers
  /\ bootstrapped' = (errors = {})
  /\ bootstrapping' = FALSE
  /\ Goto(t, "unlock", 0)
  /\ UNCHANGED <<registry, duplicates, errors, ensuring, held, broken, lookups>>

\* The lock is released and the flag is cleared, whoever set it last.
Unlock(t) ==
  /\ thread[t].pc = "unlock"
  /\ held' = held \ {t}
  /\ Goto(t, "clear", 0)
  /\ UNCHANGED <<registry, duplicates, errors, bootstrapped, bootstrapping, ensuring, broken, lookups>>

Ensured(t) ==
  /\ thread[t].pc = "clear"
  /\ ensuring' = FALSE
  /\ Goto(t, "read", 0)
  /\ UNCHANGED <<registry, duplicates, errors, bootstrapped, bootstrapping, held, broken, lookups>>

\* definition(): the tool or an error that names the tools there are.
Read(t) ==
  /\ thread[t].pc = "read"
  /\ Goto(t, "idle", 0)
  /\ UNCHANGED <<registry, duplicates, errors, bootstrapped, bootstrapping, ensuring, held, broken, lookups>>

RegistryNext ==
  \E t \in Threads :
    \/ Discover(t) \/ Ensure(t) \/ Lock(t) \/ Loaded(t) \/ Unlock(t) \/ Ensured(t) \/ Read(t)
    \/ \E n \in 0 .. MaxTools : Load(t, n)

RegistrySpec == RegistryInit /\ [][RegistryNext]_regvars

-----------------------------------------------------------------------------
(* Properties *)

\* Once bootstrapped, always whole: a registry some provider left half-filled is never taken
\* for complete, a retry adds what is missing and refuses nothing that was there
\* (registry.py, "A partial registry is never treated as a completed bootstrap").
BootstrapIsWhole ==
  bootstrapped =>
    /\ registry = UNION {Firsts(p, Len(Provided[p])) : p \in Providers}
    /\ duplicates = {} /\ errors = {}
=============================================================================
