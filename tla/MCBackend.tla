----------------------------- MODULE MCBackend -----------------------------
(***************************************************************************)
(* Parts of the back end that share nothing but the account: the data of   *)
(* voice (in three aspects that do not meet: memories, audio, speaker),    *)
(* the registry of tools, the planner and the API's records.  A behaviour  *)
(* moves one of them; its part is chosen at the start.                     *)
(***************************************************************************)
EXTENDS VoiceData, ToolRegistry, StepPlanner, ApiRecords

VARIABLE part

Parts == {"memory", "audio", "speaker", "registry", "planner", "api"}

MCProfiles ==
  {[save |-> FALSE, approval |-> TRUE, identify |-> TRUE, reject |-> TRUE, days |-> 30],
   [save |-> TRUE, approval |-> FALSE, identify |-> FALSE, reject |-> TRUE, days |-> 0]}

MCProvided == <<<<"a", "b">>, <<"c", "d">>>>

\* Commands with at most three expressions.
MCAsked ==
  {q \in [open : {"no", "site", "item", "unknown"}, search : {"no", "site", "web"},
          query : {"words", "blank"}, item : {"no", "nth", "seen"}, click : {"no", "right_click"},
          scrolls : {<<>>, <<"up", "unsaid">>}, says : UNION {kSubset(n, Phrases) : n \in 0 .. 2}] :
     Cardinality({f \in DOMAIN q \ {"says"} : q[f] # Nobody[f]}) + Cardinality(q.says) <= 3}

MCModelSteps ==
  {[tool |-> "click", object |-> TRUE, input |-> "target" :> "object"],
   [tool |-> "search", object |-> TRUE, input |-> "query" :> "words"],
   [tool |-> "scroll", object |-> TRUE, input |-> "direction" :> "words"],
   [tool |-> "execute_allowed_action", object |-> TRUE, input |-> "action" :> "words"],
   [tool |-> "find", object |-> FALSE, input |-> <<>>]}

Plain(op) == [op |-> op, items |-> 2, channel |-> "database", allowed |-> FALSE, recipient |-> TRUE]

MCRequests ==
  {Plain(op) : op \in Operations \ {"notify", "deliver"}}
    \cup {[Plain("search") EXCEPT !.items = 0]}
    \cup [op : {"notify", "deliver"}, items : {0}, channel : {"database", "email", "unknown"},
          allowed : BOOLEAN, recipient : BOOLEAN]

\* Requests that share no record need not overlap: those of one operation do.
Alike ==
  \A c, d \in Calls :
    served'[c] # "no" /\ served'[d] # "no" => what'[c].op = what'[d].op

vars == <<part, vdvars, regvars, plvars, apivars>>

Init ==
  /\ part \in Parts
  /\ VoiceDataInit /\ RegistryInit /\ PlannerInit /\ ApiInit
  /\ part \in {"registry", "planner", "api"} => profile.save
  /\ part # "registry" => bootstrapped
  /\ part # "planner" => media = "none"

NoFact == \A t \in Turns : turn'[t].fact = Nil

MemoryNext  == VoiceDataNext /\ UNCHANGED <<audio, writing, cleaning, speaker>>
AudioNext   == VoiceDataNext /\ UNCHANGED <<speaker, stored, aged, decided>> /\ NoFact
SpeakerNext == VoiceDataNext /\ UNCHANGED <<audio, writing, cleaning, stored, aged, decided>> /\ NoFact

Next ==
  \/ part = "memory"   /\ MemoryNext   /\ UNCHANGED <<part, regvars, plvars, apivars>>
  \/ part = "audio"    /\ AudioNext    /\ UNCHANGED <<part, regvars, plvars, apivars>>
  \/ part = "speaker"  /\ SpeakerNext  /\ UNCHANGED <<part, regvars, plvars, apivars>>
  \/ part = "registry" /\ RegistryNext /\ UNCHANGED <<part, vdvars, plvars, apivars>>
  \/ part = "planner"  /\ PlannerNext  /\ UNCHANGED <<part, vdvars, regvars, apivars>>
  \/ part = "api"      /\ ApiNext /\ Alike /\ UNCHANGED <<part, vdvars, regvars, plvars>>

Spec == Init /\ [][Next]_vars

Same == Permutations(Turns) \cup Permutations(Calls)
=============================================================================
