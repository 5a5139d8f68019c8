---------------------------- MODULE MCWorkspace ----------------------------
(***************************************************************************)
(* An instance of Assistant for TLC.  The workflows are all those of two   *)
(* steps, each of which needs at most two, and some of three.              *)
(***************************************************************************)
EXTENDS Assistant

CONSTANTS r1, r2, r3, m1, m2, t1, t2, p1, p2, a1, a2, c1, c2, d1, e1

S(id, needs, tool) == [id |-> id, needs |-> needs, tool |-> tool]

Needed  == {<<>>} \cup {<<x>> : x \in {0, 1, 2}} \cup {<<x, y>> : x, y \in {1, 2}}
Pairs   == {<<S(2, a, "open"), S(1, b, "open")>> : a, b \in Needed}
Triples == {<<S(3, <<1, 2>>, "open"), S(1, <<>>, "open"), S(2, <<1>>, "open")>>,
            <<S(1, <<>>, "open"), S(2, <<3>>, "open"), S(3, <<2>>, "open")>>,
            <<S(2, <<1, 3>>, "open"), S(3, <<>>, "open"), S(1, <<3>>, "open")>>}
Others  == {<<>>, <<S(1, <<>>, "open"), S(1, <<>>, "open")>>,
            <<S(1, <<>>, "open"), S(2, <<1>>, "gone")>>, <<S(1, <<>>, "open"), S(2, <<1>>, "denied")>>,
            <<S(1, <<>>, "strict")>>, <<S(1, <<>>, "open")>>}

MCTexts     == UNION {[1 .. n -> {1, 2, 3, 4, 5, 8, 9}] : n \in 0 .. 3}
NoText      == {<<>>}
MCWorkflows == Pairs \cup Triples \cup Others
OneStep     == {<<S(1, <<>>, "strict")>>, <<S(1, <<>>, "open"), S(2, <<1>>, "open")>>}

\* _ordered_steps is right on the workflows of the instance.
ASSUME InstanceIsOrdered == OrderIsRight
=============================================================================
