--------------------------- MODULE MCComputerUse ---------------------------
(***************************************************************************)
(* Instances of ComputerUse for TLC.                                       *)
(***************************************************************************)
EXTENDS ComputerUse, TLC

CONSTANTS o1, o2, w1, w2, p1, p2, s1, s2, look, wait, buy, post

MCSessionOf     == [o \in Ops |-> s1]
OneProcess      == [w \in Workers |-> p1]
ProcessPerWorker == [w \in Workers |-> IF w = w1 THEN p1 ELSE p2]

\* One consequential step behind an ordinary one; one alone; a step that waits.
MCPlans  == {<<look, buy>>, <<post>>, <<wait, look>>}
\* Two approvals in a row; a plan longer than MaxSteps.
TwoConsents == {<<buy, post>>, <<look, post, buy>>}
OnePlan  == {<<look, buy>>}
OneConsent == {<<buy>>}
\* A failed step can be replaced by another consequential first step.
FirstStepConsents == {<<buy>>, <<post>>}
=============================================================================
