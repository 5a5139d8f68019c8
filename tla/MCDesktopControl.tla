-------------------------- MODULE MCDesktopControl --------------------------
(***************************************************************************)
(* Instances of DesktopControl for TLC.                                    *)
(***************************************************************************)
EXTENDS DesktopControl

CONSTANTS r1, w1, w2

\* The first application's name has a word that is in the title of both windows, the
\* second one's has none that is in a title.
Titles == [w \in {w1, w2} |-> IF w = w1 THEN {w1, w2} ELSE {}]
=============================================================================
