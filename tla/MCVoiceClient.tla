--------------------------- MODULE MCVoiceClient ---------------------------
(***************************************************************************)
(* Instances of VoiceClient for TLC.                                       *)
(***************************************************************************)
EXTENDS VoiceClient, TLC

CONSTANTS k1, k2

BothProfiles == {[uploads |-> b, files |-> b] : b \in BOOLEAN}
InBrowser   == {[uploads |-> FALSE, files |-> FALSE]}
AClick      == {[turns |-> 1, events |-> 1]}
TwoClicks   == {[turns |-> 0, events |-> 2]}
Disturbed   == {[turns |-> 1, events |-> 1], [turns |-> 0, events |-> 2]}
=============================================================================
