-------------------------- MODULE MCVoiceSession --------------------------
(***************************************************************************)
(* Instances of VoiceSession for TLC.                                      *)
(***************************************************************************)
EXTENDS VoiceSession, TLC

CONSTANTS v1, v2, c1, c2

\* What static/js/echo.js reports.
BrowserReports == {"wake_word_listening", "active_session", "processing", "speaking", "error"}

\* Fewer of them, for two handlers at a time.
FewReports == {"active_session", "processing"}

\* Sessions and handlers are interchangeable.
Symmetry == Permutations(Sessions) \cup Permutations(Clients)
=============================================================================
