---------------------------- MODULE VoiceStates ----------------------------
(***************************************************************************)
(* The states of a voice session and the moves between them, which the     *)
(* server enforces and the page reports.                                   *)
(***************************************************************************)

State == {"starting", "greeting", "disabled", "wake_word_listening", "active_session",
          "processing", "speaking", "sleeping", "error", "shutdown"}

\* ALLOWED_TRANSITIONS
Allowed(t) ==
  CASE t = "starting"   -> {"greeting", "wake_word_listening", "active_session", "error", "shutdown"}
    [] t = "greeting"   -> {"wake_word_listening", "active_session", "speaking", "error", "shutdown"}
    [] t = "disabled"   -> {"wake_word_listening", "active_session", "error", "shutdown"}
    [] t = "wake_word_listening" ->
         {"active_session", "processing", "speaking", "sleeping", "error", "shutdown"}
    [] t = "active_session" ->
         {"processing", "speaking", "wake_word_listening", "sleeping", "error", "shutdown"}
    [] t = "processing" -> {"active_session", "wake_word_listening", "speaking", "error", "shutdown"}
    [] t = "speaking"   -> {"active_session", "wake_word_listening", "sleeping", "error", "shutdown"}
    [] t = "sleeping"   -> {"wake_word_listening", "active_session", "error", "shutdown"}
    [] t = "error"      -> {"wake_word_listening", "active_session", "shutdown"}
    [] t = "shutdown"   -> {}
=============================================================================
