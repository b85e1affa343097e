--------------------------- MODULE MCVoiceCapture ---------------------------
(* Small instances of VoiceCapture for TLC.                                *)
EXTENDS VoiceCapture, TLC

CONSTANTS executor, service
=============================================================================
