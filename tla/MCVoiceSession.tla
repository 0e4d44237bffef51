-------------------------- MODULE MCVoiceSession --------------------------
(* VoiceSession with two requests.                                            *)
EXTENDS VoiceSession, TLC
CONSTANTS r1, r2

MCRequests == {r1, r2}
=============================================================================
