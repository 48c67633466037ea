---------------------------- MODULE MCEphemeral ----------------------------
(* Instances of Ephemeral for TLC.                                         *)
EXTENDS Ephemeral, TLC

============================================================================
