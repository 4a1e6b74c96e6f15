---------------------------- MODULE MCChatIntake ----------------------------
(* Small instances of ChatIntake for TLC. *)
EXTENDS ChatIntake, TLC

=============================================================================
