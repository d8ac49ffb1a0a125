---------------------------- MODULE MCAssistants ----------------------------
(* Instances of Assistants for TLC. *)
EXTENDS Assistants

CONSTANTS q, f1, f2

=============================================================================
