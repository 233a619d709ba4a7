----------------------------- MODULE MCConversation -----------------------------
(* Instances of Conversation for TLC. *)
EXTENDS Conversation

CONSTANTS t1, t2
=============================================================================
