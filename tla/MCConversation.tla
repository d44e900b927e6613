--------------------------- MODULE MCConversation ---------------------------
(* Conversation with the regexp lens and its own budget of fifty. *)
EXTENDS Conversation, Machines

AnyString == STRING
=============================================================================
