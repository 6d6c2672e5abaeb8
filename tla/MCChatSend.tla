----------------------------- MODULE MCChatSend ------------------------------
(***************************************************************************)
(* Two sends of one chat message, with the service kept in the database.   *)
(***************************************************************************)
EXTENDS ChatSend

MCServices == {[storage |-> "database", retryFailures |-> FALSE, faults |-> {"lost"}]}
==============================================================================
