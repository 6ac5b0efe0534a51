--------------------------- MODULE MCMessagesQueue ---------------------------
(* Bounds for the checks of MessagesQueue. *)
EXTENDS MessagesQueue, TLC

TimedCalls == {"pop", "pop_timeout"}
AllCalls   == {"pop", "try_pop", "pop_timeout"}
=============================================================================
