------------------------------ MODULE MessageLog ------------------------------
(***************************************************************************)
(* What the server's message queue promises, without mutex or waiting: a   *)
(* log of everything that was ever queued, with one read position that all *)
(* receivers share. A receive returns the token at that position and moves *)
(* it, or returns nothing; nothing is skipped and nothing is read twice.   *)
(* MessagesQueue implements this specification.                            *)
(***************************************************************************)
EXTENDS Naturals, Sequences

CONSTANTS Consumers, Values, Unblock, None

VARIABLES sent, taken, result

Init ==
  /\ sent = <<>>
  /\ taken = 0
  /\ result = [c \in Consumers |-> None]

(* push or unblock *)
Send(token) ==
  /\ sent' = Append(sent, token)
  /\ UNCHANGED <<taken, result>>

(* The receiver cannot tell an Unblock token from no token. *)
Receive(c) ==
  /\ taken < Len(sent)
  /\ taken' = taken + 1
  /\ result' = [result EXCEPT ![c] =
       IF sent[taken + 1] = Unblock THEN None ELSE sent[taken + 1]]
  /\ UNCHANGED sent

ReturnNothing(c) ==
  /\ result' = [result EXCEPT ![c] = None]
  /\ UNCHANGED <<sent, taken>>

Next ==
  \/ \E token \in Values \cup {Unblock} : Send(token)
  \/ \E c \in Consumers : Receive(c) \/ ReturnNothing(c)

Spec == Init /\ [][Next]_<<sent, taken, result>>
=============================================================================
