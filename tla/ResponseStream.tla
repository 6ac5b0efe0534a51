---------------------------- MODULE ResponseStream ----------------------------
(***************************************************************************)
(* What a client may rely on when it pipelines requests: the responses it  *)
(* reads come in the order of the requests, each of them whole before the  *)
(* next begins, and a 100 Continue comes before the response it announces. *)
(* ClientConnection implements this for the requests it accepts.           *)
(***************************************************************************)
EXTENDS Naturals, Sequences

CONSTANT Slots          (* the requests of a connection, in their order      *)

VARIABLE wire           (* what the client has been sent                     *)

Parts == {"continue", "head", "body"}

(* What may come after the part x = <<slot, part>>. *)
MayFollow(x, y) ==
  \/ x[2] = "head" /\ y = <<x[1], "body">>
  \/ x[2] = "continue" /\ y = <<x[1], "head">>
  \/ x[2] # "head" /\ y[1] > x[1] /\ y[2] # "body"

Init == wire = <<>>

Send(x) ==
  /\ IF wire = <<>> THEN x[2] # "body" ELSE MayFollow(wire[Len(wire)], x)
  /\ wire' = Append(wire, x)

Next == \E x \in Slots \X Parts : Send(x)

Spec == Init /\ [][Next]_wire
=============================================================================
