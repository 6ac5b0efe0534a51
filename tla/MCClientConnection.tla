-------------------------- MODULE MCClientConnection --------------------------
(* Bounds for the checks of ClientConnection. *)
EXTENDS ClientConnection

Rq(reader, expects, last) == [reader |-> reader, expects |-> expects, last |-> last]

Plain == {Bodiless}

(* Without a body; with one that the client asks about, as one of many and as
   the last; and an upgrade. *)
MixedRequests == {Bodiless, Rq("body", FALSE, FALSE), Rq("body", TRUE, TRUE), Rq("stream", FALSE, TRUE)}

Failing == AllFailures
RefusedOnly == {"refused"}
VersionOnly == {"version"}
NoOps == {}
=============================================================================
