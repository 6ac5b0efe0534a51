------------------------------ MODULE MCExchange ------------------------------
(* Bounds for the checks of Exchange. *)
EXTENDS Exchange

Get == [method |-> "GET", version |-> 11, length |-> 0, expect |-> FALSE, te |-> <<>>]

(* Bodies that are absent, buffered and streamed, and one that is expected. *)
Bodies == {[Get EXCEPT !.length = l] : l \in 0..2}
            \cup {[Get EXCEPT !.length = 1, !.expect = TRUE]}

Preferences == {<<<<"chunked", 1>>>>, <<<<"identity", 1>>, <<"chunked", 0>>>>,
                <<<<"gzip", 2>>, <<"identity", 1>>, <<"chunked", 1>>>>}

Readers == {[Get EXCEPT !.method = "HEAD"], [Get EXCEPT !.version = 10]}
             \cup {[Get EXCEPT !.te = te] : te \in Preferences}

AllRequests == Bodies \cup Readers
SomeStatuses == {200, 204, 304}
=============================================================================
