----------------------------- MODULE MCTransport -----------------------------
(* Settings for Transport: up to three calls over up to three connections. *)
EXTENDS Transport, TLC

CONSTANTS p1, p2, p3

base == [kind     |-> (p1 :> "get" @@ p2 :> "put" @@ p3 :> "none"),
         big      |-> {},
         statuses |-> {"ok"},
         minConn  |-> 0,
         pool     |-> None,
         shutdown |-> FALSE, expires |-> FALSE, close |-> FALSE]

\* Two calls and a shutdown; an earlier call has made the pool.
Stops == [base EXCEPT !.shutdown = TRUE, !.pool = p3]

\* Two calls that make the pool together; a connection is used again.
Shares == [base EXCEPT !.minConn = 1, !.statuses = {"ok", "error"}]

\* A request that is too big, an unknown operation; the client closes.
Errors == [base EXCEPT !.kind[p1] = "unknown", !.kind[p2] = "get", !.close = TRUE, !.minConn = 1]

TooBig == [base EXCEPT !.kind[p2] = "get", !.big = {p1}, !.close = TRUE]

\* A shutdown, and an operation the server does not know.
Unknown == [Stops EXCEPT !.kind[p1] = "unknown", !.kind[p2] = "none"]

\* One call, and a Shutdown that does not wait to the end.
Expires == [Stops EXCEPT !.kind[p2] = "none", !.expires = TRUE]

Holds == {Stops, Unknown, Expires, Shares, Errors, TooBig}
=============================================================================
