--------------------------- MODULE MCHttpTransport ---------------------------
(* Small instance of HttpTransport: two callers sharing one client, a     *)
(* success, a created, a redirect (not followed by httpx) and two errors.  *)
EXTENDS HttpTransport

CONSTANTS t1, t2

MCTasks == {t1, t2}
MCStatuses == {200, 201, 302, 404, 500}
=============================================================================
