------------------------------- MODULE MCTransport -------------------------------
(* Three goroutines, one usable cookie, and one operation of each kind of   *)
(* request on the lock: shared, client only, capabilities only, both, and   *)
(* a shared and an exclusive clone (two sessions).                          *)
EXTENDS Transport

CONSTANTS p1, p2, p3

MCProc == {p1, p2, p3}
MCCookie == {"cookie"}

Operation(k, c, a, u) == [kind |-> k, cookie |-> c, azure |-> a, unsupported |-> u]

MCOp == {Operation("list", "short", TRUE, FALSE),
         Operation("push", "cookie", FALSE, FALSE),
         Operation("history", "none", TRUE, FALSE),
         Operation("clone", "none", FALSE, FALSE),
         Operation("clone", "cookie", FALSE, TRUE)}

==================================================================================
