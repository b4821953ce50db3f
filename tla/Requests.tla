------------------------------ MODULE Requests ------------------------------
(***************************************************************************)
(* The requests the server is asked to serve, and how far each one is.     *)
(*                                                                         *)
(* A handler is a sequence of steps.  Handlers declared `def` run in the   *)
(* pool's threads and may be switched between any two of their steps;      *)
(* handlers declared `async def` run on the event loop and yield at their  *)
(* awaits, but the pool's threads run beside them.                         *)
(***************************************************************************)
CONSTANTS
    Workload,   \* the sets of requests that may be made, one of which is
    None

\* The lock of the admins is held by a request or by None.
ASSUME RequestsAssumption == \A asked \in Workload : None \notin asked

\* f with k mapped to v.
Put(f, k, v) == [i \in DOMAIN f \cup {k} |-> IF i = k THEN v ELSE f[i]]

VARIABLE call   \* of each request: the step it is at, and what it has read

CallInit == \E asked \in Workload : call = [r \in asked |-> [at |-> "new", got |-> None]]

At(r, step) == r \in DOMAIN call /\ call[r].at = step

\* r is of the given kind and has not been looked at.
Asked(r, op) == At(r, "new") /\ r.op = op

Got(r) == call[r].got

\* r goes on to the given step with what it has read.
Go(r, step, got) == call' = [call EXCEPT ![r] = [at |-> step, got |-> got]]

\* r is answered: a result, or one of the handler's early errors.
Answer(r) == Go(r, "done", None)

\* The steps at which a handler holds the event loop: it has not come to an await.
LoopFree ==
    \A r \in DOMAIN call :
      call[r].at \notin {"reuse", "put", "clear code", "clear sessions", "send", "send put",
                        "fill", "ports", "run"}

Quiet == \A r \in DOMAIN call : call[r].at \in {"new", "done", "watching", "shown"}

=============================================================================
