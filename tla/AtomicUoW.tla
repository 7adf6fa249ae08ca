----------------------------- MODULE AtomicUoW -----------------------------
(***************************************************************************)
(* What the application layer expects of one unit of work per request, as  *)
(* application/shared/interfaces.py promises it: the writes of a request   *)
(* reach the database all together or not at all, and a request is only    *)
(* answered "ok" after they did.  Sessions, connections and the pool are   *)
(* not visible here; UnitOfWork.tla is the implementation.                 *)
(***************************************************************************)

CONSTANT Reqs           \* the requests

VARIABLES
    committed,          \* the requests whose writes are all in the database
    reply               \* reply[r]: "none", "ok" or "error"

vars == <<committed, reply>>

Init == /\ committed = {}
        /\ reply = [r \in Reqs |-> "none"]

(* Every write of r becomes durable in one step, before r is answered. *)
Commit(r) == /\ reply[r] = "none"
             /\ committed' = committed \cup {r}
             /\ UNCHANGED reply

Succeed(r) == /\ reply[r] = "none"
              /\ r \in committed
              /\ reply' = [reply EXCEPT ![r] = "ok"]
              /\ UNCHANGED committed

(* An error may be reported whether or not the commit was reached: the     *)
(* request can still fail between its commit and its answer.               *)
Fail(r) == /\ reply[r] = "none"
           /\ reply' = [reply EXCEPT ![r] = "error"]
           /\ UNCHANGED committed

Next == \E r \in Reqs : Commit(r) \/ Succeed(r) \/ Fail(r)

Spec == Init /\ [][Next]_vars
=============================================================================
