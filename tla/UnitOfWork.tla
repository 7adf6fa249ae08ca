---------------------------- MODULE UnitOfWork ----------------------------
(***************************************************************************)
(* The unit of work of infrastructure/database/unit_of_work.py, as the     *)
(* REST and GraphQL handlers and the use cases drive it, over the bounded  *)
(* connection pool of infrastructure/database/session.py.                  *)
(*                                                                         *)
(* Every handler does                                                      *)
(*      uow = container.create_uow()                                       *)
(*      async with uow:                                                    *)
(*          repo = SqlAlchemy...Repository(uow.session)                    *)
(*          await UseCase(repo, uow).execute(...)                          *)
(* A *flat* use case (likes, reactions, comments, shares, messages, media, *)
(* notifications) runs its statements and calls uow.commit().  A *nested*  *)
(* one (register, edit user, profile, friend, follow and post use cases)   *)
(* enters the same unit of work a second time, which replaces its session  *)
(* while the repositories keep the first one.                              *)
(*                                                                         *)
(* A session is named by its request and by which __aenter__ made it.      *)
(***************************************************************************)
EXTENDS Naturals, FiniteSets

CONSTANTS
    Reqs,       \* requests, each with a unit of work of its own
    Nested,     \* those whose use case enters the unit of work again
    Guarded,    \* those whose use case has `except: await uow.rollback(); raise`
    Rows,       \* the rows each request writes
    Capacity    \* pool_size + max_overflow

ASSUME ReqsAssumption == Nested \subseteq Reqs /\ Guarded \subseteq Reqs
ASSUME RowsAssumption == Rows # {}
ASSUME CapacityAssumption == Capacity \in Nat

VARIABLES
    pc,         \* pc[r]: where the handler of r is
    exc,        \* exc[r]: an exception is propagating
    uow,        \* uow[r]: SqlAlchemyUnitOfWork._session
    repo,       \* repo[r]: the session the repositories hold
    pend,       \* pend[s]: rows flushed and not committed in session s
    conn,       \* the sessions that hold a connection of the pool
    store,      \* store[r]: the rows of r that are in the database
    reply       \* reply[r]: the response, "none" until it is sent

vars == <<pc, exc, uow, repo, pend, conn, store, reply>>

Flat == Reqs \ Nested
Session == Reqs \X {"outer", "inner"}
Slot == {"none", "outer", "inner"}

TypeOK ==
    /\ pc \in [Reqs -> {"start", "bind", "nest", "work", "committed", "rollback",
                        "inner_exit", "exit", "answer", "done"}]
    /\ exc \in [Reqs -> BOOLEAN]
    /\ uow \in [Reqs -> Slot]
    /\ repo \in [Reqs -> Slot]
    /\ pend \in [Session -> SUBSET Rows]
    /\ conn \in SUBSET Session
    /\ store \in [Reqs -> SUBSET Rows]
    /\ reply \in [Reqs -> {"none", "ok", "error"}]

Init ==
    /\ pc = [r \in Reqs |-> "start"]
    /\ exc = [r \in Reqs |-> FALSE]
    /\ uow = [r \in Reqs |-> "none"]
    /\ repo = [r \in Reqs |-> "none"]
    /\ pend = [s \in Session |-> {}]
    /\ conn = {}
    /\ store = [r \in Reqs |-> {}]
    /\ reply = [r \in Reqs |-> "none"]

Goto(r, l) == pc' = [pc EXCEPT ![r] = l]

(* Mutant of AEnter: a session that is already open is entered again.      *)
AEnterReuses(r, slot) == uow' = [uow EXCEPT ![r] = IF @ = "none" THEN slot ELSE @]

(* __aenter__: the unit of work's session is a new one, whatever it held.  *)
AEnter(r, slot) == uow' = [uow EXCEPT ![r] = slot]

(* The handler's own `async with uow:`. *)
Enter(r) ==
    /\ pc[r] = "start"
    /\ AEnter(r, "outer")
    /\ Goto(r, "bind")
    /\ UNCHANGED <<exc, repo, pend, conn, store, reply>>

(* The repositories are built on the session the unit of work has now.     *)
Bind(r) ==
    /\ pc[r] = "bind"
    /\ repo' = [repo EXCEPT ![r] = uow[r]]
    /\ Goto(r, IF r \in Nested THEN "nest" ELSE "work")
    /\ UNCHANGED <<exc, uow, pend, conn, store, reply>>

(* A nested use case's `async with self._uow:`. *)
InnerEnter(r) ==
    /\ pc[r] = "nest"
    /\ AEnter(r, "inner")
    /\ Goto(r, "work")
    /\ UNCHANGED <<exc, repo, pend, conn, store, reply>>

(* The first statement of a session takes a connection from the pool.      *)
Checkout(r) ==
    /\ pc[r] = "work"
    /\ <<r, repo[r]>> \notin conn
    /\ Cardinality(conn) < Capacity
    /\ conn' = conn \cup {<<r, repo[r]>>}
    /\ UNCHANGED <<pc, exc, uow, repo, pend, store, reply>>

(* A statement of the repository: one more row written and flushed.        *)
Flush(r) ==
    /\ pc[r] = "work"
    /\ <<r, repo[r]>> \in conn
    /\ \E w \in Rows \ pend[<<r, repo[r]>>] :
         pend' = [pend EXCEPT ![<<r, repo[r]>>] = @ \cup {w}]
    /\ UNCHANGED <<pc, exc, uow, repo, conn, store, reply>>

(* Mutant of Commit: it runs before the last statement.                    *)
CommitEarly(r) ==
    /\ pc[r] = "work"
    /\ pend[<<r, repo[r]>>] # {}
    /\ store' = [store EXCEPT ![r] = @ \cup pend[<<r, uow[r]>>]]
    /\ pend' = [pend EXCEPT ![<<r, uow[r]>>] = {}]
    /\ conn' = conn \ {<<r, uow[r]>>}
    /\ Goto(r, "committed")
    /\ UNCHANGED <<exc, uow, repo, reply>>

(* uow.commit(), reached after the last statement: it commits the session  *)
(* the unit of work holds now, and gives its connection back.              *)
Commit(r) ==
    /\ pc[r] = "work"
    /\ pend[<<r, repo[r]>>] = Rows
    /\ LET s == <<r, uow[r]>>
       IN  /\ store' = [store EXCEPT ![r] = @ \cup pend[s]]
           /\ pend' = [pend EXCEPT ![s] = {}]
           /\ conn' = conn \ {s}
    /\ Goto(r, "committed")
    /\ UNCHANGED <<exc, uow, repo, reply>>

AfterUseCase(r) == IF r \in Nested THEN "inner_exit" ELSE "exit"

(* The use case returns after its commit. *)
Return(r) ==
    /\ pc[r] = "committed"
    /\ Goto(r, AfterUseCase(r))
    /\ UNCHANGED <<exc, uow, repo, pend, conn, store, reply>>

(* Mutant of RaiseIn: the exception is swallowed.                          *)
RaiseInSwallowed(r) ==
    /\ Goto(r, IF r \in Guarded THEN "rollback" ELSE AfterUseCase(r))
    /\ UNCHANGED exc

RaiseIn(r) ==
    /\ exc' = [exc EXCEPT ![r] = TRUE]
    /\ Goto(r, IF r \in Guarded THEN "rollback" ELSE AfterUseCase(r))

(* An exception inside the use case: a domain error, a failed statement or *)
(* a cancelled task, before the commit or after it (also a commit whose    *)
(* reply is lost).  A use case without a `try` may raise before it enters  *)
(* the unit of work.                                                       *)
Raise(r) ==
    /\ \/ pc[r] \in {"work", "committed"} /\ RaiseIn(r)
       \/ pc[r] = "nest" /\ r \notin Guarded /\ exc' = [exc EXCEPT ![r] = TRUE] /\ Goto(r, "exit")
    /\ UNCHANGED <<uow, repo, pend, conn, store, reply>>

(* Mutant of PoolTimeout: pool_timeout is None.                            *)
PoolTimeoutNever(r) == FALSE

(* No connection was returned to the pool within pool_timeout.             *)
PoolTimeout(r) ==
    /\ pc[r] = "work"
    /\ <<r, repo[r]>> \notin conn
    /\ Cardinality(conn) >= Capacity
    /\ RaiseIn(r)
    /\ UNCHANGED <<uow, repo, pend, conn, store, reply>>

(* uow.rollback() in the `except` of a guarded use case. *)
Rollback(r) ==
    /\ pc[r] = "rollback"
    /\ pend' = [pend EXCEPT ![<<r, uow[r]>>] = {}]
    /\ conn' = conn \ {<<r, uow[r]>>}
    /\ Goto(r, AfterUseCase(r))
    /\ UNCHANGED <<exc, uow, repo, store, reply>>

(* Mutant of AExit: the session is forgotten without close().              *)
AExitNoClose(r) == uow' = [uow EXCEPT ![r] = "none"] /\ UNCHANGED <<pend, conn>>

(* __aexit__: roll back and close the session, if there is one, and forget *)
(* it.  close() drops what was not committed even without an exception.    *)
AExit(r) ==
    \/ /\ uow[r] # "none"
       /\ pend' = [pend EXCEPT ![<<r, uow[r]>>] = {}]
       /\ conn' = conn \ {<<r, uow[r]>>}
       /\ uow' = [uow EXCEPT ![r] = "none"]
    \/ /\ uow[r] = "none"
       /\ UNCHANGED <<pend, conn, uow>>

InnerExit(r) ==
    /\ pc[r] = "inner_exit"
    /\ AExit(r)
    /\ Goto(r, "exit")
    /\ UNCHANGED <<exc, repo, store, reply>>

OuterExit(r) ==
    /\ pc[r] = "exit"
    /\ AExit(r)
    /\ Goto(r, "answer")
    /\ UNCHANGED <<exc, repo, store, reply>>

(* Mutant of Answer: an error after the commit undoes what was committed.  *)
AnswerUndoes(r) ==
    /\ pc[r] = "answer"
    /\ reply' = [reply EXCEPT ![r] = IF exc[r] THEN "error" ELSE "ok"]
    /\ store' = [store EXCEPT ![r] = IF exc[r] THEN {} ELSE @]
    /\ repo' = [repo EXCEPT ![r] = "none"]
    /\ Goto(r, "done")
    /\ UNCHANGED <<exc, uow, pend, conn>>

(* The response; the handler's frame, and with it the repositories, goes.  *)
Answer(r) ==
    /\ pc[r] = "answer"
    /\ reply' = [reply EXCEPT ![r] = IF exc[r] THEN "error" ELSE "ok"]
    /\ repo' = [repo EXCEPT ![r] = "none"]
    /\ Goto(r, "done")
    /\ UNCHANGED <<exc, uow, pend, conn, store>>

(* A session nobody refers to any more is garbage collected: the pool      *)
(* takes its connection back and the transaction is rolled back.           *)
Collect(s) ==
    /\ s \in conn
    /\ s[2] # uow[s[1]] /\ s[2] # repo[s[1]]
    /\ pend' = [pend EXCEPT ![s] = {}]
    /\ conn' = conn \ {s}
    /\ UNCHANGED <<pc, exc, uow, repo, store, reply>>

(* What the event loop makes r do next; Raise is not scheduled by anyone.  *)
Step(r) ==
    \/ Enter(r) \/ Bind(r) \/ InnerEnter(r) \/ Checkout(r) \/ Flush(r)
    \/ Commit(r) \/ Return(r) \/ PoolTimeout(r) \/ Rollback(r)
    \/ InnerExit(r) \/ OuterExit(r) \/ Answer(r)

Terminated == (\A r \in Reqs : pc[r] = "done") /\ UNCHANGED vars

Next ==
    \/ \E r \in Reqs : Step(r) \/ Raise(r)
    \/ \E s \in Session : Collect(s)
    \/ Terminated

Spec == Init /\ [][Next]_vars

(* A ready coroutine is resumed and a pool timeout fires; nothing else is  *)
(* assumed, in particular not that the collector ever runs.                *)
FairSpec == Spec /\ \A r \in Reqs : WF_vars(Step(r))

-----------------------------------------------------------------------------
(* Properties. *)

(* A request answered "ok" has every row it wrote in the database.  This   *)
(* is what `# Commit transaction` in the use cases claims for every        *)
(* request; it fails for the nested ones.                                  *)
OkMeansDurable == \A r \in Reqs : reply[r] = "ok" => store[r] = Rows

(* The flat use cases keep that promise, whatever the nested requests that *)
(* share the pool with them do.                                            *)
FlatOkMeansDurable == \A r \in Flat : reply[r] = "ok" => store[r] = Rows

(* No request is ever half stored: an exception between two statements,    *)
(* before or after the commit, leaves all of its rows or none.             *)
AllOrNothing == \A r \in Reqs : store[r] \in {{}, Rows}

(* A flat request never keeps a connection past its `async with` block:    *)
(* close() runs on every path, so only running requests load the pool.     *)
NoFlatLeak == \A s \in conn : s[1] \in Flat => pc[s[1]] \in {"work", "rollback", "exit"}

(* The second __aenter__ makes the commit act on an empty session: what a  *)
(* nested request writes never reaches the database, on any path.          *)
NestedNeverStored == \A r \in Nested : store[r] = {}

(* Every request is answered, also when the pool is exhausted by sessions  *)
(* that were left behind: the pool timeout turns waiting into an error.    *)
EveryRequestAnswered == \A r \in Reqs : <>(reply[r] # "none")

(* For the flat requests the implementation is the atomic unit of work.    *)
Abstract == INSTANCE AtomicUoW WITH
    Reqs <- Flat,
    committed <- {r \in Flat : store[r] = Rows},
    reply <- [r \in Flat |-> reply[r]]

(* The unit of work with its sessions, pool and exceptions implements the  *)
(* atomic one for the flat use cases.                                      *)
RefinesAtomic == Abstract!Spec
=============================================================================
