------------------------- MODULE RequestProofs ------------------------------
(***************************************************************************)
(* What every request passes through: UnitOfWork.tla and RateLimiter.tla.  *)
(***************************************************************************)
EXTENDS UnitOfWork, RateLimiter, TLAPS

-----------------------------------------------------------------------------
(***************************************************************************)
(* Proofs about UnitOfWork.tla, for any set of requests, any choice of     *)
(* nested and guarded ones, any rows and any pool capacity.                *)
(***************************************************************************)

(* Which session the unit of work and the repositories hold, by place.     *)
SessionsByPlace == \A r \in Reqs :
    /\ pc[r] \in {"start", "answer", "done"} => uow[r] = "none"
    /\ pc[r] \in {"bind", "nest"} => uow[r] = "outer"
    /\ pc[r] \in {"work", "committed", "rollback"} =>
          uow[r] = (IF r \in Nested THEN "inner" ELSE "outer")
    /\ pc[r] = "inner_exit" => r \in Nested /\ uow[r] = "inner"
    /\ pc[r] = "exit" => uow[r] \in (IF r \in Nested THEN {"none", "outer"} ELSE {"outer"})
    /\ pc[r] = "nest" => r \in Nested
    /\ repo[r] = (IF pc[r] \in {"start", "bind", "done"} THEN "none" ELSE "outer")

(* The session made by the second __aenter__ never runs a statement.       *)
InnerIdle == \A r \in Reqs : pend[<<r, "inner">>] = {} /\ <<r, "inner">> \notin conn

(* Only a flat request inside its block has uncommitted rows or a connection. *)
FlatBusy == \A r \in Flat :
    (pend[<<r, "outer">>] # {} \/ <<r, "outer">> \in conn)
        => pc[r] \in {"work", "rollback", "exit"}

(* How far the rows of a request have come, by place.                      *)
StoreByPlace == \A r \in Reqs :
    /\ r \in Nested => store[r] = {}
    /\ store[r] \in {{}, Rows}
    /\ r \in Flat /\ pc[r] = "committed" => store[r] = Rows
    /\ r \in Flat /\ pc[r] \in {"exit", "answer", "done"} /\ ~exc[r] => store[r] = Rows

(* The answer is the last step, and "ok" is the answer without exception.  *)
ReplyByPlace == \A r \in Reqs :
    /\ reply[r] = "none" <=> pc[r] # "done"
    /\ reply[r] = "ok" => ~exc[r]
    /\ pc[r] = "rollback" => exc[r]

IndInv == TypeOK /\ SessionsByPlace /\ InnerIdle /\ FlatBusy /\ StoreByPlace /\ ReplyByPlace

(* The invariant holds initially. *)
LEMMA InitIndInv == Init => IndInv
BY ReqsAssumption DEF Init, IndInv, TypeOK, SessionsByPlace, InnerIdle, FlatBusy, StoreByPlace,
   ReplyByPlace, Session, Slot, Flat

(* Enter preserves the invariant. *)
LEMMA EnterIndInv == ASSUME IndInv, NEW r \in Reqs, Enter(r) PROVE IndInv'
<1> USE ReqsAssumption, RowsAssumption DEF IndInv, Session, Slot, Flat, Enter, AEnter, Goto
<1>1. TypeOK'
  BY DEF TypeOK
<1>2. SessionsByPlace'
  BY DEF TypeOK, SessionsByPlace
<1>3. InnerIdle'
  BY DEF TypeOK, InnerIdle, SessionsByPlace
<1>4. FlatBusy'
  BY DEF TypeOK, FlatBusy, SessionsByPlace
<1>5. StoreByPlace'
  BY DEF TypeOK, StoreByPlace, SessionsByPlace
<1>6. ReplyByPlace'
  BY DEF TypeOK, ReplyByPlace
<1> QED BY <1>1, <1>2, <1>3, <1>4, <1>5, <1>6

(* Bind preserves the invariant. *)
LEMMA BindIndInv == ASSUME IndInv, NEW r \in Reqs, Bind(r) PROVE IndInv'
<1> USE ReqsAssumption, RowsAssumption DEF IndInv, Session, Slot, Flat, Bind, Goto
<1>1. TypeOK'
  BY DEF TypeOK
<1>2. SessionsByPlace'
  BY DEF TypeOK, SessionsByPlace
<1>3. InnerIdle'
  BY DEF TypeOK, InnerIdle, SessionsByPlace
<1>4. FlatBusy'
  BY DEF TypeOK, FlatBusy, SessionsByPlace
<1>5. StoreByPlace'
  BY DEF TypeOK, StoreByPlace, SessionsByPlace
<1>6. ReplyByPlace'
  BY DEF TypeOK, ReplyByPlace
<1> QED BY <1>1, <1>2, <1>3, <1>4, <1>5, <1>6

(* InnerEnter preserves the invariant. *)
LEMMA InnerEnterIndInv == ASSUME IndInv, NEW r \in Reqs, InnerEnter(r) PROVE IndInv'
<1> USE ReqsAssumption, RowsAssumption DEF IndInv, Session, Slot, Flat, InnerEnter, AEnter, Goto
<1>1. TypeOK'
  BY DEF TypeOK
<1>2. SessionsByPlace'
  BY DEF TypeOK, SessionsByPlace
<1>3. InnerIdle'
  BY DEF TypeOK, InnerIdle, SessionsByPlace
<1>4. FlatBusy'
  BY DEF TypeOK, FlatBusy, SessionsByPlace
<1>5. StoreByPlace'
  BY DEF TypeOK, StoreByPlace, SessionsByPlace
<1>6. ReplyByPlace'
  BY DEF TypeOK, ReplyByPlace
<1> QED BY <1>1, <1>2, <1>3, <1>4, <1>5, <1>6

(* Checkout preserves the invariant. *)
LEMMA CheckoutIndInv == ASSUME IndInv, NEW r \in Reqs, Checkout(r) PROVE IndInv'
<1> USE ReqsAssumption, RowsAssumption DEF IndInv, Session, Slot, Flat, Checkout
<1>1. TypeOK'
  BY DEF TypeOK, SessionsByPlace
<1>2. SessionsByPlace'
  BY DEF TypeOK, SessionsByPlace
<1>3. InnerIdle'
  BY DEF TypeOK, InnerIdle, SessionsByPlace
<1>4. FlatBusy'
  BY DEF TypeOK, FlatBusy, SessionsByPlace
<1>5. StoreByPlace'
  BY DEF TypeOK, StoreByPlace, SessionsByPlace
<1>6. ReplyByPlace'
  BY DEF TypeOK, ReplyByPlace
<1> QED BY <1>1, <1>2, <1>3, <1>4, <1>5, <1>6

(* Flush preserves the invariant. *)
LEMMA FlushIndInv == ASSUME IndInv, NEW r \in Reqs, Flush(r) PROVE IndInv'
<1> USE ReqsAssumption, RowsAssumption DEF IndInv, Session, Slot, Flat, Flush
<1>1. TypeOK'
  BY DEF TypeOK
<1>2. SessionsByPlace'
  BY DEF TypeOK, SessionsByPlace
<1>3. InnerIdle'
  <2>1. repo[r] = "outer"
    BY DEF SessionsByPlace
  <2>2. \A q \in Reqs : pend'[<<q, "inner">>] = pend[<<q, "inner">>]
    BY <2>1 DEF TypeOK
  <2> QED BY <2>2 DEF InnerIdle
<1>4. FlatBusy'
  BY DEF TypeOK, FlatBusy, SessionsByPlace
<1>5. StoreByPlace'
  BY DEF TypeOK, StoreByPlace, SessionsByPlace
<1>6. ReplyByPlace'
  BY DEF TypeOK, ReplyByPlace
<1> QED BY <1>1, <1>2, <1>3, <1>4, <1>5, <1>6

(* Commit preserves the invariant. *)
LEMMA CommitIndInv == ASSUME IndInv, NEW r \in Reqs, Commit(r) PROVE IndInv'
<1> USE ReqsAssumption, RowsAssumption DEF IndInv, Session, Slot, Flat, Commit, Goto
<1> DEFINE s == <<r, uow[r]>>
<1>0. /\ repo[r] = "outer"
      /\ r \in Nested => s = <<r, "inner">> /\ pend[s] = {}
      /\ r \in Flat => s = <<r, "outer">> /\ pend[s] = Rows
      /\ s \in Session
  BY DEF SessionsByPlace, InnerIdle
<1>1. TypeOK'
  <2>1. pend[s] \in SUBSET Rows /\ store[r] \in SUBSET Rows
    BY <1>0 DEF TypeOK
  <2> QED BY <1>0, <2>1 DEF TypeOK
<1>2. SessionsByPlace'
  BY DEF TypeOK, SessionsByPlace
<1>3. InnerIdle'
  BY DEF TypeOK, InnerIdle, SessionsByPlace
<1>4. FlatBusy'
  BY DEF TypeOK, FlatBusy, SessionsByPlace
<1>5. StoreByPlace'
  <2>1. store'[r] = IF r \in Nested THEN {} ELSE Rows
    BY <1>0 DEF TypeOK, StoreByPlace
  <2>2. \A q \in Reqs \ {r} : store'[q] = store[q] /\ pc'[q] = pc[q]
    BY DEF TypeOK
  <2> QED BY <2>1, <2>2 DEF TypeOK, StoreByPlace
<1>6. ReplyByPlace'
  BY DEF TypeOK, ReplyByPlace
<1> QED BY <1>1, <1>2, <1>3, <1>4, <1>5, <1>6

(* Return preserves the invariant. *)
LEMMA ReturnIndInv == ASSUME IndInv, NEW r \in Reqs, Return(r) PROVE IndInv'
<1> USE ReqsAssumption, RowsAssumption DEF IndInv, Session, Slot, Flat, Return, Goto, AfterUseCase
<1>1. TypeOK'
  BY DEF TypeOK
<1>2. SessionsByPlace'
  BY DEF TypeOK, SessionsByPlace
<1>3. InnerIdle'
  BY DEF TypeOK, InnerIdle, SessionsByPlace
<1>4. FlatBusy'
  BY DEF TypeOK, FlatBusy, SessionsByPlace
<1>5. StoreByPlace'
  BY DEF TypeOK, StoreByPlace, SessionsByPlace
<1>6. ReplyByPlace'
  BY DEF TypeOK, ReplyByPlace
<1> QED BY <1>1, <1>2, <1>3, <1>4, <1>5, <1>6

(* PoolTimeout preserves the invariant. *)
LEMMA PoolTimeoutIndInv == ASSUME IndInv, NEW r \in Reqs, PoolTimeout(r) PROVE IndInv'
<1> USE ReqsAssumption, RowsAssumption DEF IndInv, Session, Slot, Flat, PoolTimeout, RaiseIn, Goto, AfterUseCase
<1>1. TypeOK'
  BY DEF TypeOK
<1>2. SessionsByPlace'
  BY DEF TypeOK, SessionsByPlace
<1>3. InnerIdle'
  BY DEF TypeOK, InnerIdle, SessionsByPlace
<1>4. FlatBusy'
  BY DEF TypeOK, FlatBusy, SessionsByPlace
<1>5. StoreByPlace'
  BY DEF TypeOK, StoreByPlace, SessionsByPlace
<1>6. ReplyByPlace'
  BY DEF TypeOK, ReplyByPlace
<1> QED BY <1>1, <1>2, <1>3, <1>4, <1>5, <1>6

(* Rollback preserves the invariant. *)
LEMMA RollbackIndInv == ASSUME IndInv, NEW r \in Reqs, Rollback(r) PROVE IndInv'
<1> USE ReqsAssumption, RowsAssumption DEF IndInv, Session, Slot, Flat, Rollback, Goto, AfterUseCase
<1>1. TypeOK'
  BY DEF TypeOK
<1>2. SessionsByPlace'
  BY DEF TypeOK, SessionsByPlace
<1>3. InnerIdle'
  BY DEF TypeOK, InnerIdle, SessionsByPlace
<1>4. FlatBusy'
  BY DEF TypeOK, FlatBusy, SessionsByPlace
<1>5. StoreByPlace'
  BY DEF TypeOK, StoreByPlace, ReplyByPlace
<1>6. ReplyByPlace'
  BY DEF TypeOK, ReplyByPlace
<1> QED BY <1>1, <1>2, <1>3, <1>4, <1>5, <1>6

(* InnerExit preserves the invariant. *)
LEMMA InnerExitIndInv == ASSUME IndInv, NEW r \in Reqs, InnerExit(r) PROVE IndInv'
<1> USE ReqsAssumption, RowsAssumption DEF IndInv, Session, Slot, Flat, InnerExit, AExit, Goto
<1>1. TypeOK'
  BY DEF TypeOK
<1>2. SessionsByPlace'
  BY DEF TypeOK, SessionsByPlace
<1>3. InnerIdle'
  BY DEF TypeOK, InnerIdle, SessionsByPlace
<1>4. FlatBusy'
  BY DEF TypeOK, FlatBusy, SessionsByPlace
<1>5. StoreByPlace'
  BY DEF TypeOK, StoreByPlace, SessionsByPlace
<1>6. ReplyByPlace'
  BY DEF TypeOK, ReplyByPlace
<1> QED BY <1>1, <1>2, <1>3, <1>4, <1>5, <1>6

(* OuterExit preserves the invariant. *)
LEMMA OuterExitIndInv == ASSUME IndInv, NEW r \in Reqs, OuterExit(r) PROVE IndInv'
<1> USE ReqsAssumption, RowsAssumption DEF IndInv, Session, Slot, Flat, OuterExit, AExit, Goto
<1>1. TypeOK'
  BY DEF TypeOK
<1>2. SessionsByPlace'
  BY DEF TypeOK, SessionsByPlace
<1>3. InnerIdle'
  BY DEF TypeOK, InnerIdle, SessionsByPlace
<1>4. FlatBusy'
  <2> SUFFICES ASSUME NEW s \in Flat,
                      pend'[<<s, "outer">>] # {} \/ <<s, "outer">> \in conn'
               PROVE  pc'[s] \in {"work", "rollback", "exit"}
    BY DEF FlatBusy
  <2>1. CASE s = r
    <3>1. uow[r] = "outer"
      BY <2>1 DEF SessionsByPlace
    <3>2. pend'[<<r, "outer">>] = {} /\ <<r, "outer">> \notin conn'
      BY <3>1 DEF TypeOK
    <3> QED BY <2>1, <3>2
  <2>2. CASE s # r
    <3>1. pend'[<<s, "outer">>] = pend[<<s, "outer">>]
      BY <2>2 DEF TypeOK
    <3>2. <<s, "outer">> \in conn' => <<s, "outer">> \in conn
      OBVIOUS
    <3>3. pc'[s] = pc[s]
      BY <2>2 DEF TypeOK
    <3> QED BY <3>1, <3>2, <3>3 DEF FlatBusy
  <2> QED BY <2>1, <2>2
<1>5. StoreByPlace'
  BY DEF TypeOK, StoreByPlace, SessionsByPlace
<1>6. ReplyByPlace'
  BY DEF TypeOK, ReplyByPlace
<1> QED BY <1>1, <1>2, <1>3, <1>4, <1>5, <1>6

(* Answer preserves the invariant. *)
LEMMA AnswerIndInv == ASSUME IndInv, NEW r \in Reqs, Answer(r) PROVE IndInv'
<1> USE ReqsAssumption, RowsAssumption DEF IndInv, Session, Slot, Flat, Answer, Goto
<1>1. TypeOK'
  BY DEF TypeOK
<1>2. SessionsByPlace'
  BY DEF TypeOK, SessionsByPlace
<1>3. InnerIdle'
  BY DEF TypeOK, InnerIdle, SessionsByPlace
<1>4. FlatBusy'
  BY DEF TypeOK, FlatBusy, SessionsByPlace
<1>5. StoreByPlace'
  BY DEF TypeOK, StoreByPlace, SessionsByPlace
<1>6. ReplyByPlace'
  BY DEF TypeOK, ReplyByPlace
<1> QED BY <1>1, <1>2, <1>3, <1>4, <1>5, <1>6

(* Raise preserves the invariant. *)
LEMMA RaiseIndInv == ASSUME IndInv, NEW r \in Reqs, Raise(r) PROVE IndInv'
<1> USE ReqsAssumption, RowsAssumption DEF IndInv, Session, Slot, Flat, Raise, RaiseIn, Goto, AfterUseCase
<1>1. TypeOK'
  BY DEF TypeOK
<1>2. SessionsByPlace'
  BY DEF TypeOK, SessionsByPlace
<1>3. InnerIdle'
  BY DEF TypeOK, InnerIdle, SessionsByPlace
<1>4. FlatBusy'
  BY DEF TypeOK, FlatBusy, SessionsByPlace
<1>5. StoreByPlace'
  BY DEF TypeOK, StoreByPlace, SessionsByPlace
<1>6. ReplyByPlace'
  BY DEF TypeOK, ReplyByPlace
<1> QED BY <1>1, <1>2, <1>3, <1>4, <1>5, <1>6

(* Collect preserves the invariant: it drops a session that is not in use. *)
LEMMA CollectIndInv == ASSUME IndInv, NEW s \in Session, Collect(s) PROVE IndInv'
<1> USE DEF IndInv, Session, Slot, Flat, Collect
<1>1. TypeOK'
  BY DEF TypeOK
<1>2. SessionsByPlace'
  BY DEF SessionsByPlace
<1>3. InnerIdle'
  BY DEF TypeOK, InnerIdle
<1>4. FlatBusy'
  BY ReqsAssumption DEF TypeOK, FlatBusy
<1>5. StoreByPlace'
  BY DEF StoreByPlace
<1>6. ReplyByPlace'
  BY DEF ReplyByPlace
<1> QED BY <1>1, <1>2, <1>3, <1>4, <1>5, <1>6

(* Every step of the system preserves the invariant. *)
LEMMA NextIndInv == IndInv /\ [Next]_vars => IndInv'
<1> SUFFICES ASSUME IndInv, [Next]_vars PROVE IndInv'
  OBVIOUS
<1>1. ASSUME NEW r \in Reqs, Step(r) PROVE IndInv'
  BY <1>1, EnterIndInv, BindIndInv, InnerEnterIndInv, CheckoutIndInv, FlushIndInv,
     CommitIndInv, ReturnIndInv, PoolTimeoutIndInv, RollbackIndInv, InnerExitIndInv,
     OuterExitIndInv, AnswerIndInv DEF Step
<1>2. ASSUME NEW r \in Reqs, Raise(r) PROVE IndInv'
  BY <1>2, RaiseIndInv
<1>3. ASSUME NEW s \in Session, Collect(s) PROVE IndInv'
  BY <1>3, CollectIndInv
<1>4. CASE UNCHANGED vars
  BY <1>4 DEF vars, IndInv, TypeOK, SessionsByPlace, InnerIdle, FlatBusy, StoreByPlace,
     ReplyByPlace, Session, Flat
<1> QED BY <1>1, <1>2, <1>3, <1>4 DEF Next, Terminated

(* The invariant holds in every reachable state. *)
LEMMA AlwaysIndInv == Spec => []IndInv
BY InitIndInv, NextIndInv, PTL DEF Spec

(* Type correctness of the whole state. *)
THEOREM UoWTyping == Spec => []TypeOK
<1>1. IndInv => TypeOK
  BY DEF IndInv
<1> QED BY <1>1, AlwaysIndInv, PTL

(* commit() of a flat use case is durable before its "ok" is sent, whatever *)
(* exceptions, pool timeouts and abandoned sessions the others cause.      *)
THEOREM FlatDurability == Spec => []FlatOkMeansDurable
<1>1. IndInv => FlatOkMeansDurable
  BY ReqsAssumption DEF IndInv, FlatOkMeansDurable, StoreByPlace, ReplyByPlace, Flat
<1> QED BY <1>1, AlwaysIndInv, PTL

(* Nothing is ever half stored: commit() moves all flushed rows at once.   *)
THEOREM Atomicity == Spec => []AllOrNothing
<1>1. IndInv => AllOrNothing
  BY DEF IndInv, AllOrNothing, StoreByPlace
<1> QED BY <1>1, AlwaysIndInv, PTL

(* __aexit__ returns the connection of a flat request on every path.       *)
THEOREM NoFlatConnectionLeak == Spec => []NoFlatLeak
<1>1. IndInv => NoFlatLeak
  <2> SUFFICES ASSUME IndInv, NEW s \in conn, s[1] \in Flat
               PROVE  pc[s[1]] \in {"work", "rollback", "exit"}
    BY DEF NoFlatLeak
  <2>1. s \in Session /\ s[1] \in Reqs
    BY DEF IndInv, TypeOK, Session
  <2>2. s = <<s[1], "outer">> \/ s = <<s[1], "inner">>
    BY <2>1 DEF Session
  <2> QED BY <2>1, <2>2 DEF IndInv, InnerIdle, FlatBusy
<1> QED BY <1>1, AlwaysIndInv, PTL

(* Entering the unit of work a second time makes the commit vacuous: no    *)
(* schedule, pool size or error path lets a nested use case store a row.   *)
THEOREM NestedStoresNothing == Spec => []NestedNeverStored
<1>1. IndInv => NestedNeverStored
  BY ReqsAssumption DEF IndInv, NestedNeverStored, StoreByPlace
<1> QED BY <1>1, AlwaysIndInv, PTL

(* Only Commit touches the database and only Answer replies. *)
LEMMA QuietSteps ==
    ASSUME NEW r \in Reqs, Step(r) \/ Raise(r), ~Commit(r), ~Answer(r)
    PROVE  UNCHANGED <<store, reply>>
BY DEF Step, Raise, Enter, Bind, InnerEnter, Checkout, Flush, Return, PoolTimeout,
   Rollback, InnerExit, OuterExit

(* Every step of the implementation is a step of the atomic unit of work   *)
(* for the flat requests, or leaves what it shows unchanged.               *)
LEMMA StepRefines == IndInv /\ [Next]_vars => [Abstract!Next]_(Abstract!vars)
<1> SUFFICES ASSUME IndInv, [Next]_vars PROVE [Abstract!Next]_(Abstract!vars)
  OBVIOUS
<1> USE ReqsAssumption DEF Flat
<1>1. ASSUME UNCHANGED <<store, reply>> PROVE UNCHANGED Abstract!vars
  BY <1>1 DEF Abstract!vars
<1>2. ASSUME NEW r \in Reqs, Commit(r) PROVE [Abstract!Next]_(Abstract!vars)
  <2>1. reply[r] = "none" /\ reply' = reply
    BY <1>2 DEF Commit, IndInv, ReplyByPlace
  <2>2. \A q \in Reqs \ {r} : store'[q] = store[q]
    BY <1>2 DEF Commit, IndInv, TypeOK
  <2>3. CASE r \in Flat
    <3>1. store'[r] = Rows
      BY <1>2, <2>3, CommitIndInv, RowsAssumption DEF IndInv, StoreByPlace, Commit, Goto, TypeOK
    <3>2. Abstract!Commit(r)
      BY <2>1, <2>2, <2>3, <3>1 DEF Abstract!Commit
    <3> QED BY <2>3, <3>2 DEF Abstract!Next
  <2>4. CASE r \in Nested
    <3>1. store'[r] = store[r]
      BY <1>2, <2>4, CommitIndInv DEF IndInv, StoreByPlace
    <3>2. UNCHANGED Abstract!vars
      BY <2>1, <2>2, <2>4, <3>1 DEF Abstract!vars
    <3> QED BY <3>2
  <2> QED BY <2>3, <2>4
<1>3. ASSUME NEW r \in Reqs, Answer(r) PROVE [Abstract!Next]_(Abstract!vars)
  <2>1. /\ reply[r] = "none" /\ store' = store
        /\ reply' = [reply EXCEPT ![r] = IF exc[r] THEN "error" ELSE "ok"]
    BY <1>3 DEF Answer, IndInv, ReplyByPlace
  <2>2. CASE r \in Flat /\ exc[r]
    <3>1. Abstract!Fail(r)
      BY <2>1, <2>2 DEF Abstract!Fail, IndInv, TypeOK
    <3> QED BY <2>2, <3>1 DEF Abstract!Next
  <2>3. CASE r \in Flat /\ ~exc[r]
    <3>1. store[r] = Rows
      BY <1>3, <2>3 DEF Answer, IndInv, StoreByPlace
    <3>2. Abstract!Succeed(r)
      BY <2>1, <2>3, <3>1 DEF Abstract!Succeed, IndInv, TypeOK
    <3> QED BY <2>3, <3>2 DEF Abstract!Next
  <2>4. CASE r \in Nested
    <3>1. UNCHANGED Abstract!vars
      BY <2>1, <2>4 DEF Abstract!vars, IndInv, TypeOK
    <3> QED BY <3>1
  <2> QED BY <2>2, <2>3, <2>4 DEF IndInv, TypeOK
<1>4. ASSUME NEW s \in Session, Collect(s) PROVE UNCHANGED <<store, reply>>
  BY <1>4 DEF Collect
<1>5. ASSUME UNCHANGED vars PROVE UNCHANGED <<store, reply>>
  BY <1>5 DEF vars
<1> QED BY <1>1, <1>2, <1>3, <1>4, <1>5, QuietSteps DEF Next, Terminated

(* The sessions, the pool and the error paths implement the atomic unit of *)
(* work that the use cases are written against, for the flat requests.     *)
THEOREM FlatRefinement == Spec => RefinesAtomic
<1>1. Init => Abstract!Init
  BY RowsAssumption DEF Init, Abstract!Init, Flat
<1> QED BY <1>1, StepRefines, AlwaysIndInv, PTL DEF Spec, RefinesAtomic, Abstract!Spec

-----------------------------------------------------------------------------
(* The invariants of RateLimiter.tla for every set of clients, every limit *)
(* and every length of the window.                                         *)

(* The inductive invariant: a counter of the current window has counted at *)
(* least what has passed and outlives the window, a counter of a later     *)
(* window has not been touched, and requests only hold windows of the past *)
(* or of now.                                                              *)
CurrentCounts == \A k \in Keys : k[2] = WindowOf(now) =>
    /\ passed[k] <= count[k]
    /\ expiry[k] # Never => WindowOf(expiry[k]) > k[2]
FutureUntouched == \A k \in Keys : k[2] > WindowOf(now) => passed[k] = 0 /\ expiry[k] = Never
KeysKnown == \A r \in Requests : stage[r] # "idle" =>
    KeyOf(r) \in Keys /\ KeyOf(r)[2] <= WindowOf(now)
CountsTaken ==
    /\ \A k \in Keys : count[k] <= taken[k]
    /\ \A r \in Requests : KeyOf(r) \in Keys => req[r].current <= taken[KeyOf(r)]

IInv ==
    /\ LimiterTypeOK /\ WindowBound /\ RefusedOverLimit /\ CountersExpire
    /\ CurrentCounts /\ FutureUntouched /\ KeysKnown /\ CountsTaken

(* Division by the length of the window.                                   *)
LEMMA Division ==
    ASSUME NEW t \in Nat
    PROVE  WindowOf(t) \in Nat /\ Window * WindowOf(t) <= t /\ t < Window * WindowOf(t) + Window
BY LimitsAssumption, SMT DEF WindowOf

(* Windows follow the clock.                                               *)
LEMMA Monotone ==
    ASSUME NEW s \in Nat, NEW t \in Nat, s <= t
    PROVE  WindowOf(s) <= WindowOf(t)
<1> DEFINE a == WindowOf(s)
<1> DEFINE b == WindowOf(t)
<1>1. a \in Nat /\ b \in Nat /\ Window * a <= s /\ t < Window * b + Window /\ Window \in Nat \ {0}
  BY Division, LimitsAssumption
<1> HIDE DEF a, b
<1>2. SUFFICES ASSUME b + 1 <= a PROVE FALSE
  BY <1>1, SMT DEF a, b
<1>3. Window * (b + 1) <= Window * a
  BY <1>1, <1>2, SMT
<1>4. Window * (b + 1) = Window * b + Window
  BY <1>1, SMT
<1>5. Window * b \in Nat /\ Window * a \in Nat /\ Window * (b + 1) \in Nat
  BY <1>1, SMT
<1> QED BY <1>1, <1>3, <1>4, <1>5, SMT

(* A deadline of Window + 1 seconds lies after the window it is set in.    *)
LEMMA Outlives ==
    ASSUME NEW t \in Nat
    PROVE  WindowOf(t + Window + 1) > WindowOf(t)
<1> DEFINE a == WindowOf(t)
<1> DEFINE b == WindowOf(t + Window + 1)
<1>1. a \in Nat /\ b \in Nat /\ Window \in Nat \ {0} /\ Window * a <= t /\ t + Window + 1 < Window * b + Window
  BY Division, LimitsAssumption, SMT
<1> HIDE DEF a, b
<1>2. SUFFICES ASSUME b <= a PROVE FALSE
  BY <1>1, SMT DEF a, b
<1>3. Window * b <= Window * a
  BY <1>1, <1>2, SMT
<1>4. Window * b \in Nat /\ Window * a \in Nat
  BY <1>1, SMT
<1> QED BY <1>1, <1>3, <1>4, SMT

(* A key is a bucket and a window.                                         *)
LEMMA KeyParts ==
    /\ \A k \in Keys : k[1] \in Buckets /\ k[2] \in Windows /\ k[2] \in Nat
    /\ \A b : Limit(b) \in Nat
    /\ <<>> \notin Keys
    /\ \A auth \in Addresses \cup Bearers, t \in Times : <<Identifier(auth), WindowOf(t)>> \in Keys
<1>1. \A t \in Times : t \in Nat /\ t <= MaxTime
  BY LimitsAssumption DEF Times
<1>2. \A t \in Times : WindowOf(t) \in Windows
  <2> SUFFICES ASSUME NEW t \in Times PROVE WindowOf(t) \in Windows
    OBVIOUS
  <2>1. WindowOf(t) \in Nat /\ WindowOf(MaxTime) \in Nat /\ WindowOf(t) <= WindowOf(MaxTime)
    BY <1>1, Division, Monotone, LimitsAssumption
  <2> QED BY <2>1 DEF Windows
<1>3. WindowOf(MaxTime) \in Nat
  BY Division, LimitsAssumption
<1>4. \A w \in Windows : w \in Nat
  BY <1>3 DEF Windows
<1> QED BY <1>2, <1>4, LimitsAssumption DEF Keys, Limit, Buckets

(* The initial state. *)
LEMMA InitInv == LimiterInit => IInv
<1> SUFFICES ASSUME LimiterInit PROVE IInv
  OBVIOUS
<1>1. LimiterTypeOK
  BY LimitsAssumption DEF LimiterInit, LimiterTypeOK, NoRequest, Times, Never
<1>2. \A r \in Requests : KeyOf(r) \notin Keys
  BY KeyParts DEF LimiterInit, KeyOf, NoRequest
<1> QED BY <1>1, <1>2, KeyParts, LimitsAssumption
        DEF LimiterInit, IInv, WindowBound, RefusedOverLimit, CountersExpire, CurrentCounts, FutureUntouched,
            KeysKnown, CountsTaken

(* What INCR does, and that the clock stays in its range.                  *)
LEMMA NowType == LimiterTypeOK => now \in Nat /\ WindowOf(now) \in Nat
BY Division, LimitsAssumption DEF LimiterTypeOK, Times

LEMMA IncrementInv ==
    ASSUME IInv, NEW k \in Keys, k[2] <= WindowOf(now), Increment(k), UNCHANGED <<now, expiry>>
    PROVE  /\ count' \in [Keys -> 0..MaxCount] /\ taken' \in [Keys -> 0..MaxCount]
           /\ passed' \in [Keys -> 0..MaxCount]
           /\ WindowBound' /\ CurrentCounts' /\ FutureUntouched'
           /\ \A j \in Keys : count'[j] <= taken'[j] /\ taken[j] <= taken'[j]
           /\ count'[k] = count[k] + 1 /\ \A j \in Keys : j # k => count'[j] = count[j]
<1>1. now \in Nat /\ WindowOf(now) \in Nat
  BY NowType DEF IInv
<1>2. /\ count \in [Keys -> 0..MaxCount] /\ taken \in [Keys -> 0..MaxCount]
      /\ passed \in [Keys -> 0..MaxCount] /\ MaxCount \in Nat
  BY LimitsAssumption DEF IInv, LimiterTypeOK
<1>3. /\ count[k] <= taken[k] /\ taken[k] < MaxCount /\ passed[k] <= Limit(k[1])
      /\ k[2] = WindowOf(now) => passed[k] <= count[k]
      /\ k[2] \in Nat /\ Limit(k[1]) \in Nat
  BY KeyParts DEF IInv, CountsTaken, Increment, WindowBound, CurrentCounts
<1>4. /\ count' = [count EXCEPT ![k] = count[k] + 1]
      /\ taken' = [taken EXCEPT ![k] = taken[k] + 1]
      /\ passed' = IF count[k] + 1 <= Limit(k[1]) /\ WindowOf(now) = k[2]
                   THEN [passed EXCEPT ![k] = passed[k] + 1] ELSE passed
  BY DEF Increment
<1>5. count' \in [Keys -> 0..MaxCount] /\ taken' \in [Keys -> 0..MaxCount]
  BY <1>2, <1>3, <1>4
<1>6. passed' \in [Keys -> 0..MaxCount]
  BY <1>2, <1>3, <1>4
<1>7. \A j \in Keys : count'[j] <= taken'[j] /\ taken[j] <= taken'[j]
  BY <1>2, <1>3, <1>4 DEF IInv, CountsTaken
<1>8. WindowBound'
  BY <1>2, <1>3, <1>4, KeyParts DEF IInv, WindowBound
<1>9. CurrentCounts'
  BY <1>1, <1>2, <1>3, <1>4, KeyParts DEF IInv, CurrentCounts, WindowOf
<1>10. FutureUntouched'
  BY <1>1, <1>2, <1>3, <1>4, KeyParts DEF IInv, FutureUntouched, WindowOf
<1> QED BY <1>2, <1>4, <1>5, <1>6, <1>7, <1>8, <1>9, <1>10

(* Every step preserves the invariant.                                     *)
LEMMA NextInv == IInv /\ [LimiterNext]_limiterVars => IInv'
<1> SUFFICES ASSUME IInv, [LimiterNext]_limiterVars PROVE IInv'
  OBVIOUS
<1>0. now \in Nat /\ WindowOf(now) \in Nat
  BY NowType DEF IInv
<1>a. /\ LimiterTypeOK /\ WindowBound /\ RefusedOverLimit /\ CountersExpire
      /\ CurrentCounts /\ FutureUntouched /\ KeysKnown /\ CountsTaken
  BY DEF IInv
<1>b. MaxCount \in Nat /\ Window \in Nat \ {0}
  BY LimitsAssumption
<1>1. ASSUME NEW r \in Requests, Dispatch(r) PROVE IInv'
  <2>1. PICK auth \in Addresses \cup Bearers :
            req' = [req EXCEPT ![r] = [key |-> <<Identifier(auth), WindowOf(now)>>, current |-> 0]]
    BY <1>1 DEF Dispatch
  <2>2. <<Identifier(auth), WindowOf(now)>> \in Keys
    BY <1>a, KeyParts DEF LimiterTypeOK
  <2>3. /\ UNCHANGED <<now, count, expiry, passed, taken, dropped>>
        /\ stage' = [stage EXCEPT ![r] = "incr"] /\ stage[r] = "idle"
    BY <1>1 DEF Dispatch, Advance
  <2>4. LimiterTypeOK'
    BY <1>a, <1>b, <2>1, <2>2, <2>3 DEF LimiterTypeOK
  <2>5. KeysKnown'
    BY <1>a, <1>0, <2>1, <2>2, <2>3 DEF LimiterTypeOK, KeysKnown, KeyOf, WindowOf
  <2>6. CountsTaken'
    BY <1>a, <2>1, <2>2, <2>3 DEF LimiterTypeOK, CountsTaken, KeyOf
  <2>7. RefusedOverLimit' /\ CountersExpire'
    BY <1>a, <2>1, <2>3 DEF LimiterTypeOK, RefusedOverLimit, CountersExpire, KeyOf
  <2>8. WindowBound' /\ CurrentCounts' /\ FutureUntouched'
    BY <1>a, <2>3 DEF WindowBound, CurrentCounts, FutureUntouched, WindowOf
  <2> QED BY <2>4, <2>5, <2>6, <2>7, <2>8 DEF IInv
<1>2. ASSUME NEW r \in Requests, Incr(r) PROVE IInv'
  <2> DEFINE k == KeyOf(r)
  <2>1. k \in Keys /\ k[2] <= WindowOf(now)
    BY <1>a, <1>2 DEF Incr, KeysKnown
  <2>2. /\ Increment(k) /\ UNCHANGED <<now, expiry, dropped>> /\ stage[r] = "incr"
        /\ req' = [req EXCEPT ![r].current = count[k] + 1]
        /\ stage' = [stage EXCEPT ![r] = IF count[k] = 0 THEN "expire" ELSE "decide"]
    BY <1>2 DEF Incr, Advance
  <2>3. /\ count' \in [Keys -> 0..MaxCount] /\ taken' \in [Keys -> 0..MaxCount]
        /\ passed' \in [Keys -> 0..MaxCount]
        /\ WindowBound' /\ CurrentCounts' /\ FutureUntouched'
        /\ \A j \in Keys : count'[j] <= taken'[j] /\ taken[j] <= taken'[j]
        /\ count'[k] = count[k] + 1 /\ \A j \in Keys : j # k => count'[j] = count[j]
    BY <2>1, <2>2, IncrementInv
  <2> HIDE DEF k
  <2>4. /\ k = req[r].key /\ \A q \in Requests : req'[q].key = req[q].key
        /\ req'[r].current = count'[k]
        /\ \A q \in Requests : q # r => req'[q] = req[q] /\ stage'[q] = stage[q]
        /\ req' \in [Requests -> [key : Keys \cup {<<>>}, current : 0..MaxCount]]
    <3>1. count[k] + 1 \in 0..MaxCount
      BY <2>1, <2>3
    <3>2. req \in [Requests -> [key : Keys \cup {<<>>}, current : 0..MaxCount]] /\ k = req[r].key
      BY <1>a DEF LimiterTypeOK, k, KeyOf
    <3>3. req' \in [Requests -> [key : Keys \cup {<<>>}, current : 0..MaxCount]]
      BY <3>1, <3>2, <2>2
    <3>4. \A q \in Requests : q # r => req'[q] = req[q] /\ stage'[q] = stage[q]
      BY <3>2, <1>a, <2>2 DEF LimiterTypeOK
    <3>5. req'[r].key = req[r].key /\ req'[r].current = count'[k]
      BY <3>2, <2>2, <2>3
    <3> QED BY <3>2, <3>3, <3>4, <3>5
  <2>5. LimiterTypeOK'
    BY <1>a, <2>2, <2>3, <2>4 DEF LimiterTypeOK
  <2>6. KeysKnown'
    BY <1>a, <2>1, <2>2, <2>4 DEF LimiterTypeOK, KeysKnown, KeyOf, WindowOf
  <2>7. CountsTaken'
    <3> SUFFICES ASSUME NEW q \in Requests, req'[q].key \in Keys
                 PROVE  req'[q].current <= taken'[req'[q].key]
      BY <2>3 DEF CountsTaken, KeyOf
    <3>1. CASE q = r
      BY <3>1, <2>1, <2>3, <2>4
    <3>2. CASE q # r
      <4>1. req[q].current <= taken[req[q].key] /\ req'[q] = req[q]
        BY <3>2, <1>a, <2>4 DEF CountsTaken, KeyOf
      <4>2. taken[req[q].key] <= taken'[req[q].key]
        BY <2>3, <2>4
      <4>3. req[q].current \in Nat /\ taken[req[q].key] \in Nat /\ taken'[req[q].key] \in Nat
        BY <1>a, <1>b, <2>3, <2>4 DEF LimiterTypeOK
      <4> QED BY <4>1, <4>2, <4>3
    <3> QED BY <3>1, <3>2
  <2>8. RefusedOverLimit'
    <3> SUFFICES ASSUME NEW q \in Requests, stage'[q] = "refused"
                 PROVE  taken'[req'[q].key] > Limit(req'[q].key[1])
      BY DEF RefusedOverLimit, KeyOf
    <3>1. q # r /\ stage[q] = "refused"
      BY <1>a, <2>2, <2>4 DEF LimiterTypeOK
    <3>2. req[q].key \in Keys /\ taken[req[q].key] > Limit(req[q].key[1])
      BY <3>1, <1>a DEF KeysKnown, RefusedOverLimit, KeyOf
    <3>3. taken[req[q].key] <= taken'[req[q].key] /\ req'[q].key = req[q].key
      BY <3>2, <2>3, <2>4
    <3>4. taken[req[q].key] \in Nat /\ taken'[req[q].key] \in Nat /\ Limit(req[q].key[1]) \in Nat
      BY <3>2, <1>a, <1>b, <2>3, KeyParts DEF LimiterTypeOK
    <3> QED BY <3>2, <3>3, <3>4
  <2>9. CountersExpire'
    <3> SUFFICES ASSUME NEW j \in Keys, count'[j] > 0, expiry'[j] = Never
                 PROVE  j \in dropped' \/ \E q \in Requests : stage'[q] = "expire" /\ req'[q].key = j
      BY DEF CountersExpire, KeyOf
    <3>1. CASE j = k /\ count[k] = 0
      BY <3>1, <1>a, <2>2, <2>4 DEF LimiterTypeOK
    <3>2. CASE ~(j = k /\ count[k] = 0)
      <4>1. count[j] > 0 /\ expiry[j] = Never
        BY <3>2, <1>a, <1>b, <2>1, <2>2, <2>3 DEF LimiterTypeOK
      <4>2. j \in dropped \/ \E q \in Requests : stage[q] = "expire" /\ req[q].key = j
        BY <4>1, <1>a DEF CountersExpire, KeyOf
      <4>3. \A q \in Requests : stage[q] = "expire" => q # r
        BY <2>2
      <4> QED BY <4>2, <4>3, <2>2, <2>4
    <3> QED BY <3>1, <3>2
  <2> QED BY <2>3, <2>5, <2>6, <2>7, <2>8, <2>9 DEF IInv
<1>3. ASSUME NEW r \in Requests, Expire(r) PROVE IInv'
  <2> DEFINE k == KeyOf(r)
  <2>1. k \in Keys /\ k[2] <= WindowOf(now)
    BY <1>a, <1>3 DEF Expire, SetDeadline, KeysKnown
  <2>2. /\ UNCHANGED <<now, count, req, passed, taken, dropped>> /\ stage[r] = "expire"
        /\ stage' = [stage EXCEPT ![r] = "decide"]
        /\ expiry' = [expiry EXCEPT ![k] = now + Window + 1]
    <3>1. now + (Window + 1) = now + Window + 1
      BY <1>0, <1>b
    <3> QED BY <1>3, <3>1 DEF Expire, SetDeadline, Advance
  <2>3. /\ WindowOf(now + Window + 1) > WindowOf(now) /\ now + Window + 1 \in Nat
        /\ WindowOf(now + Window + 1) \in Nat
    BY <1>0, <1>b, Outlives, Division
  <2> HIDE DEF k
  <2>4. LimiterTypeOK'
    BY <1>a, <2>1, <2>2, <2>3 DEF LimiterTypeOK
  <2>5. CurrentCounts'
    <3> SUFFICES ASSUME NEW j \in Keys, j[2] = WindowOf(now)
                 PROVE  passed[j] <= count[j] /\ (expiry'[j] # Never => WindowOf(expiry'[j]) > j[2])
      BY <2>2 DEF CurrentCounts, WindowOf
    <3>1. CASE j = k
      BY <3>1, <1>a, <2>2, <2>3 DEF CurrentCounts, LimiterTypeOK
    <3>2. CASE j # k
      BY <3>2, <1>a, <2>2 DEF CurrentCounts, LimiterTypeOK
    <3> QED BY <3>1, <3>2
  <2>6. FutureUntouched'
    <3> SUFFICES ASSUME NEW j \in Keys, j[2] > WindowOf(now) PROVE passed[j] = 0 /\ expiry'[j] = Never
      BY <2>2 DEF FutureUntouched, WindowOf
    <3>1. j # k
      BY <2>1, <1>0, KeyParts
    <3> QED BY <3>1, <1>a, <2>2 DEF FutureUntouched, LimiterTypeOK
  <2>7. CountersExpire'
    <3> SUFFICES ASSUME NEW j \in Keys, count[j] > 0, expiry'[j] = Never
                 PROVE  j \in dropped \/ \E q \in Requests : stage'[q] = "expire" /\ req[q].key = j
      BY <2>2 DEF CountersExpire, KeyOf
    <3>1. j # k /\ expiry[j] = Never
      BY <1>a, <2>1, <2>2, <2>3 DEF LimiterTypeOK, Never
    <3>2. \A q \in Requests : req[q].key = j => q # r
      BY <3>1 DEF k, KeyOf
    <3> QED BY <3>1, <3>2, <1>a, <2>2 DEF CountersExpire, KeyOf, LimiterTypeOK
  <2>8. WindowBound' /\ RefusedOverLimit' /\ KeysKnown' /\ CountsTaken'
    BY <1>a, <2>2 DEF LimiterTypeOK, WindowBound, RefusedOverLimit, KeysKnown, CountsTaken, KeyOf, WindowOf
  <2> QED BY <2>4, <2>5, <2>6, <2>7, <2>8 DEF IInv
<1>4. ASSUME NEW r \in Requests, Decide(r) PROVE IInv'
  <2> DEFINE k == KeyOf(r)
  <2>1. /\ UNCHANGED <<now, count, expiry, req, passed, taken, dropped>> /\ stage[r] = "decide"
        /\ stage' = [stage EXCEPT ![r] = IF req[r].current <= Limit(k[1]) THEN "allowed" ELSE "refused"]
    BY <1>4 DEF Decide, Advance
  <2>2. /\ k \in Keys /\ req[r].current <= taken[k] /\ Limit(k[1]) \in Nat
        /\ taken[k] \in Nat /\ req[r].current \in Nat
    BY <1>a, <1>b, <2>1, KeyParts DEF KeysKnown, CountsTaken, LimiterTypeOK
  <2>3. RefusedOverLimit'
    BY <1>a, <2>1, <2>2 DEF LimiterTypeOK, RefusedOverLimit, KeyOf
  <2>4. LimiterTypeOK' /\ CountersExpire' /\ KeysKnown'
    BY <1>a, <2>1 DEF LimiterTypeOK, CountersExpire, KeysKnown, KeyOf, WindowOf
  <2>5. WindowBound' /\ CurrentCounts' /\ FutureUntouched' /\ CountsTaken'
    BY <1>a, <2>1 DEF WindowBound, CurrentCounts, FutureUntouched, CountsTaken, KeyOf, WindowOf
  <2> QED BY <2>3, <2>4, <2>5 DEF IInv
<1>5. ASSUME NEW r \in Requests, FailOpen(r) PROVE IInv'
  <2> DEFINE k == KeyOf(r)
  <2>1. /\ UNCHANGED <<now, expiry, req>> /\ stage[r] \in {"incr", "expire"}
        /\ stage' = [stage EXCEPT ![r] = "allowed"]
    BY <1>5 DEF FailOpen, Advance
  <2>2. k \in Keys /\ k[2] <= WindowOf(now)
    BY <1>a, <2>1 DEF KeysKnown
  <2>3. CASE Increment(k) /\ stage[r] = "incr" /\ dropped' = dropped \cup (IF count[k] = 0 THEN {k} ELSE {})
    <3>1. /\ count' \in [Keys -> 0..MaxCount] /\ taken' \in [Keys -> 0..MaxCount]
          /\ passed' \in [Keys -> 0..MaxCount]
          /\ WindowBound' /\ CurrentCounts' /\ FutureUntouched'
          /\ \A j \in Keys : count'[j] <= taken'[j] /\ taken[j] <= taken'[j]
          /\ count'[k] = count[k] + 1 /\ \A j \in Keys : j # k => count'[j] = count[j]
      BY <2>1, <2>2, <2>3, IncrementInv
    <3> HIDE DEF k
    <3>2. LimiterTypeOK' /\ KeysKnown'
      BY <1>a, <2>1, <2>2, <2>3, <3>1 DEF LimiterTypeOK, KeysKnown, KeyOf, WindowOf
    <3>3. CountsTaken'
      <4> SUFFICES ASSUME NEW q \in Requests, req[q].key \in Keys PROVE req[q].current <= taken'[req[q].key]
        BY <2>1, <3>1 DEF CountsTaken, KeyOf
      <4>1. req[q].current <= taken[req[q].key] /\ taken[req[q].key] <= taken'[req[q].key]
        BY <1>a, <3>1 DEF CountsTaken, KeyOf
      <4>2. req[q].current \in Nat /\ taken[req[q].key] \in Nat /\ taken'[req[q].key] \in Nat
        BY <1>a, <1>b, <3>1 DEF LimiterTypeOK
      <4> QED BY <4>1, <4>2
    <3>4. RefusedOverLimit'
      <4> SUFFICES ASSUME NEW q \in Requests, stage'[q] = "refused" PROVE taken'[req[q].key] > Limit(req[q].key[1])
        BY <2>1 DEF RefusedOverLimit, KeyOf
      <4>1. q # r /\ stage[q] = "refused"
        BY <1>a, <2>1 DEF LimiterTypeOK
      <4>2. req[q].key \in Keys /\ taken[req[q].key] > Limit(req[q].key[1])
        BY <4>1, <1>a DEF KeysKnown, RefusedOverLimit, KeyOf
      <4>3. /\ taken[req[q].key] <= taken'[req[q].key] /\ taken[req[q].key] \in Nat
            /\ taken'[req[q].key] \in Nat /\ Limit(req[q].key[1]) \in Nat
        BY <4>2, <1>a, <1>b, <3>1, KeyParts DEF LimiterTypeOK
      <4> QED BY <4>2, <4>3
    <3>5. CountersExpire'
      <4> SUFFICES ASSUME NEW j \in Keys, count'[j] > 0, expiry[j] = Never
                   PROVE  j \in dropped' \/ \E q \in Requests : stage'[q] = "expire" /\ req[q].key = j
        BY <2>1 DEF CountersExpire, KeyOf
      <4>1. CASE j = k /\ count[k] = 0
        BY <4>1, <2>3
      <4>2. CASE ~(j = k /\ count[k] = 0)
        <5>1. count[j] > 0
          BY <4>2, <1>a, <1>b, <2>2, <3>1 DEF LimiterTypeOK
        <5>2. j \in dropped \/ \E q \in Requests : stage[q] = "expire" /\ req[q].key = j
          BY <5>1, <1>a DEF CountersExpire, KeyOf
        <5> QED BY <5>2, <1>a, <2>1, <2>3 DEF LimiterTypeOK
      <4> QED BY <4>1, <4>2
    <3> QED BY <3>1, <3>2, <3>3, <3>4, <3>5 DEF IInv
  <2>4. CASE UNCHANGED <<count, passed, taken>> /\ dropped' = dropped \cup (IF stage[r] = "expire" THEN {k} ELSE {})
    <3>1. LimiterTypeOK' /\ KeysKnown' /\ RefusedOverLimit'
      BY <1>a, <2>1, <2>2, <2>4 DEF LimiterTypeOK, KeysKnown, RefusedOverLimit, KeyOf, WindowOf
    <3>2. CountersExpire'
      BY <1>a, <2>1, <2>2, <2>4 DEF LimiterTypeOK, CountersExpire, KeyOf
    <3>3. WindowBound' /\ CurrentCounts' /\ FutureUntouched' /\ CountsTaken'
      BY <1>a, <2>1, <2>4 DEF WindowBound, CurrentCounts, FutureUntouched, CountsTaken, KeyOf, WindowOf
    <3> QED BY <3>1, <3>2, <3>3 DEF IInv
  <2> QED BY <1>5, <2>3, <2>4 DEF FailOpen
<1>6. ASSUME NEW r \in Requests, Leave(r) PROVE IInv'
  <2> DEFINE k == KeyOf(r)
  <2>1. /\ UNCHANGED <<now, count, expiry, passed, taken>> /\ stage[r] # "idle" /\ stage' = [stage EXCEPT ![r] = "idle"]
        /\ dropped' = dropped \cup (IF stage[r] = "expire" THEN {k} ELSE {})
        /\ req' = [req EXCEPT ![r] = NoRequest]
    BY <1>6 DEF Leave, Advance
  <2>2. k \in Keys
    BY <1>a, <2>1 DEF KeysKnown
  <2>3. NoRequest \in [key : Keys \cup {<<>>}, current : 0..MaxCount] /\ NoRequest.key \notin Keys
    BY <1>b, KeyParts DEF NoRequest
  <2>4. LimiterTypeOK'
    BY <1>a, <2>1, <2>2, <2>3 DEF LimiterTypeOK
  <2>5. KeysKnown' /\ RefusedOverLimit' /\ CountsTaken'
    BY <1>a, <2>1, <2>3 DEF LimiterTypeOK, KeysKnown, RefusedOverLimit, CountsTaken, KeyOf, WindowOf
  <2>6. CountersExpire'
    BY <1>a, <2>1, <2>2 DEF LimiterTypeOK, CountersExpire, KeyOf
  <2>7. WindowBound' /\ CurrentCounts' /\ FutureUntouched'
    BY <1>a, <2>1 DEF WindowBound, CurrentCounts, FutureUntouched, WindowOf
  <2> QED BY <2>4, <2>5, <2>6, <2>7 DEF IInv
<1>7. CASE Tick
  <2>1. /\ now < MaxTime /\ now' = now + 1 /\ UNCHANGED <<stage, req, passed, taken, dropped>>
        /\ count' = [k \in Keys |-> IF Due(k, now + 1) THEN 0 ELSE count[k]]
        /\ expiry' = [k \in Keys |-> IF Due(k, now + 1) THEN Never ELSE expiry[k]]
    BY <1>7 DEF Tick
  <2>2. now' \in Nat /\ WindowOf(now') \in Nat /\ WindowOf(now) <= WindowOf(now')
    BY <1>0, <2>1, Division, Monotone
  <2>3. LimiterTypeOK'
    BY <1>a, <1>b, <1>0, <2>1, LimitsAssumption DEF LimiterTypeOK, Times, Never
  <2>4. ASSUME NEW j \in Keys, j[2] = WindowOf(now')
        PROVE  ~Due(j, now + 1)
    <3>1. CASE j[2] = WindowOf(now)
      <4> SUFFICES ASSUME expiry[j] # Never, expiry[j] <= now' PROVE FALSE
        BY <2>1 DEF Due
      <4>1. expiry[j] \in Nat /\ WindowOf(expiry[j]) > j[2]
        BY <3>1, <1>a DEF LimiterTypeOK, CurrentCounts
      <4>2. WindowOf(expiry[j]) <= WindowOf(now') /\ WindowOf(expiry[j]) \in Nat
        BY <4>1, <2>2, Division, Monotone
      <4> QED BY <4>1, <4>2, <2>2, <2>4
    <3>2. CASE j[2] > WindowOf(now)
      BY <3>2, <1>a DEF FutureUntouched, Due
    <3> QED BY <3>1, <3>2, <2>2, <2>4, <1>0
  <2>5. CurrentCounts'
    <3> SUFFICES ASSUME NEW j \in Keys, j[2] = WindowOf(now')
                 PROVE  passed[j] <= count'[j] /\ (expiry'[j] # Never => WindowOf(expiry'[j]) > j[2])
      BY <2>1 DEF CurrentCounts, WindowOf
    <3>1. count'[j] = count[j] /\ expiry'[j] = expiry[j]
      BY <2>1, <2>4
    <3>2. j[2] = WindowOf(now) \/ j[2] > WindowOf(now)
      BY <2>2, <1>0
    <3>3. count[j] \in Nat
      BY <1>a, <1>b DEF LimiterTypeOK
    <3> QED BY <3>1, <3>2, <3>3, <1>a DEF CurrentCounts, FutureUntouched
  <2>6. FutureUntouched'
    <3> SUFFICES ASSUME NEW j \in Keys, j[2] > WindowOf(now') PROVE passed[j] = 0 /\ expiry'[j] = Never
      BY <2>1 DEF FutureUntouched, WindowOf
    <3>1. j[2] > WindowOf(now)
      BY <2>2, <1>0, KeyParts
    <3> QED BY <3>1, <1>a, <2>1 DEF FutureUntouched
  <2>7. KeysKnown'
    <3> SUFFICES ASSUME NEW q \in Requests, stage[q] # "idle" PROVE KeyOf(q) \in Keys /\ KeyOf(q)[2] <= WindowOf(now')
      BY <2>1 DEF KeysKnown, KeyOf, WindowOf
    <3>1. KeyOf(q) \in Keys /\ KeyOf(q)[2] <= WindowOf(now)
      BY <1>a DEF KeysKnown
    <3> QED BY <3>1, <2>2, <1>0, KeyParts
  <2>8. CountsTaken'
    BY <1>a, <1>b, <2>1 DEF LimiterTypeOK, CountsTaken, KeyOf
  <2>9. CountersExpire'
    <3> SUFFICES ASSUME NEW j \in Keys, count'[j] > 0, expiry'[j] = Never
                 PROVE  j \in dropped \/ \E q \in Requests : stage[q] = "expire" /\ KeyOf(q) = j
      BY <2>1 DEF CountersExpire, KeyOf
    <3>1. count[j] > 0 /\ expiry[j] = Never
      BY <2>1
    <3> QED BY <3>1, <1>a DEF CountersExpire
  <2>10. WindowBound' /\ RefusedOverLimit'
    BY <1>a, <2>1 DEF WindowBound, RefusedOverLimit, KeyOf
  <2> QED BY <2>3, <2>5, <2>6, <2>7, <2>8, <2>9, <2>10 DEF IInv
<1>8. CASE UNCHANGED limiterVars
  BY <1>a, <1>8 DEF limiterVars, IInv, LimiterTypeOK, WindowBound, RefusedOverLimit, CountersExpire, CurrentCounts,
     FutureUntouched, KeysKnown, CountsTaken, KeyOf, WindowOf
<1> QED BY <1>1, <1>2, <1>3, <1>4, <1>5, <1>6, <1>7, <1>8 DEF LimiterNext

LEMMA Invariance == LimiterSpec => []IInv
BY InitInv, NextInv, PTL DEF LimiterSpec

(* The state of the limiter keeps its types.                               *)
THEOREM LimiterTyping == LimiterSpec => []LimiterTypeOK
<1>1. IInv => LimiterTypeOK
  BY DEF IInv
<1> QED BY <1>1, Invariance, PTL

(* Under every interleaving of INCR and EXPIRE, with lost commands and late *)
(* requests, no window lets more than the limit pass on its counter.       *)
THEOREM Bounded == LimiterSpec => []WindowBound
<1>1. IInv => WindowBound
  BY DEF IInv
<1> QED BY <1>1, Invariance, PTL

(* A 429 is answered only after the bucket has used up its limit.          *)
THEOREM NoEarlyRefusal == LimiterSpec => []RefusedOverLimit
<1>1. IInv => RefusedOverLimit
  BY DEF IInv
<1> QED BY <1>1, Invariance, PTL

(* Only a lost EXPIRE leaves a counter in Redis for ever.                  *)
THEOREM Expiring == LimiterSpec => []CountersExpire
<1>1. IInv => CountersExpire
  BY DEF IInv
<1> QED BY <1>1, Invariance, PTL
=============================================================================
