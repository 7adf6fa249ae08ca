------------------------- MODULE FriendGraphProofs -------------------------
(***************************************************************************)
(* Proofs about FriendGraph.tla, for any users and any number of           *)
(* concurrent handlers.                                                    *)
(***************************************************************************)
EXTENDS FriendGraph, TLAPS

(* Before its first write a handler's transaction is empty.                *)
Reading == {"idle", "send_friends", "send_forward", "send_backward", "send_insert",
            "accept_find", "accept_select", "accept_update",
            "reject_find", "reject_select", "reject_update",
            "unfriend_check", "unfriend_delete"}

(* The request p accepts is marked by p, or was found decided already.     *)
Marked(p) == wreq[p] = "accepted" \/ (wreq[p] = "none" /\ req[arg[p]] \in Decided)

(* What the transaction of handler p holds, by place.                      *)
TxOf(p) ==
    /\ pc[p] # "idle" => arg[p] \in Pairs
    /\ pc[p] \in Reading => wreq[p] = "none" /\ ins[p] = {} /\ del[p] = {}
    /\ pc[p] = "accept_insert1" => Marked(p) /\ ins[p] = {} /\ del[p] = {}
    /\ pc[p] = "accept_insert2" => Marked(p) /\ ins[p] = {arg[p]} /\ del[p] = {}
    /\ pc[p] = "commit" =>
         \/ wreq[p] \in {"pending", "rejected"} /\ ins[p] = {} /\ del[p] = {}
         \/ Marked(p) /\ ins[p] = {arg[p], Rev(arg[p])} /\ del[p] = {}
         \/ wreq[p] = "none" /\ ins[p] = {} /\ (\A pr \in del[p] : Rev(pr) \in del[p])

TxShape == \A p \in Procs : TxOf(p)

(* Row locks: at most one transaction has written a request row.           *)
LocksExclusive == \A p, q \in Procs :
    p # q /\ wreq[p] # "none" /\ wreq[q] # "none" => arg[p] # arg[q]

(* A new request is only ever written over a row that does not exist.      *)
PendingIsFresh == \A p \in Procs : wreq[p] = "pending" => req[arg[p]] = "none"

IndInv == TypeOK /\ TxShape /\ LocksExclusive /\ PendingIsFresh /\ Symmetric /\ FriendsWereAsked

(* Reversing a pair of users twice gives the pair back. *)
LEMMA RevPairs == \A pr \in Pairs : Rev(pr) \in Pairs /\ Rev(Rev(pr)) = pr
BY DEF Pairs, Rev

(* The tables start empty and every handler idle.                          *)
LEMMA InitIndInv == Init => IndInv
BY DEF Init, IndInv, TypeOK, TxShape, TxOf, Marked, Reading, LocksExclusive, PendingIsFresh, Symmetric,
   FriendsWereAsked, Places, Status

(* A rollback leaves the tables alone and frees the handler's locks. *)
LEMMA RollBackIndInv == ASSUME IndInv, NEW p \in Procs, RollBack(p) PROVE IndInv'
<1> USE DEF IndInv, RollBack, Finish, db
<1>1. TypeOK'
  BY DEF TypeOK, Places, Status
<1>2. TxShape'
  BY DEF TypeOK, TxShape, TxOf, Marked, Reading
<1>3. LocksExclusive' /\ PendingIsFresh'
  BY DEF TypeOK, LocksExclusive, PendingIsFresh
<1>4. Symmetric' /\ FriendsWereAsked'
  BY DEF Symmetric, FriendsWereAsked
<1> QED BY <1>1, <1>2, <1>3, <1>4

(* A handler that has written nothing moves to its next read or first write. *)
LEMMA ReadingIndInv ==
    ASSUME IndInv, NEW p \in Procs, NEW from \in Reading, NEW l \in Reading \ {"idle"},
           pc[p] = from, pc' = [pc EXCEPT ![p] = l], UNCHANGED <<db, tx>>,
           \/ arg' = arg /\ from # "idle"
           \/ \E pr \in Pairs : arg' = [arg EXCEPT ![p] = pr]
    PROVE  IndInv'
<1> USE DEF IndInv, db, tx
<1>1. TypeOK'
  BY DEF TypeOK, Places, Reading
<1>2. TxShape'
  BY DEF TypeOK, TxShape, TxOf, Marked, Reading
<1>3. LocksExclusive' /\ PendingIsFresh'
  BY DEF TypeOK, LocksExclusive, PendingIsFresh, TxShape, TxOf
<1>4. Symmetric' /\ FriendsWereAsked'
  BY DEF Symmetric, FriendsWereAsked
<1> QED BY <1>1, <1>2, <1>3, <1>4

(* A read goes on to a place that has written nothing, or rolls back.      *)
LEMMA CheckIndInv ==
    ASSUME IndInv, NEW p \in Procs, NEW from \in Reading \ {"idle"}, NEW ok \in BOOLEAN,
           NEW l \in Reading \ {"idle"}, Check(p, from, ok, l)
    PROVE  IndInv'
<1>1. CASE RollBack(p)
  BY <1>1, RollBackIndInv
<1>2. CASE Goto(p, l) /\ UNCHANGED <<db, tx>>
  BY <1>2, ReadingIndInv DEF Check, Goto
<1> QED BY <1>1, <1>2 DEF Check

(* A handler picks its pair of users before it has written anything.       *)
LEMMA StartIndInv == ASSUME IndInv, NEW p \in Procs, Start(p) PROVE IndInv'
<1>1. PICK pr \in Pairs :
        \E l \in {"send_friends", "accept_find", "reject_find", "unfriend_check"} :
            pc' = [pc EXCEPT ![p] = l] /\ arg' = [arg EXCEPT ![p] = pr]
  BY DEF Start
<1>2. PICK l \in {"send_friends", "accept_find", "reject_find", "unfriend_check"} :
            pc' = [pc EXCEPT ![p] = l] /\ arg' = [arg EXCEPT ![p] = pr]
  BY <1>1
<1>3. pc[p] = "idle" /\ UNCHANGED <<db, tx>>
  BY DEF Start
<1>4. "idle" \in Reading /\ l \in Reading \ {"idle"}
  BY DEF Reading
<1> QED BY <1>2, <1>3, <1>4, ReadingIndInv

(* A status written to an unlocked row keeps the locks exclusive.          *)
LEMMA WriteRequestIndInv ==
    ASSUME IndInv, NEW p \in Procs, NEW st \in {"pending", "accepted", "rejected"},
           pc[p] \in {"send_insert", "accept_update", "reject_update"},
           ~RequestLocked(p, arg[p]),
           st = "pending" => req[arg[p]] = "none",
           wreq' = [wreq EXCEPT ![p] = st], UNCHANGED <<db, ins, del>>,
           Goto(p, IF st = "accepted" THEN "accept_insert1" ELSE "commit")
    PROVE  IndInv'
<1> USE DEF IndInv, db, Goto
<1>1. TypeOK'
  BY DEF TypeOK, Places, Status
<1>2. TxShape'
  BY DEF TypeOK, TxShape, TxOf, Marked, Reading
<1>3. LocksExclusive'
  BY DEF TypeOK, LocksExclusive, RequestLocked
<1>4. PendingIsFresh'
  BY DEF TypeOK, PendingIsFresh
<1>5. Symmetric' /\ FriendsWereAsked'
  BY DEF Symmetric, FriendsWereAsked
<1> QED BY <1>1, <1>2, <1>3, <1>4, <1>5

(* A new request is inserted, or the unique key refuses it.                *)
LEMMA SendInsertIndInv == ASSUME IndInv, NEW p \in Procs, SendInsert(p) PROVE IndInv'
<1>1. CASE RollBack(p)
  BY <1>1, RollBackIndInv
<1>2. CASE req[arg[p]] = "none" /\ wreq' = [wreq EXCEPT ![p] = "pending"]
           /\ Goto(p, "commit") /\ UNCHANGED <<db, ins, del>>
  BY <1>2, WriteRequestIndInv DEF SendInsert, Goto
<1> QED BY <1>1, <1>2 DEF SendInsert

(* Either UPDATE of a request row.                                         *)
LEMMA UpdateIndInv ==
    ASSUME IndInv, NEW p \in Procs, AcceptUpdate(p) \/ RejectUpdate(p) PROVE IndInv'
<1>1. CASE AcceptUpdate(p)
  BY <1>1, WriteRequestIndInv DEF AcceptUpdate, UpdateRequest, Goto
<1>2. CASE RejectUpdate(p)
  BY <1>2, WriteRequestIndInv DEF RejectUpdate, UpdateRequest, Goto
<1> QED BY <1>1, <1>2

(* An update that finds the status it wants already there writes nothing.  *)
LEMMA SelectIndInv ==
    ASSUME IndInv, NEW p \in Procs, AcceptSelect(p) \/ RejectSelect(p) PROVE IndInv'
<1> USE DEF IndInv, db, tx, Goto, AcceptSelect, RejectSelect, SelectRequest
<1>1. TypeOK'
  BY DEF TypeOK, Places
<1>2. TxShape'
  BY DEF TypeOK, TxShape, TxOf, Marked, Reading, Decided
<1>3. LocksExclusive' /\ PendingIsFresh'
  BY DEF TypeOK, LocksExclusive, PendingIsFresh
<1>4. Symmetric' /\ FriendsWereAsked'
  BY DEF Symmetric, FriendsWereAsked
<1> QED BY <1>1, <1>2, <1>3, <1>4

(* Either INSERT of an accept.  *)
LEMMA InsertIndInv ==
    ASSUME IndInv, NEW p \in Procs, AcceptInsert1(p) \/ AcceptInsert2(p) PROVE IndInv'
<1>1. CASE RollBack(p)
  BY <1>1, RollBackIndInv
<1>2. CASE ~RollBack(p)
  <2> USE DEF IndInv, db, Goto, AcceptInsert1, AcceptInsert2, SaveFriendship
  <2>0. arg[p] \in Pairs /\ Rev(arg[p]) \in Pairs
    BY RevPairs DEF TxShape, TxOf
  <2>1. TypeOK'
    BY <1>2, <2>0 DEF TypeOK, Places
  <2>2. TxShape'
    BY <1>2 DEF TypeOK, TxShape, TxOf, Marked, Reading
  <2>3. LocksExclusive' /\ PendingIsFresh'
    BY <1>2 DEF TypeOK, LocksExclusive, PendingIsFresh
  <2>4. Symmetric' /\ FriendsWereAsked'
    BY <1>2 DEF Symmetric, FriendsWereAsked
  <2> QED BY <2>1, <2>2, <2>3, <2>4
<1> QED BY <1>1, <1>2

(* An unfriend deletes both directions, as Symmetric lets it find them.    *)
LEMMA DeleteIndInv == ASSUME IndInv, NEW p \in Procs, UnfriendDelete(p) PROVE IndInv'
<1> USE DEF IndInv, db, Goto, UnfriendDelete
<1>0. arg[p] \in Pairs /\ Rev(arg[p]) \in Pairs /\ Rev(Rev(arg[p])) = arg[p]
  BY RevPairs DEF TxShape, TxOf
<1>1. TypeOK'
  BY <1>0 DEF TypeOK, Places
<1>2. TxShape'
  BY <1>0 DEF TypeOK, TxShape, TxOf, Marked, Reading, Symmetric
<1>3. LocksExclusive' /\ PendingIsFresh'
  BY DEF TypeOK, LocksExclusive, PendingIsFresh
<1>4. Symmetric' /\ FriendsWereAsked'
  BY DEF Symmetric, FriendsWereAsked
<1> QED BY <1>1, <1>2, <1>3, <1>4

(* A commit never takes a decided request back. *)
LEMMA CommitKeepsDecided ==
    ASSUME IndInv, NEW p \in Procs, Commit(p), NEW pr \in Pairs, req[pr] \in Decided
    PROVE  req'[pr] \in Decided
BY DEF IndInv, TypeOK, TxShape, TxOf, Marked, PendingIsFresh, Commit, Decided

(* Commit: the one step that changes the tables.                           *)
LEMMA CommitIndInv == ASSUME IndInv, NEW p \in Procs, Commit(p) PROVE IndInv'
<1> USE DEF IndInv, Commit, Finish
<1>0. arg[p] \in Pairs /\ Rev(arg[p]) \in Pairs /\ Rev(Rev(arg[p])) = arg[p]
  BY RevPairs DEF TxShape, TxOf
<1>1. TypeOK'
  BY DEF TypeOK, Places, Status
<1>2. TxShape'
  <2> SUFFICES ASSUME NEW q \in Procs PROVE TxOf(q)'
    BY DEF TxShape
  <2>1. CASE q = p
    BY <2>1 DEF TypeOK, TxOf, Reading
  <2>2. CASE q # p
    <3>1. pc[q] # "idle" /\ req[arg[q]] \in Decided => req'[arg[q]] \in Decided
      BY CommitKeepsDecided DEF TxShape, TxOf
    <3>2. TxOf(q)
      BY DEF TxShape
    <3> QED BY <2>2, <3>1, <3>2 DEF TypeOK, TxOf, Marked, Reading
  <2> QED BY <2>1, <2>2
<1>3. LocksExclusive'
  BY DEF TypeOK, LocksExclusive
<1>4. PendingIsFresh'
  BY DEF TypeOK, PendingIsFresh, LocksExclusive, TxShape, TxOf, Reading
<1>5. Symmetric'
  BY <1>0, RevPairs DEF TypeOK, Symmetric, TxShape, TxOf
<1>6. FriendsWereAsked'
  <2> SUFFICES ASSUME NEW pr \in fr' PROVE req'[pr] \in Decided \/ req'[Rev(pr)] \in Decided
    BY DEF FriendsWereAsked
  <2>1. CASE pr \in fr
    BY <2>1, CommitKeepsDecided, RevPairs DEF FriendsWereAsked, TypeOK
  <2>2. CASE pr \in ins[p]
    <3>1. Marked(p) /\ pr \in {arg[p], Rev(arg[p])}
      BY <2>2 DEF TxShape, TxOf
    <3>2. req'[arg[p]] \in Decided
      BY <1>0, <3>1 DEF Marked, Decided
    <3> QED BY <1>0, <3>1, <3>2
  <2> QED BY <2>1, <2>2
<1> QED BY <1>1, <1>2, <1>3, <1>4, <1>5, <1>6

(* Every statement of a use case keeps the invariant.                      *)
LEMMA StepIndInv == ASSUME IndInv, NEW p \in Procs, Step(p) PROVE IndInv'
<1> USE DEF Reading
<1>1. CASE SendCheckFriends(p)
  BY <1>1, CheckIndInv DEF SendCheckFriends
<1>2. CASE SendFindForward(p)
  BY <1>2, CheckIndInv DEF SendFindForward
<1>3. CASE SendFindBackward(p)
  BY <1>3, CheckIndInv DEF SendFindBackward
<1>4. CASE AcceptFind(p)
  BY <1>4, CheckIndInv DEF AcceptFind
<1>5. CASE RejectFind(p)
  BY <1>5, CheckIndInv DEF RejectFind
<1>6. CASE UnfriendCheck(p)
  <2>1. CASE RollBack(p)
    BY <2>1, RollBackIndInv
  <2>2. CASE Goto(p, "unfriend_delete") /\ UNCHANGED <<db, tx>>
    BY <1>6, <2>2, ReadingIndInv DEF UnfriendCheck, Check, Goto
  <2> QED BY <1>6, <2>1, <2>2 DEF UnfriendCheck, Check
<1>7. CASE StatementTimeout(p)
  BY <1>7, RollBackIndInv DEF StatementTimeout
<1> QED BY <1>1, <1>2, <1>3, <1>4, <1>5, <1>6, <1>7, SendInsertIndInv, UpdateIndInv,
           SelectIndInv, InsertIndInv, DeleteIndInv, CommitIndInv DEF Step

(* The invariant is inductive.                                             *)
LEMMA NextIndInv == IndInv /\ [Next]_vars => IndInv'
<1> SUFFICES ASSUME IndInv, [Next]_vars PROVE IndInv'
  OBVIOUS
<1>1. ASSUME NEW p \in Procs, Abort(p) PROVE IndInv'
  BY <1>1, RollBackIndInv DEF Abort
<1>2. CASE UNCHANGED vars
  BY <1>2 DEF vars, IndInv, TypeOK, TxShape, TxOf, Marked, LocksExclusive, PendingIsFresh, Symmetric,
     FriendsWereAsked
<1> QED BY <1>1, <1>2, StartIndInv, StepIndInv DEF Next

(* The invariant holds in every reachable state.                           *)
LEMMA AlwaysIndInv == Spec => []IndInv
BY InitIndInv, NextIndInv, PTL DEF Spec

(* Type correctness of the tables and of every handler's transaction. *)
THEOREM TypeCorrect == Spec => []TypeOK
<1>1. IndInv => TypeOK
  BY DEF IndInv
<1> QED BY <1>1, AlwaysIndInv, PTL

(* The friendships table is symmetric after any interleaving of accepts,   *)
(* rejects, unfriends and aborts of any number of handlers.                *)
THEOREM FriendshipSymmetric == Spec => []Symmetric
<1>1. IndInv => Symmetric
  BY DEF IndInv
<1> QED BY <1>1, AlwaysIndInv, PTL

(* Behind every friendship there is a decided request, even when an accept *)
(* races with a reject or with a new request.                              *)
THEOREM FriendsAsked == Spec => []FriendsWereAsked
<1>1. IndInv => FriendsWereAsked
  BY DEF IndInv
<1> QED BY <1>1, AlwaysIndInv, PTL

(* Only Commit changes the tables. *)
LEMMA OnlyCommitWrites ==
    ASSUME [Next]_vars, \A p \in Procs : ~Commit(p) PROVE req' = req /\ fr' = fr
<1> USE DEF db, RollBack
<1>1. ASSUME NEW p \in Procs, Step(p) PROVE req' = req /\ fr' = fr
  BY <1>1 DEF Step, Check, SendCheckFriends, SendFindForward, SendFindBackward, SendInsert,
     AcceptFind, AcceptSelect, SelectRequest, AcceptUpdate, UpdateRequest, AcceptInsert1, AcceptInsert2, SaveFriendship,
     RejectFind, RejectSelect, RejectUpdate, UnfriendCheck, UnfriendDelete, StatementTimeout
<1>2. ASSUME NEW p \in Procs, Start(p) \/ Abort(p) PROVE req' = req /\ fr' = fr
  BY <1>2 DEF Start, Abort
<1>3. CASE UNCHANGED vars
  BY <1>3 DEF vars
<1> QED BY <1>1, <1>2, <1>3 DEF Next

(* Accepting a request and creating the two friendship rows is one visible *)
(* change: no schedule shows the accept without the friendship.            *)
THEOREM AcceptAtomicity == Spec => AcceptIsAtomic
<1> DEFINE A == \A pr \in Pairs :
        req[pr] # "accepted" /\ req'[pr] = "accepted" => {pr, Rev(pr)} \subseteq fr'
<1>1. ASSUME IndInv, [Next]_vars PROVE A
  <2> SUFFICES ASSUME NEW pr \in Pairs, req[pr] # "accepted", req'[pr] = "accepted"
               PROVE  {pr, Rev(pr)} \subseteq fr'
    OBVIOUS
  <2>1. PICK p \in Procs : Commit(p)
    BY <1>1, OnlyCommitWrites
  <2>2. wreq[p] = "accepted" /\ pr = arg[p]
    BY <2>1 DEF Commit
  <2>3. ins[p] = {arg[p], Rev(arg[p])}
    BY <1>1, <2>1, <2>2 DEF IndInv, TxShape, TxOf, Commit
  <2> QED BY <2>1, <2>2, <2>3 DEF Commit
<1>2. IndInv /\ [Next]_vars => [A]_vars
  BY <1>1
<1> QED BY <1>2, AlwaysIndInv, PTL DEF Spec, AcceptIsAtomic

(* A decided request stays decided: accept and reject may still overwrite  *)
(* each other, but nobody can bring the request back to pending.           *)
THEOREM DecisionsStand == Spec => DecidedNeverReopens
<1> DEFINE A == \A pr \in Pairs : req[pr] \in Decided => req'[pr] \in Decided
<1>1. IndInv /\ [Next]_vars => [A]_vars
  <2> SUFFICES ASSUME IndInv, [Next]_vars, NEW pr \in Pairs, req[pr] \in Decided
               PROVE  req'[pr] \in Decided
    OBVIOUS
  <2>1. CASE \A p \in Procs : ~Commit(p)
    BY <2>1, OnlyCommitWrites
  <2> QED BY <2>1, CommitKeepsDecided
<1> QED BY <1>1, AlwaysIndInv, PTL DEF Spec, DecidedNeverReopens

=============================================================================
