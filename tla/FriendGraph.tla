---------------------------- MODULE FriendGraph ----------------------------
(***************************************************************************)
(* Friend requests and friendships: the use cases of application/friend    *)
(* over the two tables of models/friend.py, run by concurrent handlers,    *)
(* each in one PostgreSQL transaction at READ COMMITTED.                   *)
(*                                                                         *)
(* The repository is taken to work in the session that the use case's unit *)
(* of work commits, as in the use cases' own tests.  (UnitOfWork.tla shows *)
(* what the handlers' wiring does to that assumption.)                     *)
(*                                                                         *)
(* A friend_requests row is named by its (sender, receiver) pair: the pair *)
(* is unique and rows are never deleted, so it stands for the row's id.    *)
(* A statement that needs a row or a unique key written by an uncommitted  *)
(* transaction waits for it; session.py gives each statement a timeout.    *)
(***************************************************************************)
EXTENDS Naturals, FiniteSets

CONSTANTS
    Users,
    Procs       \* handlers that run concurrently

VARIABLES
    req,        \* req[pr]: status of the request row, "none" if there is none
    fr,         \* rows of friendships: ordered pairs
    pc,         \* pc[p]: next statement of handler p
    arg,        \* arg[p]: the row (or the pair of users) p works on
    wreq,       \* wreq[p]: status written to row arg[p] and not committed, or "none"
    ins,        \* ins[p]: uncommitted friendship inserts
    del         \* del[p]: uncommitted friendship deletes

vars == <<req, fr, pc, arg, wreq, ins, del>>

Pairs == {pr \in Users \X Users : pr[1] # pr[2]}
Rev(pr) == <<pr[2], pr[1]>>
NoArg == <<>>   \* of an idle handler

(* FriendRequestStatus, and "none" for a row that does not exist.          *)
Status == {"none", "pending", "accepted", "rejected", "blocked"}

Places == {"idle", "send_friends", "send_forward", "send_backward", "send_insert",
           "accept_find", "accept_select", "accept_update", "accept_insert1", "accept_insert2",
           "reject_find", "reject_select", "reject_update", "unfriend_check", "unfriend_delete", "commit"}

TypeOK ==
    /\ req \in [Pairs -> Status]
    /\ fr \in SUBSET Pairs
    /\ pc \in [Procs -> Places]
    /\ arg \in [Procs -> Pairs \cup {NoArg}]
    /\ wreq \in [Procs -> Status]
    /\ ins \in [Procs -> SUBSET Pairs]
    /\ del \in [Procs -> SUBSET Pairs]

Init ==
    /\ req = [pr \in Pairs |-> "none"]
    /\ fr = {}
    /\ pc = [p \in Procs |-> "idle"]
    /\ arg = [p \in Procs |-> NoArg]
    /\ wreq = [p \in Procs |-> "none"]
    /\ ins = [p \in Procs |-> {}]
    /\ del = [p \in Procs |-> {}]

db == <<req, fr>>
tx == <<wreq, ins, del>>

Goto(p, l) == pc' = [pc EXCEPT ![p] = l] /\ UNCHANGED arg
Finish(p) == pc' = [pc EXCEPT ![p] = "idle"] /\ arg' = [arg EXCEPT ![p] = NoArg]

(* The transaction ends without a commit: what it wrote is undone.         *)
RollBack(p) ==
    /\ wreq' = [wreq EXCEPT ![p] = "none"]
    /\ ins' = [ins EXCEPT ![p] = {}]
    /\ del' = [del EXCEPT ![p] = {}]
    /\ Finish(p)
    /\ UNCHANGED db

(* Rows and unique keys that an uncommitted transaction of another handler *)
(* has written.                                                            *)
RequestLocked(p, pr) == \E q \in Procs \ {p} : wreq[q] # "none" /\ arg[q] = pr
FriendshipLocked(p, pr) == \E q \in Procs \ {p} : pr \in ins[q] \cup del[q]
FriendshipDeleting(p, pr) == \E q \in Procs \ {p} : {pr, Rev(pr)} \cap del[q] # {}

-----------------------------------------------------------------------------
(* A handler starts an operation.  A request to oneself is refused before  *)
(* anything is read, and accept and reject by anyone but the receiver end  *)
(* as "not found", so only the other calls are distinguished.              *)
Start(p) ==
    /\ pc[p] = "idle"
    /\ \E pr \in Pairs :
         \E l \in {"send_friends", "accept_find", "reject_find", "unfriend_check"} :
            /\ pc' = [pc EXCEPT ![p] = l]
            /\ arg' = [arg EXCEPT ![p] = pr]
    /\ UNCHANGED <<db, tx>>

(* A read: go on to l, or raise a domain error and roll back.              *)
Check(p, from, ok, l) ==
    /\ pc[p] = from
    /\ \/ ok /\ Goto(p, l) /\ UNCHANGED <<db, tx>>
       \/ ~ok /\ RollBack(p)

(* SendRequestUseCase.execute: are_friends, find_request in the direction  *)
(* of the request and, only if there is no such row, in the other one.     *)
SendCheckFriends(p) == Check(p, "send_friends", arg[p] \notin fr, "send_forward")

SendFindForward(p) ==
    Check(p, "send_forward", req[arg[p]] \notin {"blocked", "pending"},
          IF req[arg[p]] = "none" THEN "send_backward" ELSE "send_insert")

SendFindBackward(p) ==
    Check(p, "send_backward", req[Rev(arg[p])] \notin {"blocked", "pending"}, "send_insert")

(* Mutant of SendInsert: without the unique constraint.                    *)
SendInsertAgain(p) ==
    /\ pc[p] = "send_insert"
    /\ ~RequestLocked(p, arg[p])
    /\ wreq' = [wreq EXCEPT ![p] = "pending"]
    /\ Goto(p, "commit")
    /\ UNCHANGED <<db, ins, del>>

(* save_request: the INSERT fails on uq_friend_request_sender_receiver.    *)
SendInsert(p) ==
    /\ pc[p] = "send_insert"
    /\ ~RequestLocked(p, arg[p])
    /\ \/ /\ req[arg[p]] = "none"
          /\ wreq' = [wreq EXCEPT ![p] = "pending"]
          /\ Goto(p, "commit")
          /\ UNCHANGED <<db, ins, del>>
       \/ req[arg[p]] # "none" /\ RollBack(p)

(* AcceptRequestUseCase.execute *)
AcceptFind(p) == Check(p, "accept_find", req[arg[p]] = "pending", "accept_select")

(* update_request first selects the row again (nothing keeps the instance  *)
(* of the first read alive); an equal status means there is nothing to     *)
(* flush, and no row is locked.                                            *)
SelectRequest(p, from, status, same, differs) ==
    /\ pc[p] = from
    /\ Goto(p, IF req[arg[p]] = status THEN same ELSE differs)
    /\ UNCHANGED <<db, tx>>

AcceptSelect(p) ==
    SelectRequest(p, "accept_select", "accepted", "accept_insert1", "accept_update")

(* Its flush: UPDATE ... WHERE id, on whatever the row holds by then.      *)
UpdateRequest(p, from, status, l) ==
    /\ pc[p] = from
    /\ ~RequestLocked(p, arg[p])
    /\ wreq' = [wreq EXCEPT ![p] = status]
    /\ Goto(p, l)
    /\ UNCHANGED <<db, ins, del>>

(* Mutants of AcceptUpdate: the request is not marked; or it is marked in  *)
(* a transaction of its own.                                               *)
AcceptUpdateSkipped(p) ==
    pc[p] = "accept_update" /\ Goto(p, "accept_insert1") /\ UNCHANGED <<db, tx>>
AcceptUpdateApart(p) ==
    /\ pc[p] = "accept_update"
    /\ ~RequestLocked(p, arg[p])
    /\ req' = [req EXCEPT ![arg[p]] = "accepted"]
    /\ Goto(p, "accept_insert1")
    /\ UNCHANGED <<fr, tx>>

AcceptUpdate(p) == UpdateRequest(p, "accept_update", "accepted", "accept_insert1")

(* save_friendship: the INSERT fails on uq_friendship_user_friend.         *)
SaveFriendship(p, from, pr, l) ==
    /\ pc[p] = from
    /\ ~FriendshipLocked(p, pr)
    /\ \/ /\ pr \notin fr
          /\ ins' = [ins EXCEPT ![p] = @ \cup {pr}]
          /\ Goto(p, l)
          /\ UNCHANGED <<db, wreq, del>>
       \/ pr \in fr /\ RollBack(p)

AcceptInsert1(p) == SaveFriendship(p, "accept_insert1", arg[p], "accept_insert2")
AcceptInsert2(p) == SaveFriendship(p, "accept_insert2", Rev(arg[p]), "commit")

(* RejectRequestUseCase.execute *)
RejectFind(p) == Check(p, "reject_find", req[arg[p]] = "pending", "reject_select")
RejectSelect(p) == SelectRequest(p, "reject_select", "rejected", "commit", "reject_update")
RejectUpdate(p) == UpdateRequest(p, "reject_update", "rejected", "commit")

(* UnfriendUseCase.execute *)
UnfriendCheck(p) == Check(p, "unfriend_check", arg[p] \in fr, "unfriend_delete")

(* Mutant of UnfriendDelete: one direction only.                           *)
UnfriendDeleteOneWay(p) ==
    /\ pc[p] = "unfriend_delete"
    /\ ~FriendshipDeleting(p, arg[p])
    /\ del' = [del EXCEPT ![p] = {arg[p]} \cap fr]
    /\ Goto(p, "commit")
    /\ UNCHANGED <<db, wreq, ins>>

(* delete_friendship: one DELETE for both directions, on the rows it sees. *)
UnfriendDelete(p) ==
    /\ pc[p] = "unfriend_delete"
    /\ ~FriendshipDeleting(p, arg[p])
    /\ del' = [del EXCEPT ![p] = {arg[p], Rev(arg[p])} \cap fr]
    /\ Goto(p, "commit")
    /\ UNCHANGED <<db, wreq, ins>>

(* uow.commit(): everything the transaction wrote becomes visible at once. *)
Commit(p) ==
    /\ pc[p] = "commit"
    /\ req' = [pr \in Pairs |-> IF pr = arg[p] /\ wreq[p] # "none" THEN wreq[p] ELSE req[pr]]
    /\ fr' = (fr \ del[p]) \cup ins[p]
    /\ wreq' = [wreq EXCEPT ![p] = "none"]
    /\ ins' = [ins EXCEPT ![p] = {}]
    /\ del' = [del EXCEPT ![p] = {}]
    /\ Finish(p)

(* The statement p is about to run waits for another transaction.          *)
Waiting(p) ==
    \/ pc[p] \in {"send_insert", "accept_update", "reject_update"} /\ RequestLocked(p, arg[p])
    \/ pc[p] = "accept_insert1" /\ FriendshipLocked(p, arg[p])
    \/ pc[p] = "accept_insert2" /\ FriendshipLocked(p, Rev(arg[p]))
    \/ pc[p] = "unfriend_delete" /\ FriendshipDeleting(p, arg[p])

(* Mutant of StatementTimeout: no command_timeout, no deadlock detection.  *)
StatementTimeoutNever(p) == FALSE

(* PostgreSQL's deadlock detector, or command_timeout, ends the wait.      *)
StatementTimeout(p) == Waiting(p) /\ RollBack(p)

(* A lost connection, a failed statement or a cancelled task, anywhere.    *)
Abort(p) == pc[p] # "idle" /\ RollBack(p)

Step(p) ==
    \/ SendCheckFriends(p) \/ SendFindForward(p) \/ SendFindBackward(p) \/ SendInsert(p)
    \/ AcceptFind(p) \/ AcceptSelect(p) \/ AcceptUpdate(p) \/ AcceptInsert1(p) \/ AcceptInsert2(p)
    \/ RejectFind(p) \/ RejectSelect(p) \/ RejectUpdate(p)
    \/ UnfriendCheck(p) \/ UnfriendDelete(p)
    \/ Commit(p) \/ StatementTimeout(p)

Next == \E p \in Procs : Start(p) \/ Step(p) \/ Abort(p)

Spec == Init /\ [][Next]_vars

(* A ready handler is resumed, and a wait ends in the lock or in an error. *)
FairSpec == Spec /\ \A p \in Procs : WF_vars(Step(p))

-----------------------------------------------------------------------------
(* Properties. *)
Decided == {"accepted", "rejected"}

(* Both rows of a friendship exist or neither does, as get_friends and     *)
(* mutual_friends assume when they read one direction only.                *)
Symmetric == \A pr \in fr : Rev(pr) \in fr

(* Nobody becomes a friend without having been asked: behind every         *)
(* friendship there is a request, in one direction, that was decided.      *)
FriendsWereAsked == \A pr \in fr : req[pr] \in Decided \/ req[Rev(pr)] \in Decided

(* A request becomes accepted only in a commit after which both friendship *)
(* rows exist: no failure and no race shows an accept without a friendship. *)
AcceptIsAtomic == [][\A pr \in Pairs :
    req[pr] # "accepted" /\ req'[pr] = "accepted" => {pr, Rev(pr)} \subseteq fr']_vars

(* A decided request is never pending again and never disappears: the      *)
(* unique key forbids asking a second time in the same direction.          *)
DecidedNeverReopens == [][\A pr \in Pairs :
    req[pr] \in Decided => req'[pr] \in Decided]_vars

(* Every operation ends, although handlers wait for each other's rows and  *)
(* two accepts of crossed requests insert the same keys in opposite order. *)
OperationsEnd == \A p \in Procs : pc[p] # "idle" ~> pc[p] = "idle"
=============================================================================
