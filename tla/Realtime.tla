----------------------------- MODULE Realtime -----------------------------
(***************************************************************************)
(* The realtime core of one server process: the handler task of every      *)
(* WebSocket (presentation/ws/handler.py), the registry of connections     *)
(* (ConnectionManager), and the task that forwards what arrives on the     *)
(* Redis channels user:* to the registered sockets (RedisPubSub).          *)
(*                                                                         *)
(* All of it runs in one event loop: tasks interleave at every await.  The *)
(* listener iterates over the live set of a user's connections and awaits  *)
(* each send inside the loop; Python makes the iteration raise when the    *)
(* size of the set has changed meanwhile.                                  *)
(*                                                                         *)
(* A socket stands for one connection, from its handshake to its end.      *)
(* Redis delivers in publication order; of a message only the user it is   *)
(* for decides what happens to it.                                         *)
(***************************************************************************)
EXTENDS Naturals, Sequences, FiniteSets

CONSTANTS
    Users, Sockets,
    Owner,          \* Owner[s]: the user whose token opened socket s
    Followers,      \* Followers[u]: who is told when u comes and goes
    MaxForwards     \* bound: typing and seen events in a behaviour

ASSUME OwnerAssumption == Owner \in [Sockets -> Users]
ASSUME FollowersAssumption == Followers \in [Users -> SUBSET Users]
ASSUME MaxForwardsAssumption == MaxForwards \in Nat

VARIABLES
    reg,            \* ConnectionManager._connections; {} for a missing key
    hpc,            \* hpc[s]: where the handler task of s is
    alive,          \* alive[s]: a send on s succeeds
    bc,             \* bc[s]: followers its handler has yet to tell
    queue,          \* receivers of the messages the listener has yet to read
    forwards,       \* typing and seen events so far
    lst,            \* the listener task
    cur,            \* the user it is delivering to, if any
    orig,           \* the sockets registered when the delivery started
    visited,        \* the sockets the loop has sent to
    dead,           \* those whose send failed
    raised,         \* history: those whose send raised although they work
    emptied         \* the set the loop iterates over was emptied meanwhile

handlers == <<hpc, bc, forwards>>
delivery == <<lst, cur, orig, visited, dead, raised>>
vars == <<reg, alive, queue, emptied, handlers, delivery>>

TypeOK ==
    /\ reg \in [Users -> SUBSET Sockets]
    /\ hpc \in [Sockets -> {"new", "online", "open", "leaving", "unregister", "closed"}]
    /\ alive \in [Sockets -> BOOLEAN]
    /\ bc \in [Sockets -> SUBSET Users]
    /\ queue \in Seq(Users)
    /\ forwards \in 0..MaxForwards
    /\ lst \in {"idle", "sending", "crashed", "stopped"}
    /\ cur \in {{}} \cup {{u} : u \in Users}
    /\ orig \subseteq Sockets /\ visited \subseteq Sockets /\ dead \subseteq Sockets
    /\ raised \subseteq Sockets
    /\ emptied \in BOOLEAN

Init ==
    /\ reg = [u \in Users |-> {}]
    /\ hpc = [s \in Sockets |-> "new"]
    /\ alive = [s \in Sockets |-> FALSE]
    /\ bc = [s \in Sockets |-> {}]
    /\ queue = <<>>
    /\ forwards = 0
    /\ lst = "idle"
    /\ cur = {}
    /\ orig = {} /\ visited = {} /\ dead = {} /\ raised = {}
    /\ emptied = FALSE

(* RedisPubSub.publish; nobody reads the channels once the listener has    *)
(* crashed or was stopped, so the message is lost then.                    *)
Publish(u) == queue' = IF lst \in {"idle", "sending"} THEN Append(queue, u) ELSE queue

(* ConnectionManager.disconnect: discard, and del the key when empty.      *)
Discard(u, s) ==
    /\ reg' = [reg EXCEPT ![u] = @ \ {s}]
    /\ emptied' = (emptied \/ (u \in cur /\ reg[u] = {s}))

-----------------------------------------------------------------------------
(* The handler task of socket s. *)

(* websocket_endpoint up to manager.connect: a good token is registered.   *)
Connect(s) ==
    /\ hpc[s] = "new"
    /\ lst # "stopped"
    /\ reg' = [reg EXCEPT ![Owner[s]] = @ \cup {s}]
    /\ hpc' = [hpc EXCEPT ![s] = "online"]
    /\ alive' = [alive EXCEPT ![s] = TRUE]
    /\ bc' = [bc EXCEPT ![s] = Followers[Owner[s]]]
    /\ UNCHANGED <<queue, emptied, forwards, delivery>>

(* A missing, revoked or invalid token: close(4001) and return.            *)
Refuse(s) ==
    /\ hpc[s] = "new"
    /\ hpc' = [hpc EXCEPT ![s] = "closed"]
    /\ UNCHANGED <<reg, alive, queue, emptied, bc, forwards, delivery>>

(* _broadcast_presence: one publish per follower, online or offline.       *)
TellFollower(s) ==
    /\ hpc[s] \in {"online", "leaving"}
    /\ \E f \in bc[s] :
         /\ Publish(f)
         /\ bc' = [bc EXCEPT ![s] = @ \ {f}]
    /\ UNCHANGED <<reg, alive, emptied, hpc, forwards, delivery>>

(* It returns when all are told, or earlier: its exceptions are only logged. *)
BroadcastEnds(s) ==
    /\ \/ hpc[s] = "online" /\ hpc' = [hpc EXCEPT ![s] = "open"]
       \/ hpc[s] = "leaving" /\ hpc' = [hpc EXCEPT ![s] = "unregister"]
    /\ bc' = [bc EXCEPT ![s] = {}]
    /\ UNCHANGED <<reg, alive, queue, emptied, forwards, delivery>>

(* _handle_typing and _handle_seen: forward an event to the other user.    *)
Forward(s) ==
    /\ hpc[s] = "open" /\ alive[s]
    /\ forwards < MaxForwards
    /\ \E r \in Users : Publish(r)
    /\ forwards' = forwards + 1
    /\ UNCHANGED <<reg, alive, emptied, hpc, bc, delivery>>

(* Mutant of Leave: the exception escapes without a `finally`.             *)
LeaveNoFinally(s) ==
    /\ hpc[s] = "open"
    /\ hpc' = [hpc EXCEPT ![s] = "closed"]
    /\ UNCHANGED <<reg, alive, queue, emptied, bc, forwards, delivery>>

(* receive_text or a message handler raises: the client has gone, or a     *)
(* chat.send reached message_repo.add.  The `finally` starts.              *)
Leave(s) ==
    /\ hpc[s] = "open"
    /\ hpc' = [hpc EXCEPT ![s] = "leaving"]
    /\ bc' = [bc EXCEPT ![s] = Followers[Owner[s]]]
    /\ UNCHANGED <<reg, alive, queue, emptied, forwards, delivery>>

(* Mutant of Unregister: only a user's last connection is removed.         *)
UnregisterLast(s) ==
    /\ hpc[s] = "unregister"
    /\ IF reg[Owner[s]] = {s} THEN Discard(Owner[s], s) ELSE UNCHANGED <<reg, emptied>>
    /\ hpc' = [hpc EXCEPT ![s] = "closed"]
    /\ alive' = [alive EXCEPT ![s] = FALSE]
    /\ UNCHANGED <<queue, bc, forwards, delivery>>

(* manager.disconnect, the end of the `finally`; the socket is gone.       *)
Unregister(s) ==
    /\ hpc[s] = "unregister"
    /\ Discard(Owner[s], s)
    /\ hpc' = [hpc EXCEPT ![s] = "closed"]
    /\ alive' = [alive EXCEPT ![s] = FALSE]
    /\ UNCHANGED <<queue, bc, forwards, delivery>>

(* The connection breaks: from now on sends raise.                         *)
Drop(s) ==
    /\ alive[s] /\ hpc[s] \in {"online", "open", "leaving", "unregister"}
    /\ alive' = [alive EXCEPT ![s] = FALSE]
    /\ UNCHANGED <<reg, queue, emptied, handlers, delivery>>

-----------------------------------------------------------------------------
(* The listener task. *)

(* Take a message.  A user without connections is skipped.                 *)
Take ==
    /\ lst = "idle" /\ queue # <<>>
    /\ queue' = Tail(queue)
    /\ LET u == Head(queue)
       IN  \/ reg[u] = {} /\ UNCHANGED <<emptied, delivery>>
           \/ /\ reg[u] # {}
              /\ lst' = "sending" /\ cur' = {u} /\ orig' = reg[u]
              /\ visited' = {} /\ dead' = {} /\ emptied' = FALSE /\ UNCHANGED raised
    /\ UNCHANGED <<reg, alive, handlers>>

(* "Set changed size during iteration": the set has another size than when *)
(* the loop started, or was emptied and dropped from the registry.         *)
SetChanged == emptied \/ \E u \in cur : Cardinality(reg[u]) # Cardinality(orig)

(* One turn of the loop, at the end of its await.  A send on a peer that   *)
(* works and does not read may not return for as long as the peer likes:   *)
(* there is no timeout, and the listener stays here.  Whatever a send      *)
(* raises is caught and remembered, also when the connection still works.  *)
SendNext ==
    /\ lst = "sending" /\ ~SetChanged
    /\ \E u \in cur : \E s \in reg[u] \ visited :
         /\ visited' = visited \cup {s}
         /\ \/ alive[s] /\ UNCHANGED <<dead, raised>>
            \/ dead' = dead \cup {s} /\ raised' = raised \cup {x \in {s} : alive[x]}
    /\ UNCHANGED <<reg, alive, queue, emptied, handlers, lst, cur, orig>>

(* The iterator raises, send_to_user does not catch it and _listen ends;   *)
(* nobody starts it again, and its unread messages are lost.               *)
ListenerCrash ==
    /\ lst = "sending" /\ SetChanged
    /\ lst' = "crashed" /\ cur' = {} /\ queue' = <<>>
    /\ orig' = {} /\ visited' = {} /\ dead' = {} /\ emptied' = FALSE
    /\ UNCHANGED <<reg, alive, raised, handlers>>

(* Mutant of EndDelivery: every visited socket is pruned.                  *)
EndDeliveryPrunesAll ==
    /\ lst = "sending" /\ ~SetChanged
    /\ \A u \in cur : reg[u] # orig \/ orig \subseteq visited
    /\ reg' = [u \in Users |-> IF u \in cur THEN reg[u] \ visited ELSE reg[u]]
    /\ lst' = "idle" /\ cur' = {}
    /\ orig' = {} /\ visited' = {} /\ dead' = {}
    /\ UNCHANGED <<alive, queue, emptied, raised, handlers>>

(* The loop ends when it has visited the whole set; one that changed but   *)
(* kept its size (a socket left, another came) may have been rearranged,   *)
(* and the loop may miss members.  Then the dead sockets are pruned,       *)
(* without an await in between.                                            *)
EndDelivery ==
    /\ lst = "sending" /\ ~SetChanged
    /\ \A u \in cur : reg[u] # orig \/ orig \subseteq visited
    /\ reg' = [u \in Users |-> IF u \in cur THEN reg[u] \ dead ELSE reg[u]]
    /\ lst' = "idle" /\ cur' = {}
    /\ orig' = {} /\ visited' = {} /\ dead' = {}
    /\ UNCHANGED <<alive, queue, emptied, raised, handlers>>

-----------------------------------------------------------------------------
(* Shutdown (main.py): pubsub.stop cancels the listener wherever it waits, *)
(* then every registered socket is closed and disconnected.                *)
Stop ==
    /\ lst \in {"idle", "sending", "crashed"}
    /\ lst' = "stopped" /\ cur' = {} /\ queue' = <<>>
    /\ orig' = {} /\ visited' = {} /\ dead' = {} /\ emptied' = FALSE
    /\ UNCHANGED <<reg, alive, raised, handlers>>

Drain(s) ==
    /\ lst = "stopped"
    /\ s \in reg[Owner[s]]
    /\ Discard(Owner[s], s)
    /\ alive' = [alive EXCEPT ![s] = FALSE]
    /\ UNCHANGED <<queue, handlers, delivery>>

HandlerStep(s) == TellFollower(s) \/ BroadcastEnds(s) \/ Unregister(s)
ListenerStep == Take \/ SendNext \/ ListenerCrash \/ EndDelivery

Next ==
    \/ \E s \in Sockets :
         Connect(s) \/ Refuse(s) \/ HandlerStep(s) \/ Forward(s) \/ Leave(s) \/ Drop(s) \/ Drain(s)
    \/ ListenerStep \/ Stop

Spec == Init /\ [][Next]_vars

(* The event loop resumes every handler that can go on, and a broken       *)
(* connection ends its handler's receive.  Nothing is assumed of the       *)
(* listener, which one peer that does not read can hold up for ever, nor   *)
(* of new clients, of shutdown, or of the drain, which gives up after a    *)
(* timeout.                                                                *)
FairSpec ==
    /\ Spec
    /\ \A s \in Sockets : WF_vars(HandlerStep(s)) /\ WF_vars(Leave(s) /\ ~alive[s])

-----------------------------------------------------------------------------
(* Properties. *)

(* No connection leaks: a registered socket has a handler task that will   *)
(* unregister it, on every error path and through pruning and drain.       *)
RegisteredHaveHandlers == \A u \in Users : \A s \in reg[u] :
    Owner[s] = u /\ hpc[s] \in {"online", "open", "leaving", "unregister"}

(* Whoever can be reached is found: a connection that works is in the      *)
(* registry unless a send on it has raised, so neither pruning, which uses *)
(* what the loop saw before its last awaits, nor another handler's         *)
(* disconnect ever drops any other live one.                               *)
LiveAreRegistered == \A s \in Sockets : alive[s] => s \in reg[Owner[s]] \cup raised

(* A broken connection leaves the registry, even if the listener is gone   *)
(* or held up by a peer that does not read, and no send will ever find the *)
(* connection dead.                                                        *)
DeadLeave == \A s \in Sockets : ~alive[s] ~> s \notin reg[Owner[s]]
=============================================================================
