------------------------- MODULE MessagingProofs ----------------------------
(***************************************************************************)
(* What connects users: Realtime.tla and Chat.tla.                         *)
(***************************************************************************)
EXTENDS Realtime, Chat, FiniteSetTheorems, WellFoundedInduction, TLAPS

-----------------------------------------------------------------------------
(***************************************************************************)
(* Proofs about Realtime.tla: for any users, sockets, owners and followers *)
(* the registry of connections is exact.                                   *)
(***************************************************************************)

(* A socket works only from its handshake on, and those whose send failed  *)
(* do not work again, or their send raised while they did: what            *)
(* EndDelivery prunes later is still one or the other.                     *)
DeadStayDead ==
    /\ \A s \in Sockets : hpc[s] = "new" => ~alive[s]
    /\ \A s \in dead : hpc[s] # "new" /\ (~alive[s] \/ s \in raised)

ConnectionInv == TypeOK /\ RegisteredHaveHandlers /\ LiveAreRegistered /\ DeadStayDead

(* Nothing is queued, nobody is served. *)
LEMMA NothingQueued == <<>> \in Seq(Users) /\ {} \in {{}} \cup {{u} : u \in Users}
OBVIOUS

(* At first there are no connections.                                      *)
LEMMA InitConnectionInv == Init => ConnectionInv
<1> SUFFICES ASSUME Init PROVE ConnectionInv
  OBVIOUS
<1>1. queue \in Seq(Users) /\ cur \in {{}} \cup {{u} : u \in Users}
  BY NothingQueued DEF Init
<1>2. TypeOK
  <2>1. /\ reg \in [Users -> SUBSET Sockets] /\ alive \in [Sockets -> BOOLEAN]
        /\ bc \in [Sockets -> SUBSET Users] /\ emptied \in BOOLEAN
    BY Zenon DEF Init
  <2>2. /\ hpc \in [Sockets -> {"new", "online", "open", "leaving", "unregister", "closed"}]
        /\ forwards \in 0..MaxForwards /\ lst \in {"idle", "sending", "crashed", "stopped"}
        /\ orig \subseteq Sockets /\ visited \subseteq Sockets /\ dead \subseteq Sockets
        /\ raised \subseteq Sockets
    BY MaxForwardsAssumption DEF Init
  <2> QED BY <1>1, <2>1, <2>2 DEF TypeOK
<1>3. RegisteredHaveHandlers /\ LiveAreRegistered /\ DeadStayDead
  BY DEF Init, RegisteredHaveHandlers, LiveAreRegistered, DeadStayDead
<1> QED BY <1>2, <1>3 DEF ConnectionInv

(* A handshake registers its socket, a broken socket stops working.        *)
LEMMA ClientIndInv ==
    ASSUME ConnectionInv, NEW s \in Sockets, Connect(s) \/ Refuse(s) \/ Drop(s) PROVE ConnectionInv'
<1> USE OwnerAssumption, FollowersAssumption DEF ConnectionInv
<1>1. CASE Connect(s)
  <2> USE <1>1 DEF Connect, delivery
  <2>1. TypeOK'
    BY DEF TypeOK
  <2>2. RegisteredHaveHandlers'
    BY DEF TypeOK, RegisteredHaveHandlers
  <2>3. LiveAreRegistered'
    BY DEF TypeOK, LiveAreRegistered
  <2>4. DeadStayDead'
    BY DEF TypeOK, DeadStayDead
  <2> QED BY <2>1, <2>2, <2>3, <2>4
<1>2. CASE Refuse(s)
  BY <1>2 DEF Refuse, delivery, TypeOK, RegisteredHaveHandlers, LiveAreRegistered, DeadStayDead
<1>3. CASE Drop(s)
  BY <1>3 DEF Drop, delivery, handlers, TypeOK, RegisteredHaveHandlers, LiveAreRegistered,
     DeadStayDead
<1> QED BY <1>1, <1>2, <1>3

(* The steps of a handler that publish or change its place.                *)
LEMMA HandlerIndInv ==
    ASSUME ConnectionInv, NEW s \in Sockets,
           TellFollower(s) \/ BroadcastEnds(s) \/ Forward(s) \/ Leave(s)
    PROVE  ConnectionInv'
<1> USE OwnerAssumption, FollowersAssumption DEF ConnectionInv
<1>1. CASE TellFollower(s)
  <2>1. queue' \in Seq(Users)
    BY <1>1 DEF TellFollower, Publish, TypeOK
  <2>2. /\ bc' \in [Sockets -> SUBSET Users]
        /\ UNCHANGED <<reg, alive, emptied, hpc, forwards, lst, cur, orig, visited, dead, raised>>
    BY <1>1 DEF TellFollower, TypeOK, delivery
  <2> QED BY <2>1, <2>2 DEF TypeOK, RegisteredHaveHandlers, LiveAreRegistered, DeadStayDead
<1>2. CASE BroadcastEnds(s)
  BY <1>2 DEF BroadcastEnds, delivery, TypeOK, RegisteredHaveHandlers, LiveAreRegistered,
     DeadStayDead
<1>3. CASE Forward(s)
  <2>1. queue' \in Seq(Users)
    BY <1>3 DEF Forward, Publish, TypeOK
  <2>2. /\ forwards' \in 0..MaxForwards
        /\ UNCHANGED <<reg, alive, emptied, hpc, bc, lst, cur, orig, visited, dead, raised>>
    BY <1>3, MaxForwardsAssumption DEF Forward, TypeOK, delivery
  <2> QED BY <2>1, <2>2 DEF TypeOK, RegisteredHaveHandlers, LiveAreRegistered, DeadStayDead
<1>4. CASE Leave(s)
  BY <1>4 DEF Leave, delivery, TypeOK, RegisteredHaveHandlers, LiveAreRegistered, DeadStayDead
<1> QED BY <1>1, <1>2, <1>3, <1>4

(* Whoever removes a socket from the registry has closed it.               *)
LEMMA RemoveIndInv ==
    ASSUME ConnectionInv, NEW s \in Sockets, Unregister(s) \/ Drain(s) PROVE ConnectionInv'
<1> USE OwnerAssumption DEF ConnectionInv
<1>1. /\ reg' = [reg EXCEPT ![Owner[s]] = @ \ {s}]
      /\ emptied' \in BOOLEAN
      /\ alive' = [alive EXCEPT ![s] = FALSE]
      /\ bc' = bc /\ queue' = queue /\ forwards' = forwards
      /\ lst' = lst /\ cur' = cur /\ orig' = orig /\ visited' = visited /\ dead' = dead /\ raised' = raised
  BY DEF Unregister, Drain, Discard, TypeOK, handlers, delivery
<1>2. hpc' = [hpc EXCEPT ![s] = "closed"] \/ hpc' = hpc
  BY DEF Unregister, Drain, handlers
<1>3. TypeOK'
  BY <1>1, <1>2 DEF TypeOK
<1>4. RegisteredHaveHandlers'
  BY <1>1, <1>2 DEF TypeOK, RegisteredHaveHandlers
<1>5. LiveAreRegistered'
  BY <1>1 DEF TypeOK, LiveAreRegistered
<1>6. DeadStayDead'
  BY <1>1, <1>2 DEF TypeOK, DeadStayDead
<1> QED BY <1>3, <1>4, <1>5, <1>6

(* The listener, and its end: it only ever removes what it has found dead. *)
LEMMA ListenerIndInv == ASSUME ConnectionInv, ListenerStep \/ Stop PROVE ConnectionInv'
<1> USE DEF ConnectionInv
<1>1. CASE Take
  <2>1. Head(queue) \in Users /\ queue' \in Seq(Users)
    BY <1>1 DEF Take, TypeOK
  <2>2. /\ UNCHANGED <<reg, alive, raised, hpc, bc, forwards>>
        /\ dead' \in {dead, {}} /\ lst' \in {"idle", "sending"} /\ cur' \in {cur, {Head(queue)}}
        /\ orig' \in {orig, reg[Head(queue)]} /\ visited' \in {visited, {}}
        /\ emptied' \in {emptied, FALSE}
    BY <1>1 DEF Take, delivery, handlers
  <2>3. TypeOK'
    BY <2>1, <2>2 DEF TypeOK
  <2> QED BY <2>2, <2>3 DEF RegisteredHaveHandlers, LiveAreRegistered, DeadStayDead
<1>2. CASE SendNext
  <2>0. PICK u \in cur : \E s \in reg[u] :
          /\ visited' = visited \cup {s}
          /\ \/ alive[s] /\ UNCHANGED <<dead, raised>>
             \/ dead' = dead \cup {s} /\ raised' = raised \cup {x \in {s} : alive[x]}
    BY <1>2 DEF SendNext
  <2>1. PICK s \in reg[u] :
          /\ visited' = visited \cup {s}
          /\ \/ alive[s] /\ UNCHANGED <<dead, raised>>
             \/ dead' = dead \cup {s} /\ raised' = raised \cup {x \in {s} : alive[x]}
    BY <2>0
  <2>3. UNCHANGED <<reg, alive, queue, emptied, hpc, bc, forwards, lst, cur, orig>>
    BY <1>2 DEF SendNext, handlers
  <2>4. u \in Users /\ s \in Sockets /\ hpc[s] # "new"
    BY DEF TypeOK, RegisteredHaveHandlers
  <2>5. TypeOK'
    BY <2>1, <2>3, <2>4 DEF TypeOK
  <2>6. DeadStayDead'
    BY <2>1, <2>3, <2>4 DEF DeadStayDead
  <2>7. raised \subseteq raised'
    BY <2>1
  <2> QED BY <2>3, <2>5, <2>6, <2>7 DEF RegisteredHaveHandlers, LiveAreRegistered
<1>3. CASE ListenerCrash \/ Stop
  <2>1. queue' \in Seq(Users) /\ cur' \in {{}} \cup {{u} : u \in Users}
    BY <1>3, NothingQueued DEF ListenerCrash, Stop
  <2>2. /\ UNCHANGED <<reg, alive, raised, hpc, bc, forwards>>
        /\ lst' \in {"crashed", "stopped"}
        /\ orig' = {} /\ visited' = {} /\ dead' = {} /\ emptied' = FALSE
    BY <1>3 DEF ListenerCrash, Stop, handlers
  <2>3. TypeOK'
    BY <2>1, <2>2 DEF TypeOK
  <2> QED BY <2>2, <2>3 DEF RegisteredHaveHandlers, LiveAreRegistered, DeadStayDead
<1>4. CASE EndDelivery
  <2>1. /\ reg' = [u \in Users |-> IF u \in cur THEN reg[u] \ dead ELSE reg[u]]
        /\ UNCHANGED <<alive, queue, emptied, raised, hpc, bc, forwards>>
        /\ lst' = "idle" /\ cur' = {} /\ orig' = {} /\ visited' = {} /\ dead' = {}
    BY <1>4 DEF EndDelivery, handlers
  <2>2. TypeOK'
    BY <2>1 DEF TypeOK
  <2>3. RegisteredHaveHandlers'
    BY <2>1 DEF TypeOK, RegisteredHaveHandlers
  <2>4. LiveAreRegistered'
    BY <2>1, OwnerAssumption DEF TypeOK, LiveAreRegistered, DeadStayDead
  <2>5. DeadStayDead'
    BY <2>1 DEF DeadStayDead
  <2> QED BY <2>2, <2>3, <2>4, <2>5
<1> QED BY <1>1, <1>2, <1>3, <1>4 DEF ListenerStep

(* Every step preserves the invariant.                                     *)
LEMMA NextConnectionInv == ConnectionInv /\ [Next]_vars => ConnectionInv'
<1> SUFFICES ASSUME ConnectionInv, [Next]_vars PROVE ConnectionInv'
  OBVIOUS
<1>1. CASE UNCHANGED vars
  BY <1>1 DEF vars, handlers, delivery, ConnectionInv, TypeOK, RegisteredHaveHandlers,
     LiveAreRegistered, DeadStayDead
<1>2. CASE Next
  BY <1>2, ClientIndInv, HandlerIndInv, RemoveIndInv, ListenerIndInv DEF Next, HandlerStep
<1> QED BY <1>1, <1>2

(* The invariant holds in every behaviour.                                 *)
LEMMA Invariance == Spec => []ConnectionInv
BY InitConnectionInv, NextConnectionInv, PTL DEF Spec

(* Every variable keeps its type.                                          *)
THEOREM ConnectionTyping == Spec => []TypeOK
<1>1. ConnectionInv => TypeOK
  BY DEF ConnectionInv
<1> QED BY <1>1, Invariance, PTL

(* No connection is left in the registry without a handler to remove it.   *)
THEOREM NoOrphanConnection == Spec => []RegisteredHaveHandlers
<1>1. ConnectionInv => RegisteredHaveHandlers
  BY DEF ConnectionInv
<1> QED BY <1>1, Invariance, PTL

(* No working connection is ever dropped from the registry, neither by a   *)
(* prune that uses what the listener saw earlier nor by another handler.   *)
THEOREM WorkingIsReachable == Spec => []LiveAreRegistered
<1>1. ConnectionInv => LiveAreRegistered
  BY DEF ConnectionInv
<1> QED BY <1>1, Invariance, PTL

-----------------------------------------------------------------------------
(***************************************************************************)
(* Proofs about Chat.tla, for any users, ids, page sizes and clock.        *)
(***************************************************************************)

(* What the client has read is not behind its cursor, what it still has to *)
(* read is.                                                                *)
WalkInv ==
    /\ got \cup present \subseteq Stored
    /\ walk = "idle" => cursor = NoCursor /\ got = {}
    /\ walk = "next" => IF cursor = NoCursor THEN got = {} ELSE got \cap Behind(cursor) = {}
    /\ walk = "next" => present \subseteq got \cup Behind(cursor)
    /\ walk = "next" /\ first <= 0 => cursor = NoCursor
ChatInv == ChatTypeOK /\ IsFiniteSet(Stored) /\ WalkInv /\ EveryMessageOnce

(* A set of natural numbers has a least element.                           *)
LEMMA LeastNatural == ASSUME NEW T \in SUBSET Nat, T # {} PROVE \E x \in T : \A y \in T : x <= y
<1>1. IsWellFoundedOn({s \in Nat \X Nat : s[1] < s[2]}, Nat)
  BY NatLessThanWellFounded DEF OpToRel
<1>2. PICK R : IsWellFoundedOn(R, Nat) /\ \A x, y \in Nat : x < y => <<x, y>> \in R
  BY <1>1
<1>3. PICK x \in T : \A y \in T : <<y, x>> \notin R
  <2>1. IsWellFoundedOn(R, Nat) /\ T \subseteq Nat
    BY <1>2
  <2> QED BY <2>1, WFMin, Zenon
<1>4. \A y \in T : ~(y < x)
  BY <1>2, <1>3
<1> QED BY <1>3, <1>4

(* ORDER BY created_at DESC, id DESC is a strict total order of messages.  *)
Ahead(i, j) == Newer(Position(i), Position(j))

LEMMA TotalOrder ==
    ASSUME ChatTypeOK
    PROVE  /\ \A i \in Ids : ~Ahead(i, i)
           /\ \A i, j, k \in Ids : Ahead(i, j) /\ Ahead(j, k) => Ahead(i, k)
           /\ \A i, j \in Ids : i = j \/ Ahead(i, j) \/ Ahead(j, i)
<1>1. \A i \in Ids : msg[i].at \in Nat /\ i \in Nat
  BY ChatAssumption DEF ChatTypeOK
<1> QED BY <1>1 DEF Ahead, Newer, Position

(* How many rows come before a row orders the rows.                        *)
LEMMA Rank ==
    ASSUME ChatTypeOK, NEW S \in SUBSET Ids, IsFiniteSet(S), NEW i \in S
    PROVE  /\ IsFiniteSet(Before(S, i)) /\ Cardinality(Before(S, i)) \in Nat
           /\ Cardinality(Before(S, i)) < Cardinality(S)
           /\ \A j \in S : Ahead(j, i) => Cardinality(Before(S, j)) < Cardinality(Before(S, i))
<1>1. Before(S, i) \subseteq S /\ i \notin Before(S, i)
  BY TotalOrder DEF Before, Ahead
<1>2. IsFiniteSet(Before(S, i)) /\ Cardinality(Before(S, i)) \in Nat
  BY <1>1, FS_Subset, FS_CardinalityType
<1>3. ASSUME NEW T, NEW U, IsFiniteSet(U), T \subseteq U, T # U PROVE Cardinality(T) < Cardinality(U)
  <2>1. IsFiniteSet(T) /\ Cardinality(T) <= Cardinality(U) /\ Cardinality(T) # Cardinality(U)
    BY <1>3, FS_Subset
  <2> QED BY <1>3, <2>1, FS_CardinalityType
<1>4. Cardinality(Before(S, i)) < Cardinality(S)
  BY <1>1, <1>3
<1>5. ASSUME NEW j \in S, Ahead(j, i) PROVE Cardinality(Before(S, j)) < Cardinality(Before(S, i))
  <2>1. Before(S, j) \subseteq Before(S, i)
    BY <1>5, TotalOrder DEF Before, Ahead
  <2>2. j \in Before(S, i) /\ j \notin Before(S, j)
    BY <1>5, TotalOrder DEF Before, Ahead
  <2> QED BY <1>2, <1>3, <2>1, <2>2
<1> QED BY <1>2, <1>4, <1>5

(* Of some rows, one is the newest and one the last.                       *)
LEMMA NewestRow ==
    ASSUME ChatTypeOK, NEW S \in SUBSET Ids, IsFiniteSet(S), NEW T \in SUBSET S, T # {}
    PROVE  \E i \in T : \A j \in T \ {i} : Ahead(i, j)
<1> DEFINE Ranks == {Cardinality(Before(S, i)) : i \in T}
<1>1. Ranks \in SUBSET Nat /\ Ranks # {}
  BY Rank
<1>2. PICK i \in T : \A j \in T : Cardinality(Before(S, i)) <= Cardinality(Before(S, j))
  <2> HIDE DEF Ranks
  <2>1. PICK x \in Ranks : \A y \in Ranks : x <= y
    BY <1>1, LeastNatural
  <2> QED BY <2>1 DEF Ranks
<1>3. ASSUME NEW j \in T \ {i} PROVE Ahead(i, j)
  <2>1. ~Ahead(j, i)
    BY <1>2, <1>3, Rank
  <2> QED BY <2>1, TotalOrder
<1> QED BY <1>2, <1>3

LEMMA LastRow ==
    ASSUME ChatTypeOK, NEW S \in SUBSET Ids, IsFiniteSet(S), S # {}
    PROVE  Last(S) \in S /\ \A j \in S \ {Last(S)} : Ahead(j, Last(S))
<1> DEFINE Ranks == {Cardinality(S) - Cardinality(Before(S, i)) : i \in S}
<1>1. Cardinality(S) \in Nat
  BY FS_CardinalityType
<1>2. Ranks \in SUBSET Nat /\ Ranks # {}
  BY <1>1, Rank
<1>3. PICK i \in S : \A j \in S : Cardinality(S) - Cardinality(Before(S, i)) <= Cardinality(S) - Cardinality(Before(S, j))
  <2> HIDE DEF Ranks
  <2>1. PICK x \in Ranks : \A y \in Ranks : x <= y
    BY <1>2, LeastNatural
  <2> QED BY <2>1 DEF Ranks
<1>4. ASSUME NEW j \in S \ {i} PROVE Ahead(j, i)
  <2>1. ~Ahead(i, j)
    BY <1>1, <1>3, <1>4, Rank
  <2> QED BY <2>1, <1>3, <1>4, TotalOrder
<1>5. \E k \in S : \A j \in S \ {k} : Newer(Position(j), Position(k))
  BY <1>3, <1>4 DEF Ahead
<1> QED BY <1>5 DEF Last, Ahead

(* A page is the front of the rows, and shorter than its limit only when   *)
(* it is all of them.                                                      *)
LEMMA PageIsFront ==
    ASSUME ChatTypeOK, NEW S \in SUBSET Ids, IsFiniteSet(S), NEW n \in Nat,
           NEW i \in Newest(S, n), NEW j \in S \ Newest(S, n)
    PROVE  Ahead(i, j)
<1>1. i \in S /\ Cardinality(Before(S, i)) < n /\ ~(Cardinality(Before(S, j)) < n)
  BY DEF Newest
<1>2. ~Ahead(j, i) /\ i # j
  BY <1>1, Rank
<1> QED BY <1>1, <1>2, TotalOrder

LEMMA PageIsFull ==
    ASSUME ChatTypeOK, NEW S \in SUBSET Ids, IsFiniteSet(S), NEW n \in Nat, Newest(S, n) # S
    PROVE  Cardinality(Newest(S, n)) >= n
<1> DEFINE P == Newest(S, n)
<1>1. S \ P \in SUBSET S /\ S \ P # {} /\ P \subseteq S
  BY DEF Newest
<1>2. PICK i \in S \ P : \A j \in (S \ P) \ {i} : Ahead(i, j)
  <2> DEFINE T == S \ P
  <2>1. T \in SUBSET S /\ T # {}
    BY <1>1
  <2> HIDE DEF T
  <2>2. \E i \in T : \A j \in T \ {i} : Ahead(i, j)
    BY <2>1, NewestRow
  <2> QED BY <2>2 DEF T
<1>3. Before(S, i) = P
  <2>1. ASSUME NEW j \in S PROVE Ahead(j, i) <=> j \in P
    <3>1. CASE j \in P
      BY <3>1, <1>2, PageIsFront
    <3>2. CASE j = i
      BY <3>2, <1>2, TotalOrder
    <3>3. CASE j \in (S \ P) \ {i}
      BY <3>3, <1>2, TotalOrder
    <3> QED BY <2>1, <3>1, <3>2, <3>3
  <2> QED BY <1>1, <2>1 DEF Before, Ahead
<1>4. ~(Cardinality(Before(S, i)) < n) /\ Cardinality(Before(S, i)) \in Nat
  BY <1>2, Rank DEF Newest
<1> QED BY <1>3, <1>4

LEMMA PageIsAll ==
    ASSUME ChatTypeOK, NEW S \in SUBSET Ids, IsFiniteSet(S), NEW n \in Nat, Cardinality(S) <= n
    PROVE  Newest(S, n) = S
<1>1. \A i \in S : Cardinality(Before(S, i)) < n
  BY Rank, FS_CardinalityType
<1> QED BY <1>1 DEF Newest

LEMMA PageIsNotEmpty ==
    ASSUME ChatTypeOK, NEW S \in SUBSET Ids, IsFiniteSet(S), S # {}, NEW n \in Nat \ {0}
    PROVE  Newest(S, n) # {}
<1>1. PICK i \in S : \A j \in S \ {i} : Ahead(i, j)
  BY NewestRow
<1>2. Before(S, i) = {}
  BY <1>1, TotalOrder DEF Before, Ahead
<1>3. i \in Newest(S, n)
  BY <1>2, FS_EmptySet DEF Newest
<1> QED BY <1>3

-----------------------------------------------------------------------------
Message == [state : States, from : Parties \cup {"none"}, at : 0..MaxTime, seen : BOOLEAN]

LEMMA NoMessageType == NoMessage \in Message /\ 0 \in 0..MaxTime
BY ChatAssumption DEF NoMessage, Message, States

(* The conversation starts empty, and the client idle.                     *)
LEMMA InitChatInv == ChatInit => ChatInv
<1> SUFFICES ASSUME ChatInit PROVE ChatInv
  OBVIOUS
<1>1. Stored = {} /\ IsFiniteSet(Stored)
  BY FS_EmptySet DEF ChatInit, Stored, NoMessage
<1>2. ChatTypeOK
  BY NoMessageType DEF ChatInit, ChatTypeOK, Message
<1> QED BY <1>1, <1>2 DEF ChatInit, ChatInv, WalkInv, EveryMessageOnce

(* A send, its end, and a mark keep what is stored, and where.             *)
LEMMA MessagesStay ==
    ASSUME ChatTypeOK,
           \/ \E i \in Ids, u \in Parties : Send(i, u)
           \/ \E i \in Ids : SendCommit(i) \/ MarkSeen(i)
           \/ \E u \in Parties : MarkConversationSeen(u)
    PROVE  /\ ChatTypeOK' /\ UNCHANGED client
           /\ Stored \subseteq Stored' /\ \E i : Stored' \subseteq Stored \cup {i}
           /\ \A i \in Stored : Position(i)' = Position(i)
<1>1. ASSUME NEW i \in Ids, NEW u \in Parties, Send(i, u)
      PROVE  /\ ChatTypeOK' /\ UNCHANGED client /\ Stored' = Stored /\ \A j \in Stored : Position(j)' = Position(j)
  BY <1>1 DEF Send, ChatTypeOK, States, client, Stored, Position
<1>2. ASSUME NEW i \in Ids, SendCommit(i)
      PROVE  /\ ChatTypeOK' /\ UNCHANGED client /\ Stored \subseteq Stored' /\ Stored' \subseteq Stored \cup {i}
             /\ \A j \in Stored : Position(j)' = Position(j)
  <2>1. CASE msg' = [msg EXCEPT ![i].state = "stored"]
    <3>1. [msg[i] EXCEPT !.state = "stored"] \in Message
      BY DEF ChatTypeOK, Message, States
    <3>2. msg' \in [Ids -> Message]
      BY <2>1, <3>1 DEF ChatTypeOK, Message
    <3>3. ChatTypeOK' /\ UNCHANGED client
      BY <1>2, <3>2 DEF SendCommit, ChatTypeOK, Message, client
    <3>4. Stored' = Stored \cup {i} /\ \A j \in Stored : Position(j)' = Position(j)
      BY <1>2, <2>1 DEF SendCommit, ChatTypeOK, Stored, Position
    <3> QED BY <3>3, <3>4
  <2>2. CASE msg' = [msg EXCEPT ![i] = NoMessage]
    <3>1. ChatTypeOK' /\ UNCHANGED client
      BY <1>2, <2>2, NoMessageType DEF SendCommit, ChatTypeOK, Message, client
    <3>2. Stored' = Stored /\ \A j \in Stored : Position(j)' = Position(j)
      BY <1>2, <2>2 DEF SendCommit, ChatTypeOK, Stored, Position, NoMessage
    <3> QED BY <3>1, <3>2
  <2> QED BY <1>2, <2>1, <2>2 DEF SendCommit
<1>3. ASSUME NEW u \in Parties, MarkConversationSeen(u)
      PROVE  /\ ChatTypeOK' /\ UNCHANGED client /\ Stored' = Stored /\ \A j \in Stored : Position(j)' = Position(j)
  <2>1. \A i \in Ids : [msg[i] EXCEPT !.seen = TRUE] \in Message
    BY DEF ChatTypeOK, Message
  <2>2. msg' \in [Ids -> Message]
    BY <1>3, <2>1 DEF MarkConversationSeen, ChatTypeOK, Message
  <2>3. ChatTypeOK' /\ UNCHANGED client
    BY <1>3, <2>2 DEF MarkConversationSeen, ChatTypeOK, Message, client
  <2>4. \A i \in Ids : msg'[i].state = msg[i].state /\ msg'[i].at = msg[i].at
    BY <1>3 DEF MarkConversationSeen, ChatTypeOK
  <2>5. Stored' = Stored /\ \A j \in Stored : Position(j)' = Position(j)
    BY <2>4 DEF Stored, Position
  <2> QED BY <2>3, <2>5
<1>4. ASSUME NEW i \in Ids, MarkSeen(i)
      PROVE  /\ ChatTypeOK' /\ UNCHANGED client /\ Stored' = Stored /\ \A j \in Stored : Position(j)' = Position(j)
  <2>1. [msg[i] EXCEPT !.seen = TRUE] \in Message
    BY DEF ChatTypeOK, Message
  <2>2. msg' = [msg EXCEPT ![i] = [msg[i] EXCEPT !.seen = TRUE]] /\ msg' \in [Ids -> Message]
    BY <1>4, <2>1 DEF MarkSeen, ChatTypeOK, Message
  <2>3. ChatTypeOK' /\ UNCHANGED client
    BY <1>4, <2>2 DEF MarkSeen, ChatTypeOK, Message, client
  <2>4. \A j \in Ids : msg'[j].state = msg[j].state /\ msg'[j].at = msg[j].at
    BY <2>2 DEF ChatTypeOK
  <2>5. Stored' = Stored /\ \A j \in Stored : Position(j)' = Position(j)
    BY <2>4 DEF Stored, Position
  <2> QED BY <2>3, <2>5
<1> QED BY <1>1, <1>2, <1>3, <1>4

(* What is sent behind the back of a client does not lose it its place.    *)
LEMMA MessagesChatInv ==
    ASSUME ChatInv,
           \/ \E i \in Ids, u \in Parties : Send(i, u)
           \/ \E i \in Ids : SendCommit(i) \/ MarkSeen(i)
           \/ \E u \in Parties : MarkConversationSeen(u)
    PROVE  ChatInv'
<1>1. /\ ChatTypeOK' /\ UNCHANGED client /\ Stored \subseteq Stored'
      /\ \E i : Stored' \subseteq Stored \cup {i}
      /\ \A i \in Stored : Position(i)' = Position(i)
  BY MessagesStay DEF ChatInv
<1>2. IsFiniteSet(Stored')
  BY <1>1, FS_AddElement, FS_Subset DEF ChatInv
<1>3. \A i \in Stored : i \in Behind(cursor) <=> i \in Behind(cursor)'
  BY <1>1 DEF Behind, client
<1>4. WalkInv'
  BY <1>1, <1>3 DEF ChatInv, WalkInv, client
<1> QED BY <1>1, <1>2, <1>4 DEF ChatInv, EveryMessageOnce, client

(* A page continues where the one before it ended.                         *)
LEMMA FetchChatInv == ASSUME ChatInv, Fetch PROVE ChatInv'
<1> DEFINE B == Behind(cursor)
           rows == Newest(B, first + 1)
           items == Newest(rows, first)
<1>1. /\ ChatTypeOK /\ IsFiniteSet(Stored) /\ WalkInv /\ ~twice /\ walk = "next" /\ msg' = msg /\ present' = present
      /\ got' = got \cup items /\ twice' = (twice \/ got \cap items # {})
      /\ cursor' = IF items = {} THEN NoCursor ELSE Position(Last(items))
      /\ walk' = IF HasNext(rows) THEN "next" ELSE "done"
  BY DEF ChatInv, EveryMessageOnce, Fetch
<1>2. first \in Int /\ first + 1 \in Nat /\ first' = first
  BY <1>1, ChatAssumption DEF ChatTypeOK, Fetch
<1>3. B \subseteq Stored /\ rows \subseteq B /\ items \subseteq rows /\ Stored \subseteq Ids
  BY DEF Behind, Newest, Stored
<1>4. IsFiniteSet(B) /\ IsFiniteSet(rows) /\ IsFiniteSet(items)
  BY <1>1, <1>3, FS_Subset
<1>5. got \cap items = {}
  BY <1>1, <1>3 DEF WalkInv
<1>6. ChatTypeOK'
  <2>1. items # {} => Position(Last(items)) \in (0..MaxTime) \X Ids
    BY <1>1, <1>3, <1>4, LastRow DEF ChatTypeOK, Position
  <2>2. cursor' \in ((0..MaxTime) \X Ids) \cup {NoCursor} /\ got' \subseteq Ids
    BY <1>1, <1>3, <2>1 DEF ChatTypeOK
  <2>3. walk' \in {"idle", "next", "done"} /\ twice' \in BOOLEAN
    BY <1>1
  <2> QED BY <1>1, <2>2, <2>3 DEF ChatTypeOK, Fetch
<1>9. CASE walk' = "next" /\ first <= 0
  <2>1. \A i \in rows : ~(Cardinality(Before(rows, i)) < first)
    BY <1>1, <1>2, <1>3, <1>4, <1>9, Rank
  <2>2. items = {} /\ cursor = NoCursor /\ cursor' = NoCursor /\ got' = got /\ got = {}
    BY <1>1, <1>9, <2>1 DEF Newest, WalkInv
  <2>3. Stored' = Stored /\ Behind(cursor)' = Stored
    BY <1>1, <2>2 DEF Behind, Stored
  <2>4. WalkInv'
    BY <1>1, <1>9, <2>2, <2>3 DEF WalkInv
  <2> QED BY <1>1, <1>5, <1>6, <1>9, <2>3, <2>4 DEF ChatInv, EveryMessageOnce
<1>7. CASE walk' = "next" /\ ~(first <= 0)
  <2>1. items # {}
    <3>1. Cardinality(rows) > first
      BY <1>1, <1>7 DEF HasNext
    <3>2. rows # {}
      BY <1>2, <1>7, <3>1, FS_EmptySet
    <3>3. first \in Nat \ {0}
      BY <1>2, <1>7
    <3> QED BY <1>1, <1>3, <1>4, <3>2, <3>3, PageIsNotEmpty
  <2> DEFINE o == Last(items)
  <2>2. o \in items /\ (\A i \in items \ {o} : Ahead(i, o)) /\ cursor' = Position(o) /\ cursor' # NoCursor
    BY <1>1, <1>3, <1>4, <2>1, LastRow DEF NoCursor, Position
  <2>3. Behind(cursor)' = {i \in Stored : Ahead(o, i)}
    BY <1>1, <2>2 DEF Behind, Stored, Ahead, Position
  <2>4. \A i \in B \ items : Ahead(o, i)
    <3>1. \A i \in B \ rows : Ahead(o, i)
      BY <1>1, <1>2, <1>3, <1>4, <2>2, PageIsFront
    <3>3. first \in Nat
      BY <1>2, <1>7
    <3>2. \A i \in rows \ items : Ahead(o, i)
      BY <1>1, <1>3, <1>4, <2>2, <3>3, PageIsFront
    <3> QED BY <3>1, <3>2
  <2>5. \A i \in items : ~Ahead(o, i)
    BY <1>1, <1>3, <2>2, TotalOrder
  <2>6. \A i \in got : ~Ahead(o, i)
    <3>1. CASE cursor = NoCursor
      BY <1>1, <3>1 DEF WalkInv
    <3>2. CASE cursor # NoCursor
      <4>1. \A i \in Stored : i \in B <=> Newer(cursor, Position(i))
        BY <3>2 DEF Behind
      <4>2. cursor \in Nat \X Nat /\ \A i \in Stored : Position(i) \in Nat \X Nat
        <5>1. \A i \in Ids : msg[i].at \in Nat /\ i \in Nat
          BY <1>1, ChatAssumption DEF ChatTypeOK
        <5>2. cursor \in Nat \X Nat
          <6>1. cursor \in (0..MaxTime) \X Ids
            BY <1>1, <3>2 DEF ChatTypeOK
          <6>2. 0..MaxTime \subseteq Nat /\ Ids \subseteq Nat
            BY ChatAssumption
          <6> QED BY <6>1, <6>2
        <5> QED BY <1>3, <5>1, <5>2 DEF Position
      <4>3. \A i \in Stored : Ahead(o, i) => Newer(cursor, Position(i))
        BY <1>3, <2>2, <4>1, <4>2 DEF Ahead, Newer
      <4> QED BY <1>1, <3>2, <4>1, <4>3 DEF WalkInv
    <3> QED BY <3>1, <3>2
  <2>7. got' \cap Behind(cursor)' = {} /\ present' \subseteq got' \cup Behind(cursor)'
    BY <1>1, <1>3, <2>3, <2>4, <2>5, <2>6 DEF WalkInv
  <2>8. got' \cup present' \subseteq Stored'
    BY <1>1, <1>3 DEF WalkInv, Stored
  <2>9. WalkInv'
    BY <1>2, <1>7, <2>2, <2>7, <2>8 DEF WalkInv
  <2> QED BY <1>1, <1>5, <1>6, <1>7, <2>9 DEF ChatInv, EveryMessageOnce, Stored
<1>8. CASE walk' = "done"
  <2>1. ~(Cardinality(rows) > first) /\ Cardinality(rows) \in Nat
    BY <1>1, <1>4, <1>8, FS_CardinalityType DEF HasNext
  <2>5. first \in Nat
    BY <1>2, <2>1
  <2>2. rows = B
    BY <1>1, <1>2, <1>3, <1>4, <2>1, PageIsFull
  <2>3. items = rows
    BY <1>1, <1>3, <1>4, <2>1, <2>5, PageIsAll
  <2>4. present' \subseteq got' /\ got' \cup present' \subseteq Stored'
    BY <1>1, <1>3, <2>2, <2>3 DEF WalkInv, Stored
  <2> QED BY <1>1, <1>5, <1>6, <1>8, <2>4 DEF ChatInv, WalkInv, EveryMessageOnce, Stored
<1> QED BY <1>1, <1>7, <1>8, <1>9

(* The client begins, is refused, or starts over. *)
LEMMA ClientChatInv == ASSUME ChatInv, Begin \/ LimitRefused \/ Again PROVE ChatInv'
<1>1. CASE Begin
  BY <1>1 DEF ChatInv, ChatTypeOK, WalkInv, EveryMessageOnce, Begin, Stored, Behind
<1>2. CASE Again
  BY <1>2 DEF ChatInv, ChatTypeOK, WalkInv, EveryMessageOnce, Again, Stored
<1>3. CASE LimitRefused
  BY <1>3 DEF ChatInv, ChatTypeOK, WalkInv, EveryMessageOnce, LimitRefused, Stored
<1> QED BY <1>1, <1>2, <1>3

LEMMA NextChatInv == ChatInv /\ [ChatNext]_chatVars => ChatInv'
<1> SUFFICES ASSUME ChatInv, [ChatNext]_chatVars PROVE ChatInv'
  OBVIOUS
<1>1. CASE Tick
  BY <1>1, ChatAssumption DEF ChatInv, ChatTypeOK, WalkInv, EveryMessageOnce, Tick, client, Stored, Behind, Position
<1>2. CASE UNCHANGED chatVars
  BY <1>2 DEF ChatInv, ChatTypeOK, WalkInv, EveryMessageOnce, chatVars, Stored, Behind, Position
<1> QED BY <1>1, <1>2, MessagesChatInv, FetchChatInv, ClientChatInv DEF ChatNext

LEMMA AlwaysChatInv == ChatSpec => []ChatInv
BY InitChatInv, NextChatInv, PTL DEF ChatSpec

(* Type correctness of the messages and of the client.                     *)
THEOREM ChatTyping == ChatSpec => []ChatTypeOK
<1>1. ChatInv => ChatTypeOK
  BY DEF ChatInv
<1> QED BY <1>1, AlwaysChatInv, PTL

(* Whatever is sent and committed between two pages, a walk to the end of  *)
(* the conversation returns every message that was there when it began,    *)
(* and none twice.                                                         *)
THEOREM CompleteWalk == ChatSpec => []EveryMessageOnce
<1>1. ChatInv => EveryMessageOnce
  BY DEF ChatInv
<1> QED BY <1>1, AlwaysChatInv, PTL

(* A message becomes seen through a mark of its receiver, or through an     *)
(* event that names it, and in no other way: a conversation mark never     *)
(* reaches the messages of the user who marks.                             *)
THEOREM SeenNeedsAReport == ChatSpec => []SeenWasReported
<1>1. ChatInit => SeenWasReported
  BY DEF ChatInit, SeenWasReported, NoMessage
<1>2. ChatTypeOK /\ SeenWasReported /\ [ChatNext]_chatVars => SeenWasReported'
  <2> SUFFICES ASSUME ChatTypeOK, SeenWasReported, [ChatNext]_chatVars PROVE SeenWasReported'
    OBVIOUS
  <2>1. ASSUME NEW i \in Ids, NEW u \in Parties, Send(i, u) PROVE SeenWasReported'
    BY <2>1 DEF ChatTypeOK, SeenWasReported, Send
  <2>2. ASSUME NEW i \in Ids, SendCommit(i) PROVE SeenWasReported'
    BY <2>2 DEF ChatTypeOK, SeenWasReported, SendCommit, NoMessage
  <2>3. ASSUME NEW i \in Ids, MarkSeen(i) PROVE SeenWasReported'
    BY <2>3 DEF ChatTypeOK, SeenWasReported, MarkSeen
  <2>4. ASSUME NEW u \in Parties, MarkConversationSeen(u) PROVE SeenWasReported'
    BY <2>4 DEF ChatTypeOK, SeenWasReported, MarkConversationSeen
  <2>5. CASE UNCHANGED <<msg, marked, named>>
    BY <2>5 DEF SeenWasReported
  <2> QED BY <2>1, <2>2, <2>3, <2>4, <2>5
          DEF ChatNext, Begin, Fetch, LimitRefused, Again, Tick, client, chatVars
<1> QED BY <1>1, <1>2, ChatTyping, PTL DEF ChatSpec
=============================================================================
