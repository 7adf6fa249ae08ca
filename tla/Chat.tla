-------------------------------- MODULE Chat --------------------------------
(***************************************************************************)
(* Messages between two users: sending, reading a conversation page by     *)
(* page, and marking it seen.  GET /messages/{id} pages by a cursor made   *)
(* of created_at and id, newest first; each page is one SELECT, and        *)
(* messages are sent and committed between two pages.  created_at is the   *)
(* time at which the inserting transaction began, so messages may become   *)
(* visible in another order than their timestamps, and several may have    *)
(* the same one.  GraphQL's feed pages in the same way (feed_repo.py).     *)
(*                                                                         *)
(* As the code stands, MessageModel does not take the argument id with     *)
(* which message_repo.add builds it, so that every send fails; here a send *)
(* may also succeed.                                                       *)
(***************************************************************************)
EXTENDS Integers, FiniteSets

CONSTANTS
    Parties,        \* the two parties
    Ids,            \* message ids: their order is that of uuids, not of time
    Firsts,         \* values of the query parameter first
    MaxTime         \* bound: the clock

ASSUME ChatAssumption ==
    /\ Ids \subseteq Nat
    /\ Firsts \subseteq Int                     \* the route checks no bound
    /\ MaxTime \in Nat

VARIABLES
    now,
    msg,            \* msg[i]: sender, created_at, state, whether seen
    walk, cursor,   \* the client: between walks, in one, or at its end; the last end_cursor
    first, got,     \* page size; ids received so far
    twice,          \* history: an id has come a second time
    present,        \* history: messages committed when the client began
    marked,         \* history: users who have marked the conversation seen
    named           \* history: messages that a chat.seen event has named

chatVars == <<now, msg, marked, named, walk, cursor, first, got, twice, present>>

NoCursor == <<>>
NoMessage == [state |-> "none", from |-> "none", at |-> 0, seen |-> FALSE]
States == {"none", "sending", "stored"}

ChatTypeOK ==
    /\ now \in 0..MaxTime
    /\ msg \in [Ids -> [state : States, from : Parties \cup {"none"}, at : 0..MaxTime, seen : BOOLEAN]]
    /\ marked \subseteq Parties
    /\ named \subseteq Ids
    /\ walk \in {"idle", "next", "done", "refused"}
    /\ cursor \in ((0..MaxTime) \X Ids) \cup {NoCursor}
    /\ first \in Firsts \cup {0}
    /\ got \subseteq Ids
    /\ twice \in BOOLEAN
    /\ present \subseteq Ids

ChatInit ==
    /\ now = 0
    /\ msg = [i \in Ids |-> NoMessage]
    /\ marked = {} /\ named = {}
    /\ walk = "idle" /\ cursor = NoCursor /\ first = 0 /\ got = {} /\ twice = FALSE
    /\ present = {}

client == <<walk, cursor, first, got, twice, present>>

Stored == {i \in Ids : msg[i].state = "stored"}

-----------------------------------------------------------------------------
(* Mutant of Send: the timestamp is a tick ahead of the clock.             *)
SendAhead(i, u) ==
    /\ msg[i].state = "none"
    /\ msg' = [msg EXCEPT ![i] = [state |-> "sending", from |-> u, at |-> now + 1, seen |-> FALSE]]
    /\ UNCHANGED <<now, marked, named, client>>

(* POST /messages/{id}: the transaction begins and takes its timestamp ... *)
Send(i, u) ==
    /\ msg[i].state = "none"
    /\ msg' = [msg EXCEPT ![i] = [state |-> "sending", from |-> u, at |-> now, seen |-> FALSE]]
    /\ UNCHANGED <<now, marked, named, client>>

(* ... and commits, or fails.  The event that a task then publishes is a   *)
(* message of Realtime.tla.                                                *)
SendCommit(i) ==
    /\ msg[i].state = "sending"
    /\ \/ msg' = [msg EXCEPT ![i].state = "stored"]
       \/ msg' = [msg EXCEPT ![i] = NoMessage]
    /\ UNCHANGED <<now, marked, named, client>>

(* Mutant of MarkConversationSeen: sender and receiver are swapped.        *)
MarkOwnSeen(u) ==
    /\ msg' = [i \in Ids |-> IF i \in Stored /\ msg[i].from = u THEN [msg[i] EXCEPT !.seen = TRUE] ELSE msg[i]]
    /\ marked' = marked \cup {u}
    /\ UNCHANGED <<now, named, client>>

(* POST /messages/{id}/seen: every stored message from the other user,     *)
(* fetched or not.                                                         *)
MarkConversationSeen(u) ==
    /\ msg' = [i \in Ids |-> IF i \in Stored /\ msg[i].from # u THEN [msg[i] EXCEPT !.seen = TRUE] ELSE msg[i]]
    /\ marked' = marked \cup {u}
    /\ UNCHANGED <<now, named, client>>

(* chat.seen on the WebSocket, message_repo.mark_seen: the message is      *)
(* found by its id alone; whoever sends the event, it becomes seen.        *)
MarkSeen(i) ==
    /\ i \in Stored
    /\ msg' = [msg EXCEPT ![i].seen = TRUE]
    /\ named' = named \cup {i}
    /\ UNCHANGED <<now, marked, client>>

-----------------------------------------------------------------------------
(* ORDER BY created_at DESC, id DESC *)
Position(i) == <<msg[i].at, i>>
Newer(p, q) == p[1] > q[1] \/ (p[1] = q[1] /\ p[2] > q[2])

(* Mutant of Behind: the row of the cursor itself comes again.             *)
BehindOrAt(p) == {i \in Stored : p = NoCursor \/ ~Newer(Position(i), p)}

(* Mutant of Behind: the tie-break on the id is missing.                   *)
BehindByTime(p) == {i \in Stored : p = NoCursor \/ msg[i].at < p[1]}

(* The rows behind a cursor.                                               *)
Behind(p) == {i \in Stored : p = NoCursor \/ Newer(p, Position(i))}

(* LIMIT n, and the slice of it that is a page: the rows with fewer than n *)
(* before them.                                                            *)
Before(S, i) == {j \in S : Newer(Position(j), Position(i))}
Newest(S, n) == {i \in S : Cardinality(Before(S, i)) < n}
Last(S) == CHOOSE i \in S : \A j \in S \ {i} : Newer(Position(j), Position(i))

(* A client begins a walk, with any page size.                             *)
Begin ==
    /\ walk = "idle"
    /\ walk' = "next" /\ first' \in Firsts
    /\ present' = Stored
    /\ UNCHANGED <<now, msg, marked, named, cursor, got, twice>>

(* LIMIT first + 1: the extra row says whether there is another page.      *)
HasNext(rows) == Cardinality(rows) > first

(* One page.  A page without items has no end_cursor, and the next page is *)
(* the first one again: with first = 0 the extra row says that there is    *)
(* more, with first = -1 LIMIT 0 gives no row, and 0 > -1 says so too.     *)
Fetch ==
    /\ walk = "next" /\ first + 1 >= 0
    /\ LET rows == Newest(Behind(cursor), first + 1)
           items == Newest(rows, first) IN
       /\ got' = got \cup items
       /\ twice' = (twice \/ got \cap items # {})
       /\ cursor' = IF items = {} THEN NoCursor ELSE Position(Last(items))
       /\ walk' = IF HasNext(rows) THEN "next" ELSE "done"
    /\ UNCHANGED <<now, msg, marked, named, first, present>>

(* PostgreSQL refuses a negative LIMIT: a 500, and the walk is over.       *)
LimitRefused ==
    /\ walk = "next" /\ first + 1 < 0
    /\ walk' = "refused"
    /\ UNCHANGED <<now, msg, marked, named, cursor, first, got, twice, present>>

(* The client starts over.                                                 *)
Again ==
    /\ walk \in {"done", "refused"}
    /\ walk' = "idle" /\ cursor' = NoCursor /\ first' = 0
    /\ got' = {} /\ twice' = FALSE /\ present' = {}
    /\ UNCHANGED <<now, msg, marked, named>>

Tick == now < MaxTime /\ now' = now + 1 /\ UNCHANGED <<msg, marked, named, client>>

ChatNext ==
    \/ \E i \in Ids, u \in Parties : Send(i, u)
    \/ \E i \in Ids : SendCommit(i) \/ MarkSeen(i)
    \/ \E u \in Parties : MarkConversationSeen(u)
    \/ Begin \/ Fetch \/ LimitRefused \/ Again
    \/ Tick

(* A client that has begun asks for the next page.                         *)
ChatSpec == ChatInit /\ [][ChatNext]_chatVars
ChatFairSpec == ChatSpec /\ WF_chatVars(Fetch)

-----------------------------------------------------------------------------
(* Properties. *)

(* However many messages arrive between two pages, whatever their          *)
(* timestamps and the page size, a walk to the end returns every message   *)
(* that was there when it began, and no message twice.                     *)
EveryMessageOnce ==
    /\ ~twice
    /\ walk = "done" => present \subseteq got

(* The two ways to become seen: a message is seen only after its receiver, *)
(* not its sender, has marked the conversation, or after an event has      *)
(* named this very message.  Who sends the event makes no difference.      *)
SeenWasReported == \A i \in Ids :
    msg[i].seen => i \in named \/ \E u \in marked : u # msg[i].from

(* A walk in pages of at least one message ends: the cursor only moves     *)
(* back in time.  In pages of none it begins again and again.              *)
WalkEnds == (walk = "next" /\ first > 0) ~> walk = "done"
=============================================================================
