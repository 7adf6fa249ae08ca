----------------------------- MODULE CacheAside -----------------------------
(***************************************************************************)
(* The read-through cache (redis_cache.py, cache_service.py) and the       *)
(* requests that read and write what it holds: a post with its counters,   *)
(* a profile with the display name, and a user's count of unread           *)
(* notifications.  A read that misses selects from the database and then   *)
(* stores what it has got under the TTL of the key; a write commits and    *)
(* then deletes the key.  Redis errors are logged and otherwise ignored.   *)
(* Likes, reactions, comments and shares also start a task that notifies   *)
(* the author of the post.                                                 *)
(*                                                                         *)
(* A value is the number of committed changes it reflects.  One post, one  *)
(* profile and one receiver of notifications stand for all.                *)
(*                                                                         *)
(* The rows are found by a parsed UUID, but a key is built from the id as  *)
(* it is written in the request (keys.py).  There is one entry for each    *)
(* way of writing an id, and a writer deletes the one of its own request.  *)
(***************************************************************************)
EXTENDS Integers, FiniteSets

CONSTANTS
    Requests,       \* requests in flight at a time
    Writings,       \* ways to write an id; "str" is the one of str(UUID), as in a token
    MaxVersion,     \* bound: changes of all rows together
    MaxTasks,       \* bound: notification tasks waiting to run
    MaxCached       \* bound: entries in Redis at a time

ASSUME BoundsAssumption == MaxVersion \in Nat /\ MaxTasks \in Nat
ASSUME WritingsAssumption == "str" \in Writings

VARIABLES
    db,         \* db[x]: the committed value of row x
    cache, ttl, \* cache[k]: the entry, or Absent; ttl: the keys with an expiry
    pc, key,    \* a request: its place and its key
    val,        \* val[r]: the value r has read, not yet stored
    then,       \* then[r]: what the route of a writer will do after its commit
    tasks,      \* notification tasks that have not run
    passed      \* history: keys that a change has passed by, see PassedBy, and
                \* keys whose DEL has failed, until the entry is gone

vars == <<db, cache, ttl, pc, key, val, then, tasks, passed>>

Rows == {"post", "profile", "unread"}
Keys == Rows \X Writings
Share == <<"share", "str">>         \* shares are not cached
Versions == 0..MaxVersion
Absent == -1
None == <<"none", "str">>

Cached == {k \in Keys : cache[k] # Absent}

TypeOK ==
    /\ db \in [Rows -> Versions]
    /\ cache \in [Keys -> Versions \cup {Absent}]
    /\ ttl \subseteq Cached
    /\ pc \in [Requests -> {"idle", "get", "load", "set", "commit", "delete"}]
    /\ key \in [Requests -> Keys \cup {Share, None}]
    /\ val \in [Requests -> Versions \cup {Absent}]
    /\ then \in [Requests -> SUBSET {"delete", "notify"}]
    /\ tasks \in 0..MaxTasks
    /\ passed \subseteq Keys
    /\ \A r \in Requests : pc[r] \in {"get", "load", "set", "delete"} => key[r] \in Keys
    /\ \A r \in Requests : pc[r] = "set" => val[r] \in Versions

Init ==
    /\ db = [x \in Rows |-> 0]
    /\ cache = [k \in Keys |-> Absent] /\ ttl = {}
    /\ pc = [r \in Requests |-> "idle"] /\ key = [r \in Requests |-> None]
    /\ val = [r \in Requests |-> Absent]
    /\ then = [r \in Requests |-> {}]
    /\ tasks = 0
    /\ passed = {}

entries == <<cache, ttl>>
request == <<pc, key, val, then>>

Goto(r, l) == pc' = [pc EXCEPT ![r] = l] /\ UNCHANGED <<key, then>>
Answer(r) ==
    /\ pc' = [pc EXCEPT ![r] = "idle"]
    /\ key' = [key EXCEPT ![r] = None]
    /\ val' = [val EXCEPT ![r] = Absent]
    /\ then' = [then EXCEPT ![r] = {}]

Filling(k) == \E r \in Requests : key[r] = k /\ pc[r] = "set"
Changing(k) == \E r \in Requests : key[r] = k /\ pc[r] = "delete"

(* A change of row x passes by a fill that has selected, and by an entry   *)
(* unless its key is in D, the keys that the writer will delete.           *)
PassedBy(x, D) == {k \in Keys : k[1] = x /\ (Filling(k) \/ (cache[k] # Absent /\ k \notin D))}
Gone(k) == passed' = IF Filling(k) THEN passed ELSE passed \ {k}

-----------------------------------------------------------------------------
(* RedisCache: an entry always has a TTL; a deleted key is gone.           *)
Drop(k) == cache' = [cache EXCEPT ![k] = Absent] /\ ttl' = ttl \ {k}

(* Mutant of Setex: SET without EX.                                        *)
SetForever(k, v) == cache' = [cache EXCEPT ![k] = v] /\ ttl' = ttl \ {k}

Setex(k, v) == cache' = [cache EXCEPT ![k] = v] /\ ttl' = ttl \cup {k}

Expire(k) ==
    /\ k \in ttl
    /\ Drop(k) /\ Gone(k)
    /\ UNCHANGED <<db, request, tasks>>

-----------------------------------------------------------------------------
(* Readers. *)

Read(r, k) ==
    /\ pc[r] = "idle"
    /\ pc' = [pc EXCEPT ![r] = "get"]
    /\ key' = [key EXCEPT ![r] = k]
    /\ UNCHANGED <<db, entries, val, then, tasks, passed>>

GetPost(r) == \E w \in Writings : Read(r, <<"post", w>>)
GetUserProfile(r) == \E w \in Writings : Read(r, <<"profile", w>>)
ProfileQuery(r) == \E w \in Writings : Read(r, <<"profile", w>>)       \* GraphQL
GetUnreadCount(r) == Read(r, <<"unread", "str">>)

(* get: a hit is the answer; None for an absent key and for any error.     *)
Get(r) ==
    /\ pc[r] = "get"
    /\ \/ cache[key[r]] # Absent /\ Answer(r)
       \/ Goto(r, "load") /\ val' = val
    /\ UNCHANGED <<db, entries, tasks, passed>>

(* The SELECT; without a row the answer is 404 and nothing is stored.      *)
Load(r) ==
    /\ pc[r] = "load"
    /\ \/ val' = [val EXCEPT ![r] = db[key[r][1]]] /\ Goto(r, "set")
       \/ Answer(r)
    /\ UNCHANGED <<db, entries, tasks, passed>>

(* set, unless Redis fails.                                                *)
Set(r) ==
    /\ pc[r] = "set"
    /\ \/ Cardinality(Cached \ {key[r]}) < MaxCached /\ Setex(key[r], val[r])
       \/ UNCHANGED entries
    /\ Answer(r)
    /\ UNCHANGED <<db, tasks, passed>>

-----------------------------------------------------------------------------
(* Writers: the key whose value they change, and what follows the commit.  *)

Write(r, k, after) ==
    /\ pc[r] = "idle"
    /\ pc' = [pc EXCEPT ![r] = "commit"]
    /\ key' = [key EXCEPT ![r] = k]
    /\ then' = [then EXCEPT ![r] = after]
    /\ UNCHANGED <<db, entries, val, tasks, passed>>

WritePost(r, after) == \E w \in Writings : Write(r, <<"post", w>>, after)

UpdatePost(r) == WritePost(r, {"delete"})
DeletePost(r) == WritePost(r, {"delete"})
LikePost(r) == WritePost(r, {"notify", "delete"})
UnlikePost(r) == WritePost(r, {"delete"})
ReactToPost(r) == WritePost(r, {"notify", "delete"})
RemoveReaction(r) == WritePost(r, {"delete"})
CreateComment(r) == WritePost(r, {"notify"})            \* comment_count changes
DeleteComment(r) == WritePost(r, {})
SharePost(r) == Write(r, Share, {"notify"})

(* Only the user of the token: the id is the one in the token.             *)
UpdateUserProfile(r) == Write(r, <<"profile", "str">>, {"delete"})
UploadUserAvatar(r) == Write(r, <<"profile", "str">>, {"delete"})
EditUser(r) == Write(r, <<"profile", "str">>, {})       \* display_name changes
MarkNotificationRead(r) == Write(r, <<"unread", "str">>, {"delete"})
MarkAllRead(r) == Write(r, <<"unread", "str">>, {"delete"})

(* The row x changes, or the statement changes nothing; D: keys that the   *)
(* writer will delete.                                                     *)
Change(x, D) ==
    \/ /\ x \in Rows /\ db["post"] + db["profile"] + db["unread"] < MaxVersion
       /\ db' = [db EXCEPT ![x] = @ + 1]
       /\ passed' = passed \cup PassedBy(x, D)
    \/ UNCHANGED <<db, passed>>

Deletes(r) == IF "delete" \in then[r] THEN {key[r]} ELSE {}

(* The use case commits, then asyncio.create_task(_notify_...) without a   *)
(* pause, then the invalidation or the answer.  Errors (403, 404, 409, a   *)
(* failed commit) end the request; when the answer to COMMIT is what is    *)
(* lost, the row has changed all the same.                                 *)
Commit(r) ==
    /\ pc[r] = "commit"
    /\ \/ /\ Change(key[r][1], Deletes(r))
          /\ IF "notify" \in then[r] THEN tasks < MaxTasks /\ tasks' = tasks + 1 ELSE tasks' = tasks
          /\ \/ /\ "delete" \in then[r]
                /\ pc' = [pc EXCEPT ![r] = "delete"] /\ then' = [then EXCEPT ![r] = {}]
                /\ UNCHANGED <<key, val>>
             \/ "delete" \notin then[r] /\ Answer(r)
       \/ Change(key[r][1], {}) /\ Answer(r) /\ tasks' = tasks
    /\ UNCHANGED entries

(* Mutant of Delete: the key of another entry is deleted.                  *)
DeleteOther(r) ==
    /\ pc[r] = "delete"
    /\ \E k \in Keys \ {key[r]} : Drop(k) /\ Gone(k)
    /\ Answer(r)
    /\ UNCHANGED <<db, tasks>>

(* invalidate_post and its siblings; an error of Redis is swallowed.       *)
Delete(r) ==
    /\ pc[r] = "delete"
    /\ \/ Drop(key[r]) /\ Gone(key[r])
       \/ UNCHANGED entries /\ passed' = passed \cup {key[r]}
    /\ Answer(r)
    /\ UNCHANGED <<db, tasks>>

(* notify_like and its siblings: nothing for one's own post and after an   *)
(* error (as the code stands, NotificationModel does not take the argument *)
(* id, so that this is always the case); otherwise one more unread row.    *)
(* The cached count is not touched.                                        *)
NewNotification == Change("unread", {})

(* The task _notify_like and its siblings: also nothing for an unknown     *)
(* post.                                                                   *)
Notify ==
    /\ tasks > 0
    /\ tasks' = tasks - 1
    /\ NewNotification
    /\ UNCHANGED <<entries, request>>

Step(r) == Get(r) \/ Load(r) \/ Set(r) \/ Commit(r) \/ Delete(r)

Next ==
    \/ \E r \in Requests :
          \/ GetPost(r) \/ GetUserProfile(r) \/ ProfileQuery(r) \/ GetUnreadCount(r)
          \/ UpdatePost(r) \/ DeletePost(r) \/ LikePost(r) \/ UnlikePost(r) \/ ReactToPost(r)
          \/ RemoveReaction(r) \/ CreateComment(r) \/ DeleteComment(r) \/ SharePost(r)
          \/ UpdateUserProfile(r) \/ UploadUserAvatar(r) \/ EditUser(r)
          \/ MarkNotificationRead(r) \/ MarkAllRead(r)
          \/ Step(r)
    \/ Notify
    \/ \E k \in Keys : Expire(k)

(* The event loop resumes what has begun, and Redis expires keys.          *)
Spec == Init /\ [][Next]_vars
FairSpec == Spec /\ \A r \in Requests : WF_vars(Step(r))
                 /\ WF_vars(Notify)
                 /\ \A k \in Keys : WF_vars(Expire(k))

-----------------------------------------------------------------------------
(* Properties. *)

Fresh(k) == cache[k] \in {Absent, db[k[1]]}

(* Commit first and delete second is enough for an entry that no change    *)
(* has passed by: that no fill had selected its value before, that was     *)
(* made under the same writing of the id by a route that deletes, and      *)
(* whose DEL has worked.  Once such a change has been answered the entry   *)
(* is the committed value or absent.                                       *)
FreshWithoutOverlap == \A k \in Keys \ passed : Changing(k) \/ Fresh(k)

(* A late fill can store an old value after the delete, some changes       *)
(* delete nothing, and others delete the entry of another writing; but     *)
(* once a value no longer changes, all its entries become and stay fresh,  *)
(* because every entry has a TTL.                                          *)
EventuallyFresh == \A k \in Keys : <>[]Fresh(k)
=============================================================================
