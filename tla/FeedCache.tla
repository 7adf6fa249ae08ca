----------------------------- MODULE FeedCache -----------------------------
(***************************************************************************)
(* The ranked feeds in Redis (feed_cache.py, feed_warmer.py): GET          *)
(* /newsfeeds fills a feed from the database, a new post is pushed into    *)
(* the feeds of the author and the followers, an edited or deleted post is *)
(* removed from all feeds.  Pushing and removing are fire-and-forget tasks *)
(* started after the database transaction; each Redis pipeline is one      *)
(* MULTI/EXEC.                                                             *)
(*                                                                         *)
(* Posts are all by one author whom every member of Viewers follows.  A    *)
(* cached member is the JSON of a payload: the post, its text and the way  *)
(* it was built, because create_post formats created_at with isoformat()   *)
(* and get_feed with str(), so that the two never are the same member.     *)
(*                                                                         *)
(* A PUT or DELETE finds the row by the UUID that it parses, in whatever   *)
(* spelling the path has it, and passes the string of the path on to the   *)
(* removal, which compares it with the id in the payload, as str(UUID)     *)
(* spells it.  Another spelling changes the row and removes nothing.       *)
(***************************************************************************)
EXTENDS Integers, FiniteSets

CONSTANTS
    Viewers,        \* the author and the followers
    Posts,
    Readers,        \* GET /newsfeeds requests in flight at a time
    Limits,         \* values of the query parameter limit
    MaxFeed,        \* MAX_FEED_SIZE
    MaxEdits        \* bound: edits of a post

ASSUME NamesAssumption == "none" \notin Viewers
ASSUME SizesAssumption == Limits \subseteq Int /\ MaxFeed \in Nat \ {0} /\ MaxEdits \in Nat

VARIABLES
    state, ver,     \* state[p]: unborn, live or deleted; ver[p]: its text
    feed,           \* feed[u]: members of feed:ranked:u; the key exists when there are any
    ttl,            \* users whose key has an expiry
    fan,            \* posts whose fan-out task has not run
    rem,            \* rem[p]: removal tasks of p: id spelt as stored, keys to visit, members found
    pc, who, limit, got,   \* a reader: place, user, limit, posts read
    disturbed,      \* history: posts of which a write, a task or a fill overlapped another, or failed
    missed          \* history: posts whose last PUT or DELETE spelt the id in another way

vars == <<state, ver, feed, ttl, fan, rem, pc, who, limit, got, disturbed, missed>>

Versions == 0..MaxEdits
Members == [post : Posts, ver : Versions, by : {"create", "read"}]
Of(p, M) == {m \in M : m.post = p}
Removals == [same : BOOLEAN, todo : SUBSET Viewers, key : Viewers \cup {"none"}, found : SUBSET Members]

TypeOK ==
    /\ state \in [Posts -> {"unborn", "live", "deleted"}]
    /\ ver \in [Posts -> Versions]
    /\ feed \in [Viewers -> SUBSET Members]
    /\ \A u \in Viewers : Cardinality(feed[u]) <= MaxFeed
    /\ ttl \subseteq {u \in Viewers : feed[u] # {}}
    /\ fan \subseteq Posts
    /\ rem \in [Posts -> SUBSET Removals]
    /\ pc \in [Readers -> {"idle", "cache", "ids", "posts", "score", "set"}]
    /\ who \in [Readers -> Viewers \cup {"none"}]
    /\ limit \in [Readers -> Limits \cup {0}]
    /\ got \in [Readers -> SUBSET Members]
    /\ disturbed \subseteq Posts
    /\ missed \subseteq Posts

Init ==
    /\ state = [p \in Posts |-> "unborn"]
    /\ ver = [p \in Posts |-> 0]
    /\ feed = [u \in Viewers |-> {}]
    /\ ttl = {}
    /\ fan = {}
    /\ rem = [p \in Posts |-> {}]
    /\ pc = [r \in Readers |-> "idle"]
    /\ who = [r \in Readers |-> "none"]
    /\ limit = [r \in Readers |-> 0]
    /\ got = [r \in Readers |-> {}]
    /\ disturbed = {}
    /\ missed = {}

posts == <<state, ver, missed>>
cached == <<feed, ttl>>
tasks == <<fan, rem>>
reader == <<pc, who, limit, got>>

(* A task of p is to run, or a read of the database that may end in a      *)
(* cache fill is under way.                                                *)
InFlight(p) == p \in fan \/ rem[p] # {}
Filling(r) == pc[r] \in {"ids", "posts", "score", "set"}
Begin(p) == disturbed' = IF InFlight(p) \/ \E r \in Readers : Filling(r) THEN disturbed \cup {p} ELSE disturbed

Goto(r, l) == pc' = [pc EXCEPT ![r] = l]

(* The key of u holds M from now on; an empty sorted set is no key.        *)
Store(u, M) ==
    /\ feed' = [feed EXCEPT ![u] = M]
    /\ ttl' = IF M = {} THEN ttl \ {u} ELSE ttl

(* ZREMRANGEBYRANK 0 -(MAX_FEED_SIZE + 1): the lowest scores go.  Scores   *)
(* are clock values of different writers: which ones are lowest is open.   *)
Trimmed(M) == IF Cardinality(M) <= MaxFeed THEN {M}
              ELSE {T \in SUBSET M : Cardinality(T) = MaxFeed}

-----------------------------------------------------------------------------
(* Writers.  Whether the commit of the use case reaches the database is    *)
(* the subject of UnitOfWork.tla; here it does.                            *)

(* POST /posts: the row, then _trigger_feed_fan_out as a task.             *)
CreatePost(p) ==
    /\ state[p] = "unborn"
    /\ state' = [state EXCEPT ![p] = "live"]
    /\ fan' = fan \cup {p}
    /\ Begin(p)
    /\ UNCHANGED <<ver, missed, cached, rem, reader>>

(* remove_post_from_feeds starts: SCAN returns every key that is there the *)
(* whole time, and perhaps keys that come up meanwhile.                    *)
Removal(b, S) == [same |-> b, todo |-> S, key |-> "none", found |-> {}]
StartRemoval(p) ==
    \E same \in BOOLEAN, S \in SUBSET Viewers :
        /\ {u \in Viewers : feed[u] # {}} \subseteq S
        /\ rem' = [rem EXCEPT ![p] = @ \cup {Removal(same, S)}]
        /\ missed' = IF same THEN missed \ {p} ELSE missed \cup {p}

(* PUT and DELETE /posts/{id}: the row, then invalidate_post_everywhere.   *)
UpdatePost(p) ==
    /\ state[p] = "live" /\ ver[p] < MaxEdits
    /\ ver' = [ver EXCEPT ![p] = @ + 1]
    /\ StartRemoval(p)
    /\ Begin(p)
    /\ UNCHANGED <<state, cached, fan, reader>>

DeletePost(p) ==
    /\ state[p] = "live"
    /\ state' = [state EXCEPT ![p] = "deleted"]
    /\ StartRemoval(p)
    /\ Begin(p)
    /\ UNCHANGED <<ver, cached, fan, reader>>

(* batch_prepend_to_feeds: ZADD and trim for the author and the followers. *)
(* No EXPIRE: a key it creates has no TTL.                                 *)
Payload(p) == [post |-> p, ver |-> 0, by |-> "create"]

FanOut(p) ==
    /\ p \in fan
    /\ feed' \in [Viewers -> UNION {Trimmed(feed[u] \cup {Payload(p)}) : u \in Viewers}]
    /\ \A u \in Viewers : feed'[u] \in Trimmed(feed[u] \cup {Payload(p)})
    /\ fan' = fan \ {p}
    /\ UNCHANGED <<posts, ttl, rem, reader, disturbed>>

(* One key of the scan: ZRANGE, the members whose id is the string ...     *)
Named(t, p, M) == IF t.same THEN Of(p, M) ELSE {}

RemovalReads(p) ==
    \E t \in rem[p], u \in Viewers :
        /\ t.key = "none" /\ u \in t.todo
        /\ rem' = [rem EXCEPT ![p] = (@ \ {t}) \cup
               {[t EXCEPT !.todo = @ \ {u}, !.key = u, !.found = Named(t, p, feed[u])]}]
        /\ UNCHANGED <<posts, cached, fan, reader, disturbed>>

(* Mutant of RemovalDeletes: the feed is written again, with EXPIRE.       *)
RemovalRewrites(p) ==
    \E t \in rem[p] :
        /\ t.key # "none"
        /\ feed' = [feed EXCEPT ![t.key] = @ \ t.found]
        /\ ttl' = ttl \cup {t.key}
        /\ rem' = [rem EXCEPT ![p] = (@ \ {t}) \cup {Removal(t.same, t.todo)}]
        /\ UNCHANGED <<posts, fan, reader, disturbed>>

(* ... and then ZREM of exactly those.                                     *)
RemovalDeletes(p) ==
    \E t \in rem[p] :
        /\ t.key # "none"
        /\ Store(t.key, feed[t.key] \ t.found)
        /\ rem' = [rem EXCEPT ![p] = (@ \ {t}) \cup {Removal(t.same, t.todo)}]
        /\ UNCHANGED <<posts, fan, reader, disturbed>>

(* Mutant of RemovalEnds: the scan stops at the first page of keys.        *)
RemovalEndsEarly(p) ==
    \E t \in rem[p] :
        /\ t.key = "none"
        /\ rem' = [rem EXCEPT ![p] = @ \ {t}]
        /\ UNCHANGED <<posts, cached, fan, reader, disturbed>>

RemovalEnds(p) ==
    \E t \in rem[p] :
        /\ t.key = "none" /\ t.todo = {}
        /\ rem' = [rem EXCEPT ![p] = @ \ {t}]
        /\ UNCHANGED <<posts, cached, fan, reader, disturbed>>

(* Redis is unreachable, or the process ends: the task is lost.            *)
LoseTask(p) ==
    /\ \/ p \in fan /\ fan' = fan \ {p} /\ rem' = rem
       \/ rem[p] # {} /\ rem' = [rem EXCEPT ![p] = {}] /\ fan' = fan
    /\ disturbed' = disturbed \cup {p}
    /\ UNCHANGED <<posts, cached, reader>>

-----------------------------------------------------------------------------
(* Readers: get_feed in mode "ranked". *)

Request(r) ==
    /\ pc[r] = "idle"
    /\ \E u \in Viewers, n \in Limits : who' = [who EXCEPT ![r] = u] /\ limit' = [limit EXCEPT ![r] = n]
    /\ Goto(r, "cache")
    /\ UNCHANGED <<posts, cached, tasks, got, disturbed>>

Answer(r) ==
    /\ Goto(r, "idle")
    /\ who' = [who EXCEPT ![r] = "none"]
    /\ limit' = [limit EXCEPT ![r] = 0]
    /\ got' = [got EXCEPT ![r] = {}]

(* Only limits up to 20 are looked up; get_ranked_feed gives None for an   *)
(* absent key and for any Redis error.                                     *)
LookUp(r) ==
    /\ pc[r] = "cache"
    /\ \/ limit[r] <= 20 /\ feed[who[r]] # {} /\ Answer(r) /\ disturbed' = disturbed
       \/ Goto(r, "ids") /\ UNCHANGED <<who, limit, got>> /\ disturbed' = disturbed \cup {p \in Posts : InFlight(p)}
    /\ UNCHANGED <<posts, cached, tasks>>

(* Mutant of ReadIds: is_published is not looked at.                       *)
ReadIdsUnfiltered(r) ==
    /\ pc[r] = "ids"
    /\ got' = [got EXCEPT ![r] = {[post |-> p, ver |-> ver[p], by |-> "read"] :
                                    p \in {q \in Posts : state[q] # "unborn"}}]
    /\ Goto(r, "posts")
    /\ UNCHANGED <<posts, cached, tasks, who, limit, disturbed>>

(* execute_ranked: get_feed_post_ids takes up to 3 * limit published ids.  *)
ReadIds(r) ==
    /\ pc[r] = "ids"
    /\ got' = [got EXCEPT ![r] = {[post |-> p, ver |-> ver[p], by |-> "read"] :
                                    p \in {q \in Posts : state[q] = "live"}}]
    /\ Goto(r, "posts")
    /\ UNCHANGED <<posts, cached, tasks, who, limit, disturbed>>

(* get_feed_posts selects those ids again, published or not.               *)
ReadPosts(r) ==
    /\ pc[r] = "posts"
    /\ \/ got[r] = {} /\ Answer(r)
       \/ /\ got[r] # {}
          /\ got' = [got EXCEPT ![r] = {[m EXCEPT !.ver = ver[m.post]] : m \in got[r]}]
          /\ Goto(r, "score")
          /\ UNCHANGED <<who, limit>>
    /\ UNCHANGED <<posts, cached, tasks, disturbed>>

(* min(max(limit, 1), 50) *)
Clamp(n) == IF n < 1 THEN 1 ELSE IF n > 50 THEN 50 ELSE n

(* scored[:limit]: the best n posts, or all; which ones is open here.      *)
Best(M, n) == {T \in SUBSET M : Cardinality(T) = n \/ (T = M /\ Cardinality(M) < n)}

(* FeedScorer.score_posts subtracts created_at from a naive utcnow(): a    *)
(* TypeError for the aware values that the driver gives for a timestamptz  *)
(* column, a 500 whenever there is a post.  With naive ones the best       *)
(* `limit` posts remain.                                                   *)
Score(r) ==
    /\ pc[r] = "score"
    /\ \/ Answer(r)
       \/ /\ \E T \in Best(got[r], Clamp(limit[r])) : got' = [got EXCEPT ![r] = T]
          /\ Goto(r, "set")
          /\ UNCHANGED <<who, limit>>
    /\ UNCHANGED <<posts, cached, tasks, disturbed>>

(* set_ranked_feed: DEL, ZADD, trim, EXPIRE in one pipeline; errors are    *)
(* logged.                                                                 *)
SetFeed(r) ==
    /\ pc[r] = "set"
    /\ \/ /\ \E T \in Trimmed(got[r]) : feed' = [feed EXCEPT ![who[r]] = T]
          /\ ttl' = ttl \cup {who[r]}
       \/ UNCHANGED cached
    /\ Answer(r)
    /\ UNCHANGED <<posts, tasks, disturbed>>

(* The TTL runs out, or the user's keys are dropped by invalidate().       *)
Expire(u) ==
    /\ u \in ttl
    /\ Store(u, {})
    /\ UNCHANGED <<posts, tasks, reader, disturbed>>

TaskStep(p) == FanOut(p) \/ RemovalReads(p) \/ RemovalDeletes(p) \/ RemovalEnds(p)
ReadStep(r) == LookUp(r) \/ ReadIds(r) \/ ReadPosts(r) \/ Score(r) \/ SetFeed(r)

Next ==
    \/ \E p \in Posts : CreatePost(p) \/ UpdatePost(p) \/ DeletePost(p) \/ TaskStep(p) \/ LoseTask(p)
    \/ \E r \in Readers : Request(r) \/ ReadStep(r)
    \/ \E u \in Viewers : Expire(u)

(* Tasks and requests that have begun are resumed by the event loop, and   *)
(* Redis expires keys.  Nothing makes users write or read.                 *)
Spec == Init /\ [][Next]_vars
FairSpec == Spec /\ \A p \in Posts : WF_vars(TaskStep(p))
                 /\ \A r \in Readers : WF_vars(ReadStep(r))
                 /\ \A u \in Viewers : WF_vars(Expire(u))

-----------------------------------------------------------------------------
(* Properties. *)

(* A post that was never edited, deleted or pushed while another of its    *)
(* tasks or a cache fill was under way, and lost no task, is in no feed    *)
(* twice, whatever happens to the other posts; and unless its last PUT or  *)
(* DELETE spelt the id in another way, a feed shows it only as it is now,  *)
(* and not once it is deleted.                                             *)
ExactWhenQuiet == \A p \in Posts \ disturbed, u \in Viewers :
    ~InFlight(p) =>
        /\ \A m, n \in Of(p, feed[u]) : m = n
        /\ p \notin missed => \A m \in Of(p, feed[u]) : state[p] = "live" /\ m.ver = ver[p]

(* A deleted post leaves every feed that has a TTL for good, even when the *)
(* removal was lost or overtaken by a late fill or a late fan-out.  (A     *)
(* feed that a fan-out has created has none, and keeps it.)                *)
DeletedFades == \A p \in Posts :
    state[p] = "deleted" ~> [](\A u \in ttl : Of(p, feed[u]) = {})
=============================================================================
