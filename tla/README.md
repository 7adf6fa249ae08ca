# A TLA+ model of the fb backend

This directory holds a verification development for the backend under `src/src/fb`: a FastAPI
application (REST, read-only GraphQL, WebSocket) over PostgreSQL, reached through async SQLAlchemy at
READ COMMITTED, and Redis, which serves as cache, pub/sub channel, token blacklist and rate-limit
counter. The modules model the state changes of the program, TLC checks them on small instances, and
TLAPS proves every safety property that the code keeps for every value of the constants.

To run it: `tlc -workers 2 -config X.cfg M` for the pairs of module and configuration listed in
`PROJECT.json`, and `tlapm M.tla` for the modules whose name ends in `Proofs`.

## Inventory

| Component | State | Operations | Interacts with | Hard part |
|---|---|---|---|---|
| Unit of work, pool (`infrastructure/database`) | the session of a unit of work, connections of the pool | enter, statement, commit, rollback, exit | every use case | a second enter, exceptions anywhere, pool at its limit |
| Friend requests (`application/friend`) | `friend_requests`, `friendships` | send, accept, reject, unfriend | unit of work | check-then-write races, lock waits |
| Interactions (`application/post`) | `reactions`, `likes`, `comments`, `shares`, counts on `posts` | react, replace, remove, like, unlike, comment, share | unit of work, notifications, cache | lost updates, lock order |
| Realtime (`infrastructure/realtime`, `presentation/ws`) | registry of connections, Redis channels, one listener task | connect, forward, leave, deliver, prune, drain | Redis, follow graph | awaits inside a loop over shared state |
| Tokens (`application/auth`, `infrastructure/auth`) | blacklist entries with TTL; otherwise stateless | login, refresh, logout, authenticate | Redis, every route | check before decode, expiry at the boundary, two writes |
| Accounts, profiles (`register`, `edit_user`, `application/profile`) | `users`, `profiles` | register, edit, update profile, upload avatar | unit of work, storage, cache | uniqueness under concurrency, read-modify-write without locks |
| Follow graph (`application/follow`) | `follows` | follow, unfollow | unit of work, presence, feed | duplicates under concurrency |
| Feed and feed cache (`feed_cache.py`, `feed_warmer.py`) | one sorted set per user in Redis | read, fill, fan-out, remove | posts, follow graph | tasks that race fills, keys with and without a TTL |
| Read-through cache (`cache_service.py`) | JSON values with TTL in Redis | get, fill, invalidate | profiles, posts, unread count | a stale value written back |
| Rate limiter (`middleware/rate_limiter.py`) | counters with TTL in Redis | count, refuse, fail open | every route | window boundary, INCR without EXPIRE |
| Media (`application/media`, `infrastructure/storage`) | `media` rows, files | upload, delete, process image or video, stream | storage, codecs | no transaction spans files and rows; one step of several fails |
| Chat (`messages.py`, `message_repo.py`) | `messages` | send, page, mark seen | realtime | commits out of timestamp order between two pages |
| Notifications (`notification_repo.py`) | `notifications`, a cached count | notify in a task, mark read, count | realtime, cache | a count nobody invalidates |
| Search, metrics, migrations, deployment, read-only GraphQL queries | none of their own | reads, I/O | | not modelled |

What makes each part correct, in one line: a request that is answered "ok" is stored and one that fails
stores nothing; friendships are symmetric and were asked for; a count is the number of its rows; every
working connection is reachable and every broken one leaves; a token that was revoked stays revoked; a
cache converges to what it caches; a limit limits; a record names files that exist; a walk through a
conversation misses nothing; no two rows share a unique key and an edit changes what it names.

## Modules

| Module | Models |
|---|---|
| `AtomicUoW` | what a unit of work promises: a request commits everything at once or fails |
| `UnitOfWork` | sessions, pool and handlers that enter a unit of work once (flat) or twice (nested) |
| `FriendGraph` | the four use cases of `application/friend`, statement by statement |
| `Reactions` | react, replace, remove, like, comment, edit and delete on one post |
| `Realtime` | WebSocket handlers, the registry and the listener of one server process |
| `Tokens` | login, refresh, logout and authenticated requests over a clock |
| `RateLimiter` | the middleware that counts requests in fixed windows |
| `FeedCache` | the ranked feeds in Redis: fills, fan-out, removal, expiry |
| `CacheAside` | the cached post, profile and unread count with all their readers and writers |
| `Media` | upload, delete, the two pipelines, range requests, over a file store and a table |
| `Chat` | sending, paging with a cursor and marking seen between two users |
| `Accounts` | registration, account and profile edits, avatars, follow and unfollow, statement by statement |
| `MC*` | the instances TLC checks: model values, sets, symmetry |
| `RequestProofs` | theorems and proofs of `UnitOfWork` and `RateLimiter`, which every request passes through |
| `RedisProofs` | those of `CacheAside` and `Tokens`, which keep values with a TTL in Redis |
| `MessagingProofs` | those of `Realtime` and `Chat`, which connect users |
| `FriendGraphProofs`, `ReactionsProofs`, `FeedCacheProofs`, `MediaProofs`, `AccountsProofs` | those of the module in their name |

`UnitOfWork` is the composition point of the database use cases: it says which of their commits reach the
database. The modules of the single use cases take the commit to work. `CacheAside` composes the routes
that share a cached entry, the notification tasks they start and the cache; `FeedCache` composes posts,
their background tasks and the readers; `Realtime` composes handlers, registry and listener.

Operators whose comment starts with "Mutant of" are faulty versions of the definition that follows them;
no specification uses them. `PROJECT.json` pairs each property with one, and the property must fail when
the mutant takes the place of the original.

### UnitOfWork

`uow[r]` is `SqlAlchemyUnitOfWork._session`, `repo[r]` the session the repositories were built on,
`pend` what was flushed and not committed, `conn` the sessions that hold a connection, `store` what is
committed. `Enter`, `Bind`, `InnerEnter` follow the handlers (`async with uow`, repositories on
`uow.session`) and the use cases that enter the same unit of work again (register, edit user, profile,
friend, follow and post use cases). `Raise`, `RaiseIn` and `PoolTimeout` let an exception start at every
statement, or, in a nested use case that checks its arguments first (`follow_user.py:22`), before the second
enter. A commit whose reply is lost is `Commit` followed by `Raise`. `Collect` (external) returns the connection of an abandoned session when Python collects it.

The second `__aenter__` overwrites `_session`, so `commit()` works on a session in which nothing was
written. `OkMeansDurable` fails (run `uow_nested`), and `NestedNeverStored`, which is proved, says that
this is not a race: no execution of a nested request stores anything. For flat requests the model
implements `AtomicUoW`, which is checked by TLC and proved.

### FriendGraph

A row of `friend_requests` is named by its unique (sender, receiver) pair. `wreq`, `ins` and `del` are
what a transaction has written and not committed; a statement that needs such a row or key waits
(`RequestLocked`, `FriendshipLocked`, `FriendshipDeleting`, external: PostgreSQL), and the
`command_timeout` of `session.py` ends a wait (`StatementTimeout`). `update_request` selects the row
again and flushes only a difference, because nothing keeps the first instance in SQLAlchemy's weak
identity map. The module takes the repositories to share the session that is committed, as the unit
tests of the use cases do; `UnitOfWork` describes what the handlers' wiring does to that.

### Reactions

`post` is the committed row with `like_count`, text and `is_published`; `row[u]` is the reaction of a user.
`ent[p]` is the Post entity a handler has read and changed, `cols[p]` the columns in which it differs from
the row that `post_repo.update` selects again, `ins` and `del` what the open transaction has written. The
count is an absolute value computed from the first read, and every other column of the entity is
written back in the same way if it differs. `WaitsFor` is the wait-for relation of the row locks and unique keys.
`StartAuthor` and the `Author*` actions are update and delete of a post (a delete unpublishes it).
`LikeSave` and `CommentSave` raise, because the models' `id` is `init=False` and the repositories pass it, so
that `UnlikeFind` and `CommentFind` find nothing. `overlap` and `overtaken` are history: two requests at a
time, and a change of the post between the two reads of a handler.

### Realtime

`reg` is `ConnectionManager._connections`, `hpc[s]` the handler task of a socket, `lst`, `cur`, `orig`,
`visited`, `dead` the listener inside `send_to_user`. All tasks share one event loop and interleave at
awaits. `SendNext` may take for ever, because `send_json` has no timeout and a peer need not read, and it may
raise on a connection that works: the code takes any exception for a dead peer, and `raised` (history)
remembers which. `SetChanged` (external) is CPython's size check of a set under iteration. `Stop` and `Drain` are
the shutdown of `main.py`.

### Tokens

A token is its payload (user, type, second of issue) in a spelling: the last base64url character of a
signature has unused bits, so that several strings decode to one payload, and the service issues one of
them. There is no token id. `black` holds strings with the second their TTL ends; `Tick` is the clock and drops ended entries. Each handler checks the
blacklist, then decodes, as separate steps; logout writes its two entries as separate steps, and `Fail`
can come between them. Any spelling (`Spelt`) of an issued token may be presented, in the header and in the
body; a string that is no spelling of one fails to decode without an effect. The blacklist is a list
of strings: the entry of one spelling says nothing of another, and the properties are about the string
that a logout has named. `MaxEntries` bounds the logouts that have written an entry. The WebSocket and GraphQL entrances make the same two checks in the same order and
are instances of `request`.

### RateLimiter

`count[k]` and `expiry[k]` are the Redis key of a bucket and a window. `Dispatch` reads the clock and names
the key, `Incr`, `Expire` and `Decide` are the two commands and the comparison, `FailOpen` is the `except`
around them, `Leave` the answer. `passed`, `taken` and `dropped` are history. Nothing decodes the string
after `Bearer `, so `Bearers` are any strings, and `Identifier` keeps what `token[:32]` does: `Prefix` maps
a string to its first 32 characters, which lie inside the JWT header for the tokens of the server, so that
all of them share one bucket, and may be anything for other strings.

### FeedCache

Posts of one author; `state` and `ver` are the committed post, `feed[u]` the members of `feed:ranked:u`,
`ttl` the users whose key has an expiry. `CreatePost`, `UpdatePost`, `DeletePost` are the routes; they
start the tasks `fan` and `rem`. `FanOut` is the batch prepend with its trim; `RemovalReads`,
`RemovalDeletes`, `RemovalEnds` walk over the keys (SCAN, ZRANGE, ZREM). A reader goes through `Request`,
`LookUp`, `ReadIds`, `ReadPosts`, `Score`, `SetFeed`. `LoseTask` is an error in a task, which nobody
retries; `Expire` is Redis. A removal looks for the id as the path of the request spells it, while feeds
hold the canonical form and the row is found by the parsed UUID; `same` of a removal says whether the two
are equal, and a removal with another spelling finds nothing (`Named`). `missed` records the posts whose
last PUT or DELETE was one of those, `disturbed` those of which two tasks, or a task and a fill, overlapped, or a
task failed. A member remembers how its payload was built, because the two ways never give the same JSON.

`Score` may raise: `score_posts` subtracts `created_at` from a naive `utcnow()`, which is a `TypeError` for
the aware values of a `timestamptz` column. In the program as it stands it does so whenever there is a
post, so that no feed is ever filled from the database; the model has both outcomes, and the properties
hold with and without fills.

### CacheAside

`db[x]` counts the committed changes of row `x`. A key is a row and a writing of its id (`Writings`): keys are
built from the raw id of the request, rows are found by the parsed UUID. Readers of posts and profiles, and
writers of posts, may use any writing; the unread count and the writers of profiles use the one of the
token (`users.py:103` compares it). `cache[k]` is the entry, `ttl` the keys with an expiry. One action per
route starts a request (`GetPost`, `UpdatePost`, `LikePost`, `EditUser`, ...) with what it does after its
commit in `then` (`delete`, `notify`); `Step` takes the steps get, load, set, commit, delete. The task of a
notification is created in the step of the commit, because there is no await between them; `Notify` runs it and
deletes no entry, as in the code. `Commit` may fail with the row changed, when only its reply is lost.
`passed` collects the keys that a change has passed by: those under a fill that has selected already,
those of an entry that the writer will not delete (another writing, or a route that deletes nothing), and
those whose DEL failed; it ends with the entry.

### Media

`store` holds the files, `row` the committed records, `lock` and `tx` the row locks and uncommitted
versions, `pc` and `job` the requests and pipelines. The storage is S3, a directory with its subfolders, or
one without them, in which a put into a subfolder fails. `Upload` (put, save), `Delete` (unlink, drop),
`Process` (mark, convert or probe and frame, put, ready or fail, commit) and `Stream` (chunk by chunk)
follow the use cases; `PostUpload` and `PostDelete` are the files of posts, which have no record.
`DatabaseFails` and the failing branches of the puts can come at every statement, `Crash` ends the process
with everything in flight. `taken` records the files for which a delete was sent. The use cases commit once,
after the last step, so that `processing` is written but never committed: `HalfDoneHidden` says so, and
that this differs from the documents is listed below.

### Chat

`msg[i]` has sender, timestamp, state and seen flag. `Send` begins a transaction and takes its timestamp,
`SendCommit` makes it visible. `Begin`, `Fetch` and `Again` are a client that walks through the
conversation with `cursor`; `Behind` is the WHERE of the SELECT, `Newest(S, n)` its ORDER BY and LIMIT: the rows
that fewer than n others come before. A page asks for `first` + 1 rows and keeps the newest `first`
of them; `Last` is the row the next cursor names. The route takes any integer for `first`: with 0 there is
a next page but no item and no cursor, with -1 PostgreSQL's LIMIT 0 has the same effect, and below that
the statement is refused (`LimitRefused`).
Two statements set `is_seen`: `MarkConversationSeen` is one UPDATE for a user and the other party,
`MarkSeen` is `chat.seen` of the WebSocket, which names a message and is not asked who its receiver is.
`twice`, `present`, `marked` and `named` are history.

### Accounts

`count[k]` is the number of committed rows with unique key `k`; `col` the columns of one user's two rows,
where `password` also stands for the birthday, which is edited in the same way, and `bio` for location and
website. A display name is the pair of names it was made of; `update_profile_fields` computes it from both in
every `PUT /users`, whatever the request names (`Edited`).
`todo`, `ins`, `del`, `new` and `writes` are what a request still has to insert and what its open
transaction has written. `CheckEmail`, `CheckName`, `CheckFollowing` look first; `Insert` enters the row into
its indexes one by one and waits for other transactions (`Blocked`, external); `Find` and `Reread` are the
two SELECTs of an edit, the second inside the repository's `update`, and `Update` writes the columns that
differ. `Fail` is an exception at any place. `overtaken` records that another request changed the row
between the two reads, `late` that it did so after the second, and `torn` that the last commit that wrote a
name or the display name was by a late request.

## Runs

| Run | Instance | Shows |
|---|---|---|
| `uow_mixed` | one flat, two nested requests, two rows, two connections | atomicity, durability, no leak, refinement, an answer for everyone |
| `uow_nested` (violation) | the same | `OkMeansDurable` fails for nested requests |
| `friend_graph` | two users, two handlers | symmetry, friends were asked, atomic accept, decisions stand, every operation ends although crossed accepts deadlock |
| `reactions` | two handlers, two users, two types, 3 new rows | no deadlock, a replacement is never a loss, an exact count without overlap, a request changes other columns of the post only when overtaken |
| `realtime` | a user with two tabs, a follower, 1 forward | the registry is exact and broken connections leave, also while the listener stalls |
| `tokens` | one user, two handlers, 2 seconds, two spellings, one logout with entries at a time | a revoked string stays out, revocations are not lifted |
| `ratelimiter` | one address, two bearers with one prefix, two requests, windows of 2 s, limits 1, clock to 3, 2 INCRs a key | at most the limit passes in a window, nobody is refused early, counters get a deadline |
| `feed` | author and follower, one post with one edit, one reader, limits 1 and 21, feeds of 2 | a post whose tasks overlap nothing is shown exactly, deleted posts fade from feeds with a TTL |
| `media` | one id, two workers, two pipeline runs, 3 bytes in chunks of 2 | addresses resolve, no half-done conversion is seen, every request and pipeline ends |
| `cache` | two requests, two writings of an id, one change, one task, one entry at a time | an entry no change has passed by is fresh, and finally all are |
| `chat` | two users, three messages, page sizes -2, 0 and 1, two timestamps | a walk returns every message once, it ends in pages of at least one, a seen message was reported |
| `accounts` | two requests, two addresses, one name, one pair, two values, bodies that name one column | one row per unique key, no circular wait, an edit undoes nothing it has not been overtaken by, the display name follows the names |

### Disagreements without a run

What was met while modelling, is kept in the models as the code does it, and has no run of its own:

- Friends: an accept and a reject of one request can both commit, because both read "pending" first
  (`accept_request.py:34`); two users can have crossed pending requests (`send_request.py:41`).
- Reactions: overlapping requests make `like_count` drift from the number of reactions (`entities.py:31`;
  `docs/DATABASE.md:199`). No like, comment, message or notification can be saved, because the repositories
  pass `id` to models whose `id` is `init=False` (for example `like_repo.py:29`).
- Posts: `post_repo.update` writes all columns of the entity, so that a reaction which has read a post before
  its deletion and selects it again afterwards publishes it once more (`post_repo.py:60`), and an edit
  can take back a count.
- Ids in paths: `EntityId.from_str` takes every spelling of a UUID (`entity_id.py:17`), and the raw string goes
  on into cache keys (`keys.py:28`), into the removal from feeds (`posts.py:308`, `posts.py:343`) and its
  comparison (`feed_cache.py:169`). A PUT or DELETE with another spelling commits and leaves the cached
  post and the feeds as they are, with no other request about.
- Realtime: a tab that comes or goes during a delivery changes the set under iteration and ends the
  listener (`connection_manager.py:40`, `pubsub.py:66`). `user.offline` is published when any connection of
  a user ends (`handler.py:74`), while `docs/WEBSOCKET.md:444` says only with the last one. A send has no
  timeout (`connection_manager.py:42`), so that one peer that does not read holds up the messages of all users;
  any exception of a send prunes the connection (`connection_manager.py:43`), also when it still works.
- Tokens: the blacklist is keyed by the string (`token_blacklist.py:15`, `token_blacklist.py:19`), while decoding
  accepts every spelling of the signature, so that a revoked token in another spelling is accepted. A refresh leaves the submitted token valid (`docs/API.md:157`); a login in the same second as a
  logout returns the token that was revoked (`jwt_service.py:22`); a Redis failure between the two writes of
  a logout (`logout.py:23`) leaves the refresh token valid, and the logout cannot be repeated.
- Rate limiter: a comment speaks of a sliding window, but the windows are fixed, so that twice the limit can
  pass around a boundary; all tokens of the server share one bucket, and any other string after `Bearer `
  (`rate_limiter.py:72`) has one of its own.
- Feed: `score_posts` raises a `TypeError` for every post with an aware `created_at` (`feed_scoring.py:110`), so
  that a ranked feed that is not cached answers 500 as soon as there is a post. A fan-out to a missing key creates a feed without a TTL, which hides the database; a fill with a
  small limit truncates later reads; a post can appear twice, once from each payload format.
- Cache: comments and account edits do not invalidate what they change, and a new notification leaves the
  cached unread count as it is; the TTL bounds how long that lasts.
- Media: the status `processing` is never committed, because each pipeline commits once at its end
  (`pipeline.py:26`), while `docs/DATABASE.md:239` gives it as the status of a row between pending and
  ready, and `docs/ARCHITECTURE.md:314` has it written and polled. A local upload into a missing subfolder fails; a local delete looks for the last component of the
  URL only; processed files and thumbnails are never deleted; a delete removes the file before the row; no
  code starts the pipelines, although `docs/ARCHITECTURE.md:311` says so.
- Chat: marking a conversation seen marks messages that the receiver has not fetched. `chat.seen`
  (`handler.py:140`) marks any message by its id, while `docs/API.md:1090` says that the caller must be the
  recipient. `first` is not bounded (`messages.py:80`): with 0 a client that follows `has_next` starts over for
  ever, below -1 the answer is 500.
- Accounts: a concurrent duplicate is answered with 500 instead of 409; a change committed between the two
  reads of another edit is undone; edits of the first and the last name that overlap after their second
  reads leave a display name that is that of neither (`entities.py:70`), until the next edit; two concurrent unfollows are both answered 200; `docs/DATABASE.md:156`
  says that a profile is created at registration, and none is. Two migrations have the revision `007`, so that
  which of the indexes of `Keys` a database has depends on how Alembic resolves them; the model has them all.

Why the bounds are enough. Two users are one pair, and no friend operation touches a second pair; two
handlers give every race of two operations, and what is proved about them holds for any number.
Reactions of two users on one post contain a conflict on the row and on the key; three new rows allow a
reaction and two replacements that race each other, or one that races another user. Users, types and
handlers are interchangeable, so the run uses their symmetry. Two
tabs of one user are the least that lets a set change under iteration, and one follower with a socket
lets a presence message be delivered. Lifetimes of one and two seconds put every expiry between any two
steps. `MaxRows`, `MaxForwards` and `MaxTime` bound counters and appear only in guards.

In `CacheAside` one entry at a time is enough, because no step reads or writes two entries and a change treats
the keys of a row one by one; `MaxVersion` bounds the changes of all rows together, and no request and no entry
is about two rows. Two writings of an id, and two spellings of a token, are one that matches and one
that does not. In `Accounts` the bodies name one column each: what an edit does to a column depends on
whether it is named, not on what else is, but for the display name, which the pair of a first-name edit and a last-name
edit covers. Requests and addresses are interchangeable there, and the run uses their symmetry.

In `RateLimiter`, `CacheAside`, `Media` and `Accounts` two requests give every race of two operations. A window of two seconds and a
clock from 0 to 3 put every step before, on and after a boundary. One post that is created, edited and deleted
meets each of its own tasks, and what the properties say of a post does not depend on others (the proof has any
number of them); a feed of two holds the post in both payload formats and is at its limit. One
change is enough for a fill to be older than the entry it replaces, and two requests
for a reader and a writer. A pipeline that runs twice on one record contains the conflicts on the row lock and on the
file names; three bytes in chunks of two give a full and a partial chunk. Three messages on two timestamps
contain a tie and a commit out of order, and need up to three pages of one. Two addresses and one name let two
registrations collide in either index alone or in both. `MaxTime`, `MaxCount`, `MaxEdits`, `MaxVersion`,
`MaxTasks`, `MaxCached`, `MaxEntries` and `MaxRuns` bound counters and appear only in guards.

Deadlock is checked except in `Realtime`, `Tokens`, `RateLimiter`, `FeedCache`, `Media` and `CacheAside`,
where sockets, ids or changes are used up or the clock stops.

Fairness. `UnitOfWork` and `FriendGraph` assume weak fairness of each handler: the event
loop resumes a task whose await is over, PostgreSQL grants a free lock, and `pool_timeout` and
`command_timeout` end a wait that is not granted. `Realtime` assumes weak fairness of
each handler's own steps and that a broken connection ends `receive_text`; it assumes nothing of the
listener, whose send may never return. `FeedCache`, `CacheAside` and
`Media` assume weak fairness of the steps of tasks, requests and pipelines that have begun, and of the
expiry of keys that have a TTL. `Chat` assumes only that a client that has begun a walk asks for the next
page. Nothing is assumed of clients otherwise, of exceptions, of the clock or of the shutdown. `Tokens`,
`Reactions`, `RateLimiter` and `Accounts` have safety properties only and state no fairness.

## Proofs

All proofs are by an inductive invariant, one lemma per action or group of actions, and a last step by
PTL. An action property follows from the invariant in the first state of the step. The inductive
invariants were checked by TLC on the instances of the runs before they were proved.

Three modules extend two components each and hold the proofs of both. So that their names do not meet,
`RateLimiter`, `Tokens` and `Chat` name the parts that every module has after themselves (`LimiterInit`,
`TokensNext`, `ChatSpec`, `ChatTypeOK`), and their places are `stage` and `place` where the others have `pc`. No
theorem is about two components. Every assumption on a constant is an `ASSUME` of the component, which TLC
evaluates in its run.

`UnitOfWork` (in `RequestProofs`): for any requests, rows and capacity. `AllOrNothing` and the rest are not
inductive, because they say nothing about a handler on its way; `IndInv` adds which session each place
of the handler works on (`SessionsByPlace`), that the inner session never has rows (`InnerIdle`), where a
flat request may hold a connection (`FlatBusy`), what is stored (`StoreByPlace`) and answered
(`ReplyByPlace`) at each place. Theorems: `UoWTyping`, `FlatDurability`, `Atomicity`,
`NoFlatConnectionLeak`, `NestedStoresNothing`, and `FlatRefinement`, in which every step is mapped to a
step of `AtomicUoW` or a stutter.

`FriendGraphProofs` holds for any users and handlers. Symmetry of the committed table depends on what
the open transactions hold: `TxShape` says what each place has written, `LocksExclusive` that no two
transactions hold the same key, `PendingIsFresh` that an uncommitted insert of a request meets no row.
Theorems: `TypeCorrect`, `FriendshipSymmetric`, `FriendsAsked`, `AcceptAtomicity`, `DecisionsStand`.

`ReactionsProofs` holds for any users, types, handlers and number of ids. `IndInv` says what each
place of a handler has read and written (`Handlers`), that at most one open transaction has touched the
reaction of a user (`KeyExclusive`), that what it deletes is the row it has read and what it inserts meets
no row (`HeldRows`), that ids are never reused, so that a row that is selected again by its id is the same
row (`IdsUnique`), and that an entity that was not overtaken differs from the post only in the column of its
use case (`OwnColumns`). From it follow `ReplacementAtomicity` (a reaction disappears only by a removal
that had read it, never by a replacement) and `OtherColumnsKept`. `DeadlockFree` picks from any set
of handlers one that waits for none of the others: one at its commit, else one that has deleted the row
it replaces, else one that is not about to update the post. `ExactCount` needs
`CountInv`: while nothing overlaps one handler is at work (`Alone`) and all it has read is still true
(`Current`), so that the absolute count it writes is the number of rows after its commit; a
rollback at any statement leaves both as they were. Theorems: `TypeCorrect`, `DeadlockFree`,
`ReplacementAtomicity`, `OtherColumnsKept`, `ExactCount`.

`Tokens` (in `RedisProofs`): for any users, handlers and lifetimes with `LivesAssumption`: the TTLs of
`logout.py` are at least the lifetimes of the settings (true of the defaults, and no longer true if
`jwt_access_token_expire_minutes` or `jwt_refresh_token_expire_days` is raised). The argument:
every entry outlives its token (`EntriesCover`), so a revoked token is on the list or has expired
(`RevokedAreDead`), so a late request that passes the blacklist check finds its token expired when it
decodes it (`LateAreStopped`). A token of the proof is a string, so the theorems hold for each spelling by
itself. Theorems: `TokenTyping`, `LogoutIsFinal`, `RevocationHolds`.

`Realtime` (in `MessagingProofs`): for any users, sockets, owners and followers. The prune at the end of a delivery
uses a list collected before several awaits; `DeadStayDead` says that what is on the list cannot work
again, or that its send has raised, because a socket starts to work only in its own handshake. Theorems: `ConnectionTyping`,
`NoOrphanConnection`, `WorkingIsReachable`.

`Chat` (in `MessagingProofs`): for any parties, ids, page sizes and clock (`ChatAssumption`: ids and times
are ordered). `WalkInv` says that what the client has is not behind its cursor and that what it still has
to get is. A fetch keeps this because (time, id) is a total order (`TotalOrder`), so that a
row has a rank (`Rank`), the newest n rows are ahead of all others (`PageIsFront`), are exactly n if
there are more (`PageIsFull`) and all of them if there are not (`PageIsAll`), and the last of them exists
(`LastRow`); this is where the tie-break by id matters. Messages that are committed meanwhile may come
anywhere in the order; they are not in `present`, and get at most once to the client for the same
reason. That a nonempty set of natural numbers has a least element comes from the library's
well-founded induction (`LeastNatural`). Theorems: `ChatTyping`, `CompleteWalk`, `SeenNeedsAReport`. The first two
hold for every page size, also those below one: a walk that ends has returned everything.

`RateLimiter` (in `RequestProofs`): for any addresses, tokens, requests, limits and window length
(`LimitsAssumption`). A request can pass on a counter only while its value is at most the limit, so the bound
needs that the counter is never lost inside its window. `CurrentCounts` says that the key of the current
window counts everything let through; it survives because the deadline of `Window + 1` seconds, taken
inside the window, lies after its end (lemmas `Division`, `Monotone`, `Outlives`). `FutureUntouched` says
that nothing has passed and no deadline is set in a later window, `KeysKnown` that requests hold keys of
the current or an earlier window, and `CountsTaken` that no value exceeds the number of INCRs. Theorems: `LimiterTyping`, `Bounded`,
`NoEarlyRefusal`, `Expiring`.

`CacheAside` (in `RedisProofs`): for any requests, writings and bounds. For a key that nothing has passed by, a
fill under way has the committed value (`FillsFresh`), and an entry that is not the committed value has a
writer on its way to delete it, which still knows its key (`DeleterHasKey`). Theorems: `EntryTyping`,
`CommitThenDelete`.

`FeedCacheProofs` holds for any viewers, posts, readers, limits and a feed size of at least one
(`SizesAssumption`; `NamesAssumption` only keeps the mark for "no key" apart from the viewers). `FeedInv` adds to the types that
feeds and reads are finite, because finitely many posts have been created, and what a reader has been
asked for. `QuietInv` describes each post that is not disturbed (`Right`), whatever happens to the others: one of its tasks
is in flight (`OneTask`), no reader holds ids that the task could make old (`NoFill`), it is in no feed before its
fan-out (`NotYetThere`), a removal that names it has left nothing in the feeds it has passed (`GoneBehind`),
every feed is right about it but for what that task has still to do (`FeedsRight`), and what readers hold is
current (`ReadsRight`). Theorems: `TypeCorrect`, `ExactFeeds`.

`MediaProofs` holds for any ids, workers, sizes and number of runs. A record is safe because its files were
stored first: `WorkerOK` says which files a worker at each place has stored and what its uncommitted
version names, `FreshOK` that an upload is the only one that works on its id, `RowOK` the shape of
committed records. Theorems: `Typing`, `AddressesResolve`, `ConversionsAreWhole`.

`AccountsProofs` holds for any requests, keys and values. The checks play no role in the proof of
uniqueness: `KeysExclusive` says that no two transactions hold the same key and that a key under insertion
has no committed row, `Loyal` that a request that was not overtaken holds only committed values for the
columns it does not name, and `Ordered` in which order the keys and rows are taken, from which the absence of
circular waits follows. `Whole` says that what a request carries, put over the row, gives a display name
that is that of the names, until another commit changes the row after the second read. Theorems:
`Typing`, `ChecksAreSafe`, `WaitsEnd`, `LostOnlyBetweenReads`, `DisplayRepaired`.

The type invariants are proved, not checked again by a run, except where a run lists them.

Only model-checked: the liveness properties (`EveryRequestAnswered`, `OperationsEnd`, `DeadLeave`,
`DeletedFades`, `RequestsEnd`, `EventuallyFresh`, `WalkEnds`), because fairness and ENABLED are
beyond the prover, and the violation of `OkMeansDurable`. `NestedStoresNothing` proves what stands
behind that violation.

## Assumptions about libraries

- PostgreSQL locks rows and unique keys as documented for READ COMMITTED; its deadlock detector is
  covered by the statement timeout, which ends one of the waiting statements.
- Redis keeps an entry until its TTL ends. `docker-compose.yml:67` allows it to evict any key when its memory
  is full (`allkeys-lru`); an evicted blacklist entry, counter or feed is outside the models.
- Redis executes commands one at a time and delivers a channel in order.
- After an UPDATE flush, `_to_entity` reads `updated_at`, which the server computes (`onupdate`, no eager
  defaults). SQLAlchemy 2 expires such a column, and reading it outside a greenlet raises `MissingGreenlet`, so
  that in the program as it stands every path through a repository's `update` that has something to write
  ends in an error and a rollback. That outcome is among the failures of the models (`Fail`, the aborts of
  the handlers); the properties are stated for the other outcome too, which is what a database session with
  eager defaults gives.
- A Redis MULTI/EXEC pipeline is one step, and Redis expires a key that has a TTL.
- PostgreSQL enters a row into its unique indexes one after the other and waits for the transaction that
  holds an equal entry; `now()` is the start of the transaction.

## Not modelled

- Search, and the GraphQL queries other than the cached profiles: one read each, no state. The GraphQL
  mutation classes are not mounted in the schema.
- Metrics, logging, migrations, deployment: they observe or prepare, and decide nothing at run time. The
  constraints the migrations create are in the models.
- What Pillow and ffmpeg compute: only the outcomes converted, not available and failed.
- The rows of shares: they have no count and no constraint; only their notifications are modelled. Comments
  cannot be saved as the code stands (`Reactions`); `comment_count` has the pattern of `like_count`.
- The paged list of notifications and the lists of conversations, followers and friends: read-only.
- Several server processes on one Redis: each delivers to its own connections and has a registry as in
  `Realtime`; the order of messages of different processes is not stated.
- The order of the rest of the shutdown: only the drain of the connections and the end of the listener are modelled.
- Operations of `feed_cache.py`, `cache_service.py` and `redis_cache.py` that nothing calls.
