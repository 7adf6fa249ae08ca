------------------------- MODULE RedisProofs --------------------------------
(***************************************************************************)
(* What Redis holds for a while: CacheAside.tla and Tokens.tla.            *)
(***************************************************************************)
EXTENDS CacheAside, Tokens, TLAPS

-----------------------------------------------------------------------------
(***************************************************************************)
(* Proofs about CacheAside for any number of concurrent requests, any ways *)
(* of writing an id and any bound on changes, tasks and entries.           *)
(*                                                                         *)
(* FreshWithoutOverlap is not inductive: Set stores what Load has read,    *)
(* and the key that a commit spares is the one its request will delete.    *)
(* EntryInv adds that a value about to be stored is still the committed    *)
(* one unless a change has passed by.                                      *)
(***************************************************************************)

DeleterHasKey == \A r \in Requests : "delete" \in then[r] => key[r] \in Keys
FillsFresh == \A r \in Requests :
    pc[r] = "set" /\ key[r] \notin passed => val[r] = db[key[r][1]]

EntryInv == TypeOK /\ DeleterHasKey /\ FillsFresh /\ FreshWithoutOverlap

LEMMA VersionFacts ==
    /\ Versions \subseteq Int
    /\ Absent \notin Versions
    /\ 0 \in Versions
BY BoundsAssumption DEF Versions, Absent

(* The row of a key. *)
LEMMA RowOfKey == ASSUME NEW k \in Keys PROVE k[1] \in Rows
BY DEF Keys

LEMMA TypeInit == Init => TypeOK
BY VersionFacts, BoundsAssumption DEF Init, TypeOK, Cached

(* The two helpers with which a request moves on.                          *)
LEMMA AnswerType ==
    ASSUME TypeOK, NEW r \in Requests, Answer(r)
    PROVE  /\ pc' \in [Requests -> {"idle", "get", "load", "set", "commit", "delete"}]
           /\ key' \in [Requests -> Keys \cup {Share, None}]
           /\ val' \in [Requests -> Versions \cup {Absent}]
           /\ then' \in [Requests -> SUBSET {"delete", "notify"}]
           /\ \A s \in Requests : pc'[s] \in {"get", "load", "set", "delete"} => key'[s] \in Keys
           /\ \A s \in Requests : pc'[s] = "set" => val'[s] \in Versions
BY DEF TypeOK, Answer

LEMMA DropType ==
    ASSUME TypeOK, NEW k \in Keys, Drop(k)
    PROVE  cache' \in [Keys -> Versions \cup {Absent}] /\ ttl' \subseteq Cached'
BY DEF TypeOK, Drop, Cached

LEMMA SetexType ==
    ASSUME TypeOK, NEW k \in Keys, NEW v \in Versions, Setex(k, v)
    PROVE  cache' \in [Keys -> Versions \cup {Absent}] /\ ttl' \subseteq Cached'
BY VersionFacts DEF TypeOK, Setex, Cached

(* A change of one row, which passes by what it does not reach.            *)
LEMMA ChangeFacts ==
    ASSUME TypeOK, NEW x, NEW D, Change(x, D)
    PROVE  /\ db' \in [Rows -> Versions] /\ passed \subseteq passed' /\ passed' \subseteq Keys
           /\ \A k \in Keys \ passed' : db'[k[1]] # db[k[1]] =>
                 /\ k[1] = x /\ ~Filling(k)
                 /\ cache[k] = Absent \/ k \in D
<1>1. CASE UNCHANGED <<db, passed>>
  BY <1>1 DEF TypeOK
<1>2. CASE /\ x \in Rows /\ db["post"] + db["profile"] + db["unread"] < MaxVersion
           /\ db' = [db EXCEPT ![x] = @ + 1] /\ passed' = passed \cup PassedBy(x, D)
  <2>1. db["post"] \in Versions /\ db["profile"] \in Versions /\ db["unread"] \in Versions
    BY DEF TypeOK, Rows
  <2>2. \A y \in Rows : db[y] + 1 \in Versions
    BY <1>2, <2>1, BoundsAssumption DEF Rows, Versions
  <2>3. db' \in [Rows -> Versions]
    BY <1>2, <2>2 DEF TypeOK
  <2>4. \A k \in Keys : k[1] # x => db'[k[1]] = db[k[1]]
    BY <1>2, RowOfKey DEF TypeOK
  <2> QED BY <1>2, <2>3, <2>4 DEF PassedBy, TypeOK
<1> QED BY <1>1, <1>2 DEF Change

(* The requests that only begin. *)
Begins(r) ==
    \/ \E k \in Keys : Read(r, k)
    \/ \E k \in Keys \cup {Share}, after \in SUBSET {"delete", "notify"} :
          ("delete" \in after => k \in Keys) /\ Write(r, k, after)

LEMMA NextCases ==
    ASSUME Next
    PROVE  \/ \E r \in Requests : Begins(r)
           \/ \E r \in Requests : Step(r)
           \/ Notify
           \/ \E k \in Keys : Expire(k)
<1>1. SUFFICES ASSUME NEW r \in Requests,
                      \/ GetPost(r) \/ GetUserProfile(r) \/ ProfileQuery(r) \/ GetUnreadCount(r)
                      \/ UpdatePost(r) \/ DeletePost(r) \/ LikePost(r) \/ UnlikePost(r) \/ ReactToPost(r)
                      \/ RemoveReaction(r) \/ CreateComment(r) \/ DeleteComment(r) \/ SharePost(r)
                      \/ UpdateUserProfile(r) \/ UploadUserAvatar(r) \/ EditUser(r)
                      \/ MarkNotificationRead(r) \/ MarkAllRead(r)
               PROVE  Begins(r)
    BY DEF Next
<1>2. /\ \A w \in Writings : <<"post", w>> \in Keys /\ <<"profile", w>> \in Keys
      /\ <<"profile", "str">> \in Keys /\ <<"unread", "str">> \in Keys
    BY WritingsAssumption DEF Keys, Rows
<1>3. CASE GetPost(r) \/ GetUserProfile(r) \/ ProfileQuery(r) \/ GetUnreadCount(r)
    BY <1>2, <1>3 DEF Begins, GetPost, GetUserProfile, ProfileQuery, GetUnreadCount
<1>4. ASSUME NEW k \in Keys \cup {Share}, NEW after \in SUBSET {"delete", "notify"},
             "delete" \in after => k \in Keys, Write(r, k, after)
      PROVE  Begins(r)
    BY <1>4 DEF Begins
<1>5. /\ {} \in SUBSET {"delete", "notify"} /\ {"delete"} \in SUBSET {"delete", "notify"}
      /\ {"notify"} \in SUBSET {"delete", "notify"} /\ {"notify", "delete"} \in SUBSET {"delete", "notify"}
    OBVIOUS
<1>6. ASSUME NEW after \in SUBSET {"delete", "notify"}, WritePost(r, after) PROVE Begins(r)
    BY <1>2, <1>4, <1>6 DEF WritePost
<1>7. CASE \/ UpdatePost(r) \/ DeletePost(r) \/ LikePost(r) \/ UnlikePost(r) \/ ReactToPost(r)
           \/ RemoveReaction(r) \/ CreateComment(r) \/ DeleteComment(r)
    BY <1>5, <1>6, <1>7
       DEF UpdatePost, DeletePost, LikePost, UnlikePost, ReactToPost, RemoveReaction, CreateComment, DeleteComment
<1>8. CASE \/ SharePost(r) \/ UpdateUserProfile(r) \/ UploadUserAvatar(r) \/ EditUser(r)
           \/ MarkNotificationRead(r) \/ MarkAllRead(r)
    BY <1>2, <1>4, <1>5, <1>8
       DEF SharePost, UpdateUserProfile, UploadUserAvatar, EditUser, MarkNotificationRead, MarkAllRead
<1>. QED BY <1>1, <1>3, <1>7, <1>8

LEMMA TypeStep == TypeOK /\ DeleterHasKey /\ [Next]_vars => TypeOK'
<1>. SUFFICES ASSUME TypeOK, DeleterHasKey, [Next]_vars PROVE TypeOK'
    OBVIOUS
<1>1. ASSUME NEW r \in Requests, Begins(r) PROVE TypeOK'
    <2>1. CASE \E k \in Keys : Read(r, k)
        BY <2>1 DEF Read, TypeOK, Cached, entries
    <2>2. CASE \E k \in Keys \cup {Share}, after \in SUBSET {"delete", "notify"} : Write(r, k, after)
        BY <2>2 DEF Write, TypeOK, Cached, entries
    <2>. QED BY <1>1, <2>1, <2>2 DEF Begins
<1>2. ASSUME NEW r \in Requests, Get(r) PROVE TypeOK'
    <2>1. CASE Answer(r)
        BY <1>2, <2>1, AnswerType DEF Get, TypeOK, Cached, entries
    <2>2. CASE Goto(r, "load") /\ val' = val
        BY <1>2, <2>2 DEF Get, Goto, TypeOK, Cached, entries
    <2>. QED BY <1>2, <2>1, <2>2 DEF Get
<1>3. ASSUME NEW r \in Requests, Load(r) PROVE TypeOK'
    <2>1. CASE Answer(r)
        BY <1>3, <2>1, AnswerType DEF Load, TypeOK, Cached, entries
    <2>2. CASE val' = [val EXCEPT ![r] = db[key[r][1]]] /\ Goto(r, "set")
        <3>1. db[key[r][1]] \in Versions
            BY <1>3, RowOfKey DEF Load, TypeOK
        <3>. QED BY <1>3, <2>2, <3>1 DEF Load, Goto, TypeOK, Cached, entries
    <2>. QED BY <1>3, <2>1, <2>2 DEF Load
<1>4. ASSUME NEW r \in Requests, Set(r) PROVE TypeOK'
    <2>1. key[r] \in Keys /\ val[r] \in Versions
        BY <1>4 DEF Set, TypeOK
    <2>2. cache' \in [Keys -> Versions \cup {Absent}] /\ ttl' \subseteq Cached'
        BY <1>4, <2>1, SetexType DEF Set, TypeOK, Cached, entries
    <2>3. Answer(r) BY <1>4 DEF Set
    <2>. QED BY <1>4, <2>2, <2>3, AnswerType DEF Set, TypeOK
<1>5. ASSUME NEW r \in Requests, Commit(r) PROVE TypeOK'
    <2>1. PICK D : Change(key[r][1], D)
        BY <1>5 DEF Commit
    <2>2. db' \in [Rows -> Versions] /\ passed' \subseteq Keys
        BY <2>1, ChangeFacts
    <2>3. cache' = cache /\ ttl' = ttl /\ tasks' \in 0..MaxTasks
        BY <1>5, BoundsAssumption DEF Commit, TypeOK, entries
    <2>4. CASE Answer(r)
        BY <2>2, <2>3, <2>4, AnswerType DEF TypeOK, Cached
    <2>5. CASE /\ "delete" \in then[r] /\ pc' = [pc EXCEPT ![r] = "delete"]
               /\ then' = [then EXCEPT ![r] = {}] /\ UNCHANGED <<key, val>>
        <3>1. key[r] \in Keys BY <2>5 DEF DeleterHasKey
        <3>. QED BY <2>2, <2>3, <2>5, <3>1 DEF TypeOK, Cached
    <2>. QED BY <1>5, <2>4, <2>5 DEF Commit
<1>6. ASSUME NEW r \in Requests, Delete(r) PROVE TypeOK'
    <2>1. key[r] \in Keys
        BY <1>6 DEF Delete, TypeOK
    <2>2. cache' \in [Keys -> Versions \cup {Absent}] /\ ttl' \subseteq Cached'
        BY <1>6, <2>1, DropType DEF Delete, TypeOK, Cached, entries
    <2>3. Answer(r) /\ passed' \subseteq Keys
        BY <1>6, <2>1 DEF Delete, Gone, TypeOK
    <2>. QED BY <1>6, <2>2, <2>3, AnswerType DEF Delete, TypeOK
<1>7. ASSUME Notify PROVE TypeOK'
    <2>1. db' \in [Rows -> Versions] /\ passed' \subseteq Keys
        BY <1>7, ChangeFacts DEF Notify, NewNotification
    <2>2. tasks' \in 0..MaxTasks
        BY <1>7, BoundsAssumption DEF Notify, TypeOK
    <2>. QED BY <1>7, <2>1, <2>2 DEF Notify, TypeOK, Cached, entries, request
<1>8. ASSUME NEW k \in Keys, Expire(k) PROVE TypeOK'
    <2>1. passed' \subseteq Keys
        BY <1>8 DEF Expire, Gone, TypeOK
    <2>. QED BY <1>8, <2>1, DropType DEF Expire, TypeOK, request
<1>9. CASE UNCHANGED vars
    BY <1>9 DEF vars, TypeOK, Cached
<1>. QED BY <1>1, <1>2, <1>3, <1>4, <1>5, <1>6, <1>7, <1>8, <1>9, NextCases DEF Step

-----------------------------------------------------------------------------
(* What a step of one request leaves alone of the others.                  *)
Others(r) == \A s \in Requests \ {r} :
    pc'[s] = pc[s] /\ key'[s] = key[s] /\ val'[s] = val[s] /\ then'[s] = then[s]

LEMMA AnswerMoves ==
    ASSUME TypeOK, NEW r \in Requests, Answer(r)
    PROVE  pc'[r] = "idle" /\ then'[r] = {} /\ Others(r)
BY DEF TypeOK, Answer, Others

LEMMA DeleterStep == EntryInv /\ [Next]_vars => DeleterHasKey'
<1>. SUFFICES ASSUME EntryInv, [Next]_vars PROVE DeleterHasKey'
    OBVIOUS
<1>0. TypeOK /\ DeleterHasKey
    BY DEF EntryInv
<1>1. ASSUME NEW r \in Requests, Begins(r) PROVE DeleterHasKey'
    BY <1>0, <1>1 DEF Begins, Read, Write, TypeOK, DeleterHasKey
<1>2. ASSUME NEW r \in Requests, Answer(r) PROVE DeleterHasKey'
    BY <1>0, <1>2, AnswerMoves DEF DeleterHasKey, Others
<1>3. ASSUME NEW r \in Requests, Step(r) PROVE DeleterHasKey'
    BY <1>0, <1>2, <1>3 DEF Step, Get, Load, Set, Commit, Delete, Goto, TypeOK, DeleterHasKey
<1>4. CASE Notify \/ (\E k \in Keys : Expire(k)) \/ UNCHANGED vars
    BY <1>0, <1>4 DEF Notify, NewNotification, Expire, vars, request, DeleterHasKey
<1>. QED BY <1>1, <1>3, <1>4, NextCases

(* A request that is not in "delete" moves without losing a deleter.       *)
LEMMA DeletersStay ==
    ASSUME NEW r \in Requests, Others(r), NEW k, pc[r] # "delete" \/ key[r] # k, Changing(k)
    PROVE  Changing(k)'
BY DEF Changing, Others

(* A step of one request that is not a fill, a commit or a DEL.            *)
LEMMA FreshKept ==
    ASSUME TypeOK, FillsFresh, FreshWithoutOverlap, UNCHANGED <<db, cache, passed>>,
           NEW r \in Requests, Others(r), pc[r] # "delete",
           pc'[r] = "set" => key'[r] \in Keys /\ val'[r] = db[key'[r][1]]
    PROVE  (FillsFresh /\ FreshWithoutOverlap)'
<1>1. FillsFresh'
    BY DEF FillsFresh, Others
<1>2. \A k \in Keys \ passed : Changing(k) => Changing(k)'
    BY DeletersStay
<1>3. FreshWithoutOverlap'
    BY <1>2 DEF FreshWithoutOverlap, Fresh
<1>. QED BY <1>1, <1>3

(* An entry goes away, and with it what is known against it.               *)
LEMMA GoneFresh ==
    ASSUME TypeOK, FillsFresh, FreshWithoutOverlap, NEW k \in Keys, Drop(k), Gone(k), db' = db,
           \A r \in Requests : pc'[r] = "set" => pc[r] = "set" /\ key'[r] = key[r] /\ val'[r] = val[r],
           \A j \in Keys \ {k} : Changing(j) => Changing(j)'
    PROVE  (FillsFresh /\ FreshWithoutOverlap)'
<1>1. /\ cache' = [cache EXCEPT ![k] = Absent] /\ passed \ {k} \subseteq passed'
      /\ Filling(k) => passed' = passed
    BY DEF Drop, Gone
<1>2. FillsFresh'
    <2>1. SUFFICES ASSUME NEW r \in Requests, pc'[r] = "set", key'[r] \notin passed'
                   PROVE  val'[r] = db'[key'[r][1]]
        BY DEF FillsFresh
    <2>2. key[r] \notin passed
        BY <1>1, <2>1 DEF Filling
    <2>. QED BY <2>1, <2>2 DEF FillsFresh
<1>3. FreshWithoutOverlap'
    <2>1. SUFFICES ASSUME NEW j \in Keys, j \notin passed' PROVE Changing(j)' \/ Fresh(j)'
        BY DEF FreshWithoutOverlap
    <2>2. CASE j = k
        BY <1>1, <2>2 DEF Fresh, TypeOK
    <2>3. CASE j # k
        BY <1>1, <2>1, <2>3 DEF FreshWithoutOverlap, Fresh, TypeOK
    <2>. QED BY <2>2, <2>3
<1>. QED BY <1>2, <1>3

LEMMA FreshStep == EntryInv /\ [Next]_vars => (FillsFresh /\ FreshWithoutOverlap)'
<1>. SUFFICES ASSUME EntryInv, [Next]_vars PROVE (FillsFresh /\ FreshWithoutOverlap)'
    OBVIOUS
<1>0. TypeOK /\ DeleterHasKey /\ FillsFresh /\ FreshWithoutOverlap
    BY DEF EntryInv
<1>1. ASSUME NEW r \in Requests, Begins(r) PROVE (FillsFresh /\ FreshWithoutOverlap)'
    <2>1. UNCHANGED <<db, cache, passed>> /\ Others(r) /\ pc[r] = "idle" /\ pc'[r] # "set"
        BY <1>0, <1>1 DEF Begins, Read, Write, TypeOK, entries, Others
    <2>. QED BY <1>0, <2>1, FreshKept
<1>2. ASSUME NEW r \in Requests, Get(r) PROVE (FillsFresh /\ FreshWithoutOverlap)'
    <2>1. UNCHANGED <<db, cache, passed>> /\ Others(r) /\ pc[r] = "get" /\ pc'[r] # "set"
        BY <1>0, <1>2, AnswerMoves DEF Get, Goto, entries, TypeOK, Others
    <2>. QED BY <1>0, <2>1, FreshKept
<1>3. ASSUME NEW r \in Requests, Load(r) PROVE (FillsFresh /\ FreshWithoutOverlap)'
    <2>1. UNCHANGED <<db, cache, passed>> /\ Others(r) /\ pc[r] = "load"
        BY <1>0, <1>3, AnswerMoves DEF Load, Goto, entries, TypeOK, Others
    <2>2. pc'[r] = "set" => key'[r] \in Keys /\ val'[r] = db[key'[r][1]]
        BY <1>0, <1>3, AnswerMoves DEF Load, Goto, TypeOK
    <2>. QED BY <1>0, <2>1, <2>2, FreshKept
<1>4. ASSUME NEW r \in Requests, Set(r) PROVE (FillsFresh /\ FreshWithoutOverlap)'
    <2>1. UNCHANGED <<db, passed>> /\ Others(r) /\ pc[r] = "set" /\ pc'[r] = "idle"
        BY <1>0, <1>4, AnswerMoves DEF Set
    <2>2. CASE UNCHANGED entries
        BY <1>0, <2>1, <2>2, FreshKept DEF entries
    <2>3. CASE Setex(key[r], val[r])
        <3>1. key[r] \in Keys /\ (key[r] \notin passed => val[r] = db[key[r][1]])
            BY <1>0, <2>1 DEF TypeOK, FillsFresh
        <3>2. \A k \in Keys \ passed : Fresh(k) => Fresh(k)'
            BY <1>0, <2>1, <2>3, <3>1 DEF Setex, Fresh, TypeOK
        <3>3. \A k \in Keys \ passed : Changing(k) => Changing(k)'
            BY <2>1, DeletersStay
        <3>4. FillsFresh'
            BY <1>0, <2>1 DEF FillsFresh, Others
        <3>. QED BY <1>0, <2>1, <3>2, <3>3, <3>4 DEF FreshWithoutOverlap
    <2>. QED BY <1>4, <2>2, <2>3 DEF Set
<1>5. ASSUME NEW r \in Requests, Commit(r) PROVE (FillsFresh /\ FreshWithoutOverlap)'
    <2>1. pc[r] = "commit" /\ cache' = cache /\ Others(r) /\ pc'[r] # "set"
        BY <1>0, <1>5, AnswerMoves DEF Commit, entries, TypeOK, Others
    <2>2. PICK D : /\ Change(key[r][1], D)
                   /\ D = {} \/ (D = {key[r]} /\ pc'[r] = "delete" /\ key'[r] = key[r])
        BY <1>0, <1>5 DEF Commit, Deletes, TypeOK
    <2>3. /\ passed \subseteq passed'
          /\ \A k \in Keys \ passed' : db'[k[1]] # db[k[1]] => ~Filling(k) /\ (cache[k] = Absent \/ k \in D)
        BY <1>0, <2>2, ChangeFacts
    <2>4. FillsFresh'
        <3>1. SUFFICES ASSUME NEW s \in Requests, pc'[s] = "set", key'[s] \notin passed'
                       PROVE  val'[s] = db'[key'[s][1]]
            BY DEF FillsFresh
        <3>2. s # r /\ pc[s] = "set" /\ key'[s] = key[s] /\ key[s] \in Keys /\ val'[s] = val[s]
            BY <1>0, <2>1, <3>1 DEF TypeOK, Others
        <3>3. Filling(key[s])
            BY <3>2 DEF Filling
        <3>. QED BY <1>0, <2>3, <3>1, <3>2, <3>3 DEF FillsFresh
    <2>5. FreshWithoutOverlap'
        <3>1. SUFFICES ASSUME NEW k \in Keys, k \notin passed' PROVE Changing(k)' \/ Fresh(k)'
            BY DEF FreshWithoutOverlap
        <3>2. CASE db'[k[1]] = db[k[1]]
            BY <1>0, <2>1, <2>3, <3>1, <3>2, DeletersStay DEF FreshWithoutOverlap, Fresh
        <3>3. CASE db'[k[1]] # db[k[1]]
            BY <2>1, <2>2, <2>3, <3>1, <3>3 DEF Changing, Fresh
        <3>. QED BY <3>2, <3>3
    <2>. QED BY <2>4, <2>5
<1>6. ASSUME NEW r \in Requests, Delete(r) PROVE (FillsFresh /\ FreshWithoutOverlap)'
    <2>1. db' = db /\ Others(r) /\ pc[r] = "delete" /\ pc'[r] = "idle" /\ key[r] \in Keys
        BY <1>0, <1>6, AnswerMoves DEF Delete, TypeOK
    <2>2. \A k \in Keys \ {key[r]} : Changing(k) => Changing(k)'
        BY <2>1, DeletersStay
    <2>3. CASE Drop(key[r]) /\ Gone(key[r])
        <3>1. \A s \in Requests : pc'[s] = "set" => pc[s] = "set" /\ key'[s] = key[s] /\ val'[s] = val[s]
            BY <2>1 DEF Others
        <3>. QED BY <1>0, <2>1, <2>2, <2>3, <3>1, GoneFresh
    <2>4. CASE UNCHANGED entries /\ passed' = passed \cup {key[r]}
        <3>1. FillsFresh'
            BY <1>0, <2>1, <2>4 DEF FillsFresh, Others
        <3>2. FreshWithoutOverlap'
            BY <1>0, <2>1, <2>2, <2>4 DEF FreshWithoutOverlap, Fresh, entries
        <3>. QED BY <3>1, <3>2
    <2>. QED BY <1>6, <2>3, <2>4 DEF Delete
<1>7. ASSUME Notify PROVE (FillsFresh /\ FreshWithoutOverlap)'
    <2>1. /\ UNCHANGED <<cache, pc, key, val, then>> /\ passed \subseteq passed'
          /\ \A k \in Keys \ passed' : db'[k[1]] # db[k[1]] => ~Filling(k) /\ cache[k] = Absent
        BY <1>0, <1>7, ChangeFacts DEF Notify, NewNotification, entries, request
    <2>2. FillsFresh'
        <3>1. \A s \in Requests : pc[s] = "set" => key[s] \in Keys /\ Filling(key[s])
            BY <1>0 DEF TypeOK, Filling
        <3>. QED BY <1>0, <2>1, <3>1 DEF FillsFresh
    <2>3. FreshWithoutOverlap'
        BY <1>0, <2>1 DEF FreshWithoutOverlap, Changing, Fresh
    <2>. QED BY <2>2, <2>3
<1>8. ASSUME NEW k \in Keys, Expire(k) PROVE (FillsFresh /\ FreshWithoutOverlap)'
    <2>1. Drop(k) /\ Gone(k) /\ UNCHANGED <<db, pc, key, val, then>>
        BY <1>8 DEF Expire, request
    <2>2. \A j \in Keys : Changing(j) => Changing(j)'
        BY <2>1 DEF Changing
    <2>. QED BY <1>0, <2>1, <2>2, GoneFresh
<1>9. CASE UNCHANGED vars
    BY <1>0, <1>9 DEF vars, FillsFresh, FreshWithoutOverlap, Changing, Fresh
<1>. QED BY <1>1, <1>2, <1>3, <1>4, <1>5, <1>6, <1>7, <1>8, <1>9, NextCases DEF Step

LEMMA EntryInvInit == Init => EntryInv
BY TypeInit DEF Init, EntryInv, DeleterHasKey, FillsFresh, FreshWithoutOverlap, Fresh

LEMMA EntryInvHolds == Spec => []EntryInv
<1>1. EntryInv /\ [Next]_vars => EntryInv'
    BY TypeStep, DeleterStep, FreshStep DEF EntryInv
<1>. QED BY EntryInvInit, <1>1, PTL DEF Spec

-----------------------------------------------------------------------------
(* The requests, the cache and the database keep their types.              *)
THEOREM EntryTyping == Spec => []TypeOK
<1>1. EntryInv => TypeOK BY DEF EntryInv
<1>. QED BY EntryInvHolds, <1>1, PTL

(* For any number of concurrent readers and writers and any ways of        *)
(* writing an id: an entry that no change has passed by (a fill that had   *)
(* selected, another writing of the id, a route without a DEL, a DEL that  *)
(* failed) since it was last gone is the committed value, or absent, or    *)
(* about to be deleted by the writer.                                      *)
THEOREM CommitThenDelete == Spec => []FreshWithoutOverlap
<1>1. EntryInv => FreshWithoutOverlap
    BY DEF EntryInv
<1>. QED BY EntryInvHolds, <1>1, PTL

-----------------------------------------------------------------------------
(***************************************************************************)
(* Proofs about Tokens.tla: for any number of users and concurrent         *)
(* requests and any lifetimes, as long as the TTLs of logout.py are no     *)
(* shorter than the lifetimes of the settings.                             *)
(***************************************************************************)

(* Where a request is, its tokens are known, and are not from the future.  *)
Presented == \A p \in Procs :
    /\ place[p] # "idle" => tok[p] \in Token /\ tok[p].iat <= now
    /\ place[p] = "issue_refresh" => made[p] \in Token /\ made[p].iat <= now
    /\ place[p] \in {"black_access", "black_refresh"} => op[p] = "logout"
    /\ place[p] = "black_access" => tok[p].type = "access"

IssuedInThePast == \A t \in issued : t.iat <= now

(* Every blacklist entry outlives its token.                               *)
EntriesCover == \A e \in black : ExpiredAt(e[1], e[2])

(* With these entries a token is dead at this time: it has expired, or is  *)
(* on the blacklist.                                                       *)
Dead(t, listed, time) == ExpiredAt(t, time) \/ \E e \in listed : e[1] = t

RevokedAreDead ==
    /\ \A t \in revoked : Dead(t, black, now)
    /\ \A p \in Procs : place[p] = "black_refresh" => Dead(tok[p], black, now)

(* How far a request that came too late can get.                           *)
LateAreStopped == \A p \in Procs :
    /\ place[p] = "idle" => p \notin late
    /\ p \in late /\ place[p] = "check" => Dead(tok[p], black, now)
    /\ p \in late /\ place[p] = "decode" => ExpiredAt(tok[p], now)
    /\ place[p] \in Accepted \cup {"issue_access", "issue_refresh"} => p \notin late

TokenInv ==
    /\ TokensTypeOK /\ IssuedInThePast /\ Presented
    /\ EntriesCover /\ RevokedAreDead /\ LateAreStopped

(* A lifetime is a natural number of seconds.                              *)
LEMMA LifeIsNat == \A t \in Token : t.iat \in Nat /\ Life(t) \in Nat
BY LivesAssumption DEF Life, Token

(* A token that has expired stays expired.                                 *)
LEMMA ExpiryStays ==
    ASSUME NEW t \in Token, NEW m \in Nat, NEW n \in Nat, m <= n, ExpiredAt(t, m)
    PROVE  ExpiredAt(t, n)
<1>1. t.iat \in Nat /\ Life(t) \in Nat
  BY LifeIsNat
<1> QED BY <1>1 DEF ExpiredAt

(* What a client presents is a token of its own, in some spelling.         *)
LEMMA SpeltAreTokens ==
    ASSUME TokenInv, NEW t \in Spelt
    PROVE  t \in Token /\ t.iat <= now
<1>1. PICK i \in issued, s \in Spellings : t = [i EXCEPT !.spelling = s]
  BY DEF Spelt
<1>2. i \in Token /\ i.iat <= now
  BY DEF TokenInv, TokensTypeOK, IssuedInThePast
<1> QED BY <1>1, <1>2 DEF Token

(* At first there are no tokens.                                           *)
LEMMA InitIndInv == TokensInit => TokenInv
BY MaxTimeAssumption DEF TokensInit, TokenInv, TokensTypeOK, IssuedInThePast, Presented, EntriesCover,
   RevokedAreDead, LateAreStopped, Accepted

(* A response changes nothing but the handler's own request.               *)
LEMMA RefuseIndInv == ASSUME TokenInv, NEW p \in Procs, Refuse(p) PROVE TokenInv'
<1> USE DEF TokenInv, Refuse, Finish, Move
<1>1. TokensTypeOK' /\ IssuedInThePast'
  BY DEF TokensTypeOK, IssuedInThePast
<1>2. Presented'
  BY DEF TokensTypeOK, Presented
<1>3. EntriesCover'
  BY DEF EntriesCover
<1>4. RevokedAreDead'
  BY DEF TokensTypeOK, RevokedAreDead
<1>5. LateAreStopped'
  BY DEF TokensTypeOK, LateAreStopped, Accepted
<1> QED BY <1>1, <1>2, <1>3, <1>4, <1>5

(* A new blacklist entry with a long enough TTL outlives its token, and    *)
(* leaves every dead token dead.                                           *)
LEMMA BlacklistCovers ==
    ASSUME TokenInv, NEW t \in Token, t.iat <= now, NEW secs \in Nat, Life(t) <= secs,
           Blacklist(t, secs)
    PROVE  /\ \A e \in black' : ExpiredAt(e[1], e[2])
           /\ black' \subseteq Token \X Nat
           /\ \A x : Dead(x, black, now) => Dead(x, black', now)
           /\ Dead(t, black', now)
<1> USE DEF TokenInv, Blacklist
<1>1. now \in Nat /\ t.iat \in Nat /\ Life(t) \in Nat
  BY LifeIsNat, MaxTimeAssumption DEF TokensTypeOK
<1>2. ExpiredAt(t, now + secs)
  BY <1>1 DEF ExpiredAt
<1>3. \A e \in black' : ExpiredAt(e[1], e[2])
  BY <1>2 DEF EntriesCover
<1>4. black' \subseteq Token \X Nat
  BY <1>1 DEF TokensTypeOK
<1>5. Dead(t, black', now)
  <2>1. <<t, now + secs>> \in black' /\ <<t, now + secs>>[1] = t
    OBVIOUS
  <2> QED BY <2>1 DEF Dead
<1>6. \A x : Dead(x, black, now) => Dead(x, black', now)
  BY <1>5 DEF Dead
<1> QED BY <1>3, <1>4, <1>5, <1>6

(* The first write of a logout: from here its access token is dead.        *)
LEMMA BlackAccessIndInv == ASSUME TokenInv, NEW p \in Procs, BlackAccess(p) PROVE TokenInv'
<1> USE DEF TokenInv
<1>1. /\ tok[p] \in Token /\ tok[p].iat <= now /\ op[p] = "logout"
      /\ Life(tok[p]) <= AccessTTL /\ Blacklist(tok[p], AccessTTL)
      /\ now' = now /\ issued' = issued /\ revoked' = revoked /\ op' = op /\ tok' = tok
      /\ made' = made /\ late' = late
      /\ place' = [place EXCEPT ![p] = "black_refresh"] /\ place[p] = "black_access"
  BY LivesAssumption DEF Presented, BlackAccess, Life, requests, Move
<1>2. /\ \A e \in black' : ExpiredAt(e[1], e[2])
      /\ black' \subseteq Token \X Nat
      /\ \A x : Dead(x, black, now) => Dead(x, black', now)
      /\ Dead(tok[p], black', now)
  BY <1>1, BlacklistCovers, LivesAssumption
<1>3. TokensTypeOK' /\ IssuedInThePast' /\ EntriesCover'
  BY <1>1, <1>2 DEF TokensTypeOK, IssuedInThePast, EntriesCover
<1>4. Presented'
  BY <1>1 DEF TokensTypeOK, Presented
<1>5. RevokedAreDead'
  BY <1>1, <1>2 DEF TokensTypeOK, RevokedAreDead
<1>6. LateAreStopped'
  BY <1>1, <1>2 DEF TokensTypeOK, LateAreStopped, Accepted
<1> QED BY <1>3, <1>4, <1>5, <1>6

(* The second write of a logout: both tokens are dead when it is answered. *)
LEMMA BlackRefreshIndInv == ASSUME TokenInv, NEW p \in Procs, BlackRefresh(p) PROVE TokenInv'
<1> USE DEF TokenInv
<1>1. /\ tok[p] \in Token /\ now' = now /\ issued' = issued
      /\ place[p] = "black_refresh" /\ Finish(p)
  BY DEF Presented, BlackRefresh
<1>0. PICK r \in Spelt : Blacklist(r, RefreshTTL) /\ revoked' = revoked \cup {tok[p], r}
  BY DEF BlackRefresh
<1>9. r \in Token /\ r.iat <= now /\ Life(r) <= RefreshTTL
  BY SpeltAreTokens, LivesAssumption DEF TokensTypeOK, Life
<1>2. /\ \A e \in black' : ExpiredAt(e[1], e[2])
      /\ black' \subseteq Token \X Nat
      /\ \A x : Dead(x, black, now) => Dead(x, black', now)
      /\ Dead(r, black', now)
  BY <1>0, <1>1, <1>9, BlacklistCovers, LivesAssumption
<1>3. TokensTypeOK' /\ IssuedInThePast' /\ EntriesCover'
  BY <1>0, <1>1, <1>2, <1>9 DEF TokensTypeOK, IssuedInThePast, EntriesCover, Finish, Move
<1>4. Presented'
  BY <1>1 DEF TokensTypeOK, Presented, Finish, Move
<1>5. RevokedAreDead'
  <2>1. \A t \in revoked' : Dead(t, black', now')
    BY <1>0, <1>1, <1>2 DEF RevokedAreDead
  <2>2. \A q \in Procs : place'[q] = "black_refresh" => Dead(tok'[q], black', now')
    BY <1>1, <1>2 DEF TokensTypeOK, RevokedAreDead, Finish, Move
  <2> QED BY <2>1, <2>2 DEF RevokedAreDead
<1>6. LateAreStopped'
  BY <1>1, <1>2 DEF TokensTypeOK, LateAreStopped, Accepted, Finish, Move
<1> QED BY <1>3, <1>4, <1>5, <1>6

(* Login and Present bring a request with tokens that exist.               *)
LEMMA ArriveIndInv ==
    ASSUME TokenInv, NEW p \in Procs, Login(p) \/ Present(p) PROVE TokenInv'
<1> USE DEF TokenInv
<1>1. now \in Nat /\ now' = now /\ issued' = issued /\ black' = black /\ revoked' = revoked
  BY MaxTimeAssumption DEF TokensTypeOK, Login, Present
<1>2. PICK t \in Token :
        /\ t.iat <= now /\ tok' = [tok EXCEPT ![p] = t]
        /\ \/ Login(p)
           \/ Present(p) /\ late' = IF t \in revoked THEN late \cup {p} ELSE late
  <2>1. CASE Login(p)
    <3>1. PICK u \in Users : tok' = [tok EXCEPT ![p] = NewTokenOf(u, "access")]
      BY <2>1 DEF Login
    <3>2. NewTokenOf(u, "access") \in Token /\ NewTokenOf(u, "access").iat <= now
      BY <1>1, SpellingsAssumption DEF NewTokenOf, Token
    <3> QED BY <1>1, <2>1, <3>1, <3>2
  <2>2. CASE Present(p)
    BY <2>2, SpeltAreTokens DEF Present
  <2> QED BY <2>1, <2>2
<1>3. place' = [place EXCEPT ![p] = IF Login(p) THEN "issue_access" ELSE "check"]
  BY <1>2 DEF Login, Present, Move, TokensTypeOK
<1>4. made' = made
  BY <1>2 DEF Login, Present
<1>5. TokensTypeOK' /\ IssuedInThePast'
  <2>1. tok' \in [Procs -> Token \cup {NoToken}] /\ place' \in [Procs -> {"idle", "check", "decode",
          "serve", "black_access", "black_refresh", "find_user", "issue_access", "issue_refresh"}]
    BY <1>2, <1>3 DEF TokensTypeOK
  <2>2. op' \in [Procs -> {"none", "login", "request", "logout", "refresh"}]
    BY <1>2 DEF TokensTypeOK, Login, Present
  <2>3. made' \in [Procs -> Token \cup {NoToken}]
    BY <1>4 DEF TokensTypeOK
  <2>4. late' \subseteq Procs
    BY <1>2 DEF TokensTypeOK, Login, Present
  <2> QED BY <1>1, <2>1, <2>2, <2>3, <2>4 DEF TokensTypeOK, IssuedInThePast
<1>6. Presented'
  <2>1. ASSUME NEW q \in Procs, q # p
        PROVE  /\ place'[q] = place[q] /\ tok'[q] = tok[q] /\ op'[q] = op[q] /\ made'[q] = made[q]
    BY <1>2, <1>3, <2>1 DEF TokensTypeOK, Login, Present
  <2>2. tok'[p] = t /\ place'[p] \in {"issue_access", "check"}
    BY <1>2, <1>3 DEF TokensTypeOK
  <2> QED BY <1>1, <1>2, <2>1, <2>2 DEF Presented
<1>7. EntriesCover'
  BY <1>1 DEF EntriesCover
<1>8. RevokedAreDead'
  BY <1>1, <1>2, <1>3 DEF TokensTypeOK, RevokedAreDead
<1>9. LateAreStopped'
  <2>1. ASSUME NEW q \in Procs, q # p
        PROVE  place'[q] = place[q] /\ tok'[q] = tok[q] /\ (q \in late' <=> q \in late)
    BY <1>2, <1>3, <2>1 DEF TokensTypeOK, Login, Present
  <2>2. tok'[p] = t /\ place'[p] \in {"issue_access", "check"}
    BY <1>2, <1>3 DEF TokensTypeOK
  <2>3. p \notin late
    BY <1>2 DEF LateAreStopped, Login, Present
  <2>4. p \in late' => t \in revoked /\ place'[p] = "check"
    BY <1>2, <1>3, <2>3 DEF TokensTypeOK, Login, Present, Move
  <2>5. p \in late' => Dead(tok'[p], black', now')
    BY <1>1, <2>2, <2>4 DEF RevokedAreDead
  <2> QED BY <1>1, <2>1, <2>2, <2>4, <2>5 DEF LateAreStopped, Accepted
<1> QED BY <1>5, <1>6, <1>7, <1>8, <1>9

(* A token that passes the blacklist check is not on the list, unless its  *)
(* entry has just ended; then it has expired, and Decode refuses it.       *)
LEMMA CheckIndInv == ASSUME TokenInv, NEW p \in Procs, CheckBlacklist(p) PROVE TokenInv'
<1> USE DEF TokenInv
<1>1. CASE Refuse(p)
  BY <1>1, RefuseIndInv
<1>2. CASE ~Refuse(p)
  <2>1. /\ place[p] = "check" /\ ~Blacklisted(tok[p]) /\ place' = [place EXCEPT ![p] = "decode"]
        /\ UNCHANGED <<now, issued, black, revoked, op, tok, made, late>>
    BY <1>2 DEF CheckBlacklist, Move, requests
  <2>2. ASSUME p \in late PROVE ExpiredAt(tok[p], now)
    <3>1. tok[p] \in Token /\ Dead(tok[p], black, now)
      BY <2>1, <2>2 DEF Presented, LateAreStopped
    <3>2. ASSUME NEW e \in black, e[1] = tok[p] PROVE ExpiredAt(tok[p], now)
      <4>1. e[2] \in Nat /\ now \in Nat
        BY MaxTimeAssumption DEF TokensTypeOK
      <4>2. e[2] <= now
        BY <2>1, <3>2, <4>1 DEF Blacklisted
      <4>3. ExpiredAt(tok[p], e[2])
        BY <3>2 DEF EntriesCover
      <4> QED BY <3>1, <4>1, <4>2, <4>3, ExpiryStays
    <3> QED BY <3>1, <3>2 DEF Dead
  <2>3. TokensTypeOK' /\ IssuedInThePast' /\ Presented' /\ EntriesCover' /\ RevokedAreDead'
    BY <2>1 DEF TokensTypeOK, IssuedInThePast, Presented, EntriesCover, RevokedAreDead
  <2>4. LateAreStopped'
    BY <2>1, <2>2 DEF TokensTypeOK, LateAreStopped, Accepted
  <2> QED BY <2>3, <2>4
<1> QED BY <1>1, <1>2

(* Decode lets through only what has not expired, hence no late request.   *)
LEMMA DecodeIndInv == ASSUME TokenInv, NEW p \in Procs, Decode(p) PROVE TokenInv'
<1> USE DEF TokenInv
<1>1. CASE Refuse(p)
  BY <1>1, RefuseIndInv
<1>2. CASE ~Refuse(p)
  <2>1. /\ place[p] = "decode" /\ ~ExpiredAt(tok[p], now) /\ tok[p].type = Expected(p)
        /\ place' = [place EXCEPT ![p] = AfterDecode(p)]
        /\ UNCHANGED <<now, issued, black, revoked, op, tok, made, late>>
    BY <1>2 DEF Decode, Move, requests, Expired
  <2>2. p \notin late
    BY <2>1 DEF LateAreStopped
  <2>3. /\ AfterDecode(p) \in {"serve", "black_access", "find_user"}
        /\ AfterDecode(p) = "black_access" => op[p] = "logout" /\ tok[p].type = "access"
    BY <2>1 DEF AfterDecode, Expected
  <2>4. TokensTypeOK' /\ IssuedInThePast' /\ EntriesCover'
    BY <2>1, <2>3 DEF TokensTypeOK, IssuedInThePast, EntriesCover
  <2>5. Presented'
    BY <2>1, <2>3 DEF TokensTypeOK, Presented
  <2>6. RevokedAreDead'
    BY <2>1, <2>3 DEF TokensTypeOK, RevokedAreDead
  <2>7. LateAreStopped'
    BY <2>1, <2>2, <2>3 DEF TokensTypeOK, LateAreStopped, Accepted
  <2> QED BY <2>4, <2>5, <2>6, <2>7
<1> QED BY <1>1, <1>2

(* The steps that make the new tokens. *)
LEMMA IssueIndInv ==
    ASSUME TokenInv, NEW p \in Procs, FindUser(p) \/ IssueAccess(p) \/ IssueRefresh(p) PROVE TokenInv'
<1> USE DEF TokenInv
<1>1. now \in Nat /\ now' = now /\ black' = black /\ revoked' = revoked /\ place[p] # "idle"
  BY MaxTimeAssumption DEF TokensTypeOK, FindUser, IssueAccess, IssueRefresh
<1>2. \A y \in {"access", "refresh"} : NewToken(p, y) \in Token /\ NewToken(p, y).iat = now
  BY <1>1, SpellingsAssumption DEF Presented, NewToken, NewTokenOf, Token
<1>3. CASE FindUser(p)
  BY <1>3 DEF FindUser, Move, requests, TokensTypeOK, IssuedInThePast, Presented, EntriesCover,
     RevokedAreDead, LateAreStopped, Accepted
<1>4. CASE IssueAccess(p)
  <2>1. /\ made' = [made EXCEPT ![p] = NewToken(p, "access")]
        /\ place' = [place EXCEPT ![p] = "issue_refresh"]
        /\ issued' = issued /\ op' = op /\ tok' = tok /\ late' = late
    BY <1>4 DEF IssueAccess, Move
  <2>2. TokensTypeOK' /\ IssuedInThePast' /\ EntriesCover'
    BY <1>1, <1>2, <2>1 DEF TokensTypeOK, IssuedInThePast, EntriesCover
  <2>3. Presented'
    BY <1>1, <1>2, <2>1 DEF TokensTypeOK, Presented
  <2>4. RevokedAreDead' /\ LateAreStopped'
    BY <1>1, <1>4, <2>1 DEF TokensTypeOK, RevokedAreDead, LateAreStopped, Accepted, IssueAccess
  <2> QED BY <2>2, <2>3, <2>4
<1>5. CASE IssueRefresh(p)
  <2>1. /\ made[p] \in Token /\ made[p].iat <= now
        /\ issued' = issued \cup {made[p], NewToken(p, "refresh")} /\ Finish(p)
    BY <1>5 DEF IssueRefresh, Presented
  <2>2. TokensTypeOK' /\ IssuedInThePast' /\ EntriesCover'
    BY <1>1, <1>2, <2>1 DEF TokensTypeOK, IssuedInThePast, EntriesCover, Finish, Move
  <2>3. Presented'
    BY <1>1, <2>1 DEF TokensTypeOK, Presented, Finish, Move
  <2>4. RevokedAreDead' /\ LateAreStopped'
    BY <1>1, <2>1 DEF TokensTypeOK, RevokedAreDead, LateAreStopped, Accepted, Finish, Move
  <2> QED BY <2>2, <2>3, <2>4
<1> QED BY <1>3, <1>4, <1>5

(* An entry that Redis drops belongs to a token that has expired by then.  *)
LEMMA TickIndInv == ASSUME TokenInv, Tick PROVE TokenInv'
<1> USE DEF TokenInv, Tick, requests
<1>1. now \in Nat /\ now' \in Nat /\ now <= now' /\ now' \in 0..MaxTime
  BY MaxTimeAssumption DEF TokensTypeOK
<1>2. ASSUME NEW t \in Token, Dead(t, black, now) PROVE Dead(t, black', now')
  <2>1. CASE ExpiredAt(t, now)
    BY <1>1, <2>1, ExpiryStays DEF Dead
  <2>2. ASSUME NEW e \in black, e[1] = t PROVE Dead(t, black', now')
    <3>1. e[2] \in Nat /\ ExpiredAt(t, e[2])
      BY <2>2 DEF TokensTypeOK, EntriesCover
    <3>2. CASE e[2] <= now'
      BY <1>1, <3>1, <3>2, ExpiryStays DEF Dead
    <3>3. CASE ~(e[2] <= now')
      BY <1>1, <2>2, <3>1, <3>3 DEF Dead
    <3> QED BY <3>2, <3>3
  <2> QED BY <1>2, <2>1, <2>2 DEF Dead
<1>3. ASSUME NEW t \in Token, t.iat <= now PROVE t.iat <= now'
  BY <1>1, <1>3, LifeIsNat
<1>4. TokensTypeOK'
  BY <1>1 DEF TokensTypeOK
<1>5. IssuedInThePast'
  BY <1>3 DEF TokensTypeOK, IssuedInThePast
<1>6. Presented'
  BY <1>3 DEF Presented
<1>7. EntriesCover'
  BY DEF EntriesCover
<1>8. RevokedAreDead'
  BY <1>2 DEF TokensTypeOK, Presented, RevokedAreDead
<1>9. LateAreStopped'
  BY <1>1, <1>2, ExpiryStays DEF TokensTypeOK, Presented, LateAreStopped, Accepted
<1> QED BY <1>4, <1>5, <1>6, <1>7, <1>8, <1>9

(* Every step preserves the invariant.                                     *)
LEMMA NextIndInv == TokenInv /\ [TokensNext]_tokensVars => TokenInv'
<1> SUFFICES ASSUME TokenInv, [TokensNext]_tokensVars PROVE TokenInv'
  OBVIOUS
<1>1. ASSUME NEW p \in Procs, Handle(p) PROVE TokenInv'
  BY <1>1, RefuseIndInv, BlackAccessIndInv, BlackRefreshIndInv, ArriveIndInv, CheckIndInv,
     DecodeIndInv, IssueIndInv DEF Handle, Serve, Fail
<1>2. CASE Tick
  BY <1>2, TickIndInv
<1>3. CASE UNCHANGED tokensVars
  BY <1>3 DEF tokensVars, requests, TokenInv, TokensTypeOK, IssuedInThePast, Presented, EntriesCover,
     RevokedAreDead, LateAreStopped, Accepted
<1> QED BY <1>1, <1>2, <1>3 DEF TokensNext

(* The invariant holds in every behaviour.                                 *)
LEMMA Invariance == TokensSpec => []TokenInv
BY InitIndInv, NextIndInv, PTL DEF TokensSpec

(* Every variable keeps its type.                                          *)
THEOREM TokenTyping == TokensSpec => []TokensTypeOK
<1>1. TokenInv => TokensTypeOK
  BY DEF TokenInv
<1> QED BY <1>1, Invariance, PTL

(* No route accepts a token whose logout was answered before the request   *)
(* came in, whatever happens between the blacklist check and the decoding. *)
THEOREM LogoutIsFinal == TokensSpec => []RevokedStaysOut
<1>1. TokenInv => RevokedStaysOut
  BY DEF TokenInv, TokensTypeOK, LateAreStopped, RevokedStaysOut
<1> QED BY <1>1, Invariance, PTL

(* A step lifts the revocation of a token only when the token expires.     *)
THEOREM RevocationHolds == TokensSpec => NeverLifted
<1> DEFINE Held == \A t \in {e[1] : e \in black} : Blacklisted(t) => Blacklisted(t)' \/ Expired(t)'
<1>1. TokenInv /\ [TokensNext]_tokensVars => [Held]_tokensVars
  <2> SUFFICES ASSUME TokenInv, [TokensNext]_tokensVars, NEW t \in {e[1] : e \in black}, Blacklisted(t)
               PROVE  Blacklisted(t)' \/ Expired(t)'
    OBVIOUS
  <2>1. now \in Nat /\ t \in Token
    BY MaxTimeAssumption DEF TokenInv, TokensTypeOK
  <2>2. PICK e \in black : e[1] = t /\ now < e[2] /\ e[2] \in Nat /\ ExpiredAt(t, e[2])
    BY DEF Blacklisted, TokenInv, TokensTypeOK, EntriesCover
  <2>3. CASE black' = black /\ now' = now
    BY <2>2, <2>3 DEF Blacklisted
  <2>4. CASE Tick
    <3>1. now' = now + 1 /\ black' = {x \in black : now + 1 < x[2]}
      BY <2>4 DEF Tick
    <3>2. CASE now' < e[2]
      BY <2>2, <3>1, <3>2 DEF Blacklisted
    <3>3. CASE ~(now' < e[2])
      <4>1. ExpiredAt(t, now')
        BY <2>1, <2>2, <3>1, <3>3, ExpiryStays
      <4> QED BY <4>1 DEF Expired
    <3> QED BY <3>2, <3>3
  <2>5. ASSUME NEW s \in Token, s.iat <= now, NEW secs \in Nat, Life(s) <= secs,
               Blacklist(s, secs), now' = now
        PROVE  Blacklisted(t)' \/ Expired(t)'
    <3>1. CASE s # t
      BY <2>2, <2>5, <3>1 DEF Blacklist, Blacklisted
    <3>2. CASE s = t
      <4>1. t.iat \in Nat /\ t.iat <= now /\ Life(t) \in Nat /\ Life(t) <= secs
        BY <2>1, <2>5, <3>2, LifeIsNat
      <4>2. CASE secs = 0
        <5>1. ExpiredAt(t, now)
          BY <2>1, <4>1, <4>2 DEF ExpiredAt
        <5> QED BY <2>5, <5>1 DEF Expired
      <4>3. CASE secs # 0
        <5>1. <<t, now + secs>> \in black' /\ <<t, now + secs>>[1] = t /\ now' < <<t, now + secs>>[2]
          BY <2>1, <2>5, <3>2, <4>3 DEF Blacklist
        <5> QED BY <5>1 DEF Blacklisted
      <4> QED BY <4>2, <4>3
    <3> QED BY <3>1, <3>2
  <2>6. ASSUME NEW p \in Procs, BlackAccess(p) PROVE Blacklisted(t)' \/ Expired(t)'
    <3>1. /\ tok[p] \in Token /\ tok[p].iat <= now /\ Life(tok[p]) <= AccessTTL
          /\ Blacklist(tok[p], AccessTTL) /\ now' = now
      BY <2>6, LivesAssumption DEF TokenInv, Presented, BlackAccess, Life
    <3> QED BY <2>5, <3>1, LivesAssumption
  <2>7. ASSUME NEW p \in Procs, BlackRefresh(p) PROVE Blacklisted(t)' \/ Expired(t)'
    <3>1. PICK r \in Spelt : Blacklist(r, RefreshTTL) /\ now' = now
      BY <2>7 DEF BlackRefresh
    <3>2. r \in Token /\ r.iat <= now /\ Life(r) <= RefreshTTL
      BY SpeltAreTokens, LivesAssumption DEF Life
    <3> QED BY <2>5, <3>1, <3>2, LivesAssumption
  <2>8. ASSUME NEW p \in Procs, Handle(p), ~BlackAccess(p), ~BlackRefresh(p)
        PROVE  black' = black /\ now' = now
    BY <2>8 DEF Handle, Login, Present, CheckBlacklist, Decode, Serve, FindUser, IssueAccess,
       IssueRefresh, Fail, Refuse
  <2>9. CASE UNCHANGED tokensVars
    BY <2>3, <2>9 DEF tokensVars
  <2> QED BY <2>3, <2>4, <2>6, <2>7, <2>8, <2>9 DEF TokensNext
<1> QED BY <1>1, Invariance, PTL DEF TokensSpec, NeverLifted
=============================================================================
