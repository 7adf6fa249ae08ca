-------------------------- MODULE FeedCacheProofs --------------------------
(***************************************************************************)
(* Proofs about FeedCache.tla, for any viewers, posts, readers and sizes.  *)
(***************************************************************************)
EXTENDS FeedCache, FunctionTheorems, FiniteSetTheorems, TLAPS

(* Finitely many posts have been created, so feeds and reads are finite.   *)
Born == {p \in Posts : state[p] # "unborn"}
Finite ==
    /\ IsFiniteSet(Born)
    /\ \A u \in Viewers : IsFiniteSet(feed[u])
    /\ \A r \in Readers : IsFiniteSet(got[r])

(* What a reader that has begun has been asked for.                        *)
Asked(r) ==
    /\ pc[r] # "idle" => who[r] \in Viewers /\ limit[r] \in Limits
    /\ pc[r] \in {"score", "set"} => got[r] # {}

FeedInv == TypeOK /\ Finite /\ \A r \in Readers : Asked(r)

(* A post that is not disturbed: at most one task of it is in flight, no   *)
(* read may end in a cache fill meanwhile, and every feed is right but for *)
(* what a task will still do and what another spelling has missed; behind  *)
(* a removal that finds the post nothing is left of it.                    *)
Current(m) == state[m.post] = "live" /\ m.ver = ver[m.post]

OneTask(p) ==
    /\ p \in fan => rem[p] = {}
    /\ \A s, t \in rem[p] : s = t
NoFill(p) == InFlight(p) => \A r \in Readers : ~Filling(r)
FeedsRight(p) == \A u \in Viewers :
    /\ \A m \in Of(p, feed[u]) : InFlight(p) \/ p \in missed \/ Current(m)
    /\ \A m, n \in Of(p, feed[u]) : m = n
NotYetThere(p) == p \in fan => state[p] = "live" /\ ver[p] = 0 /\ \A u \in Viewers : Of(p, feed[u]) = {}
GoneBehind(p) == \A t \in rem[p] :
    /\ t.key \notin t.todo
    /\ t.same => \A u \in Viewers \ t.todo : Of(p, feed[u]) \subseteq IF u = t.key THEN t.found ELSE {}
    /\ ~t.same => p \in missed
ReadsRight(p) == \A r \in Readers : pc[r] \in {"posts", "score", "set"} =>
    \A m \in Of(p, got[r]) : m.by = "read" /\ Current(m)

Right(p) == OneTask(p) /\ NoFill(p) /\ FeedsRight(p) /\ NotYetThere(p) /\ GoneBehind(p) /\ ReadsRight(p)

(* A post that is not there yet has not been changed.                      *)
UnbornIsNew == \A p \in Posts : state[p] = "unborn" => ver[p] = 0 /\ p \notin missed
QuietInv == FeedInv /\ UnbornIsNew /\ \A p \in Posts \ disturbed : Right(p)

(* The image of a finite set is finite.                                    *)
LEMMA ImageIsFinite ==
    ASSUME NEW S, IsFiniteSet(S), NEW f, DOMAIN f = S, f = [x \in S |-> f[x]]
    PROVE  IsFiniteSet({f[x] : x \in S})
<1> DEFINE T == {f[x] : x \in S}
<1>1. f \in Surjection(S, T)
  BY DEF Surjection
<1> QED BY <1>1, FS_Surjection

(* What a trim keeps. *)
LEMMA TrimmedKeeps ==
    ASSUME NEW M, IsFiniteSet(M), NEW T \in Trimmed(M)
    PROVE  T \subseteq M /\ IsFiniteSet(T) /\ Cardinality(T) <= MaxFeed /\ (M # {} => T # {})
<1>1. T \subseteq M /\ ((T = M /\ Cardinality(M) <= MaxFeed) \/ Cardinality(T) = MaxFeed)
  BY DEF Trimmed
<1>2. IsFiniteSet(T) /\ Cardinality(T) \in Nat
  BY <1>1, FS_Subset, FS_CardinalityType
<1>3. Cardinality(T) <= MaxFeed
  BY <1>1, <1>2, SizesAssumption
<1>4. M # {} => T # {}
  BY <1>1, FS_EmptySet, SizesAssumption
<1> QED BY <1>1, <1>2, <1>3, <1>4

(* What a fan-out leaves in a feed. *)
LEMMA FanOutFeeds ==
    ASSUME FeedInv, NEW p \in Posts, FanOut(p), NEW u \in Viewers
    PROVE  /\ feed'[u] \subseteq feed[u] \cup {Payload(p)}
           /\ IsFiniteSet(feed'[u]) /\ Cardinality(feed'[u]) <= MaxFeed /\ feed'[u] # {}
<1>1. IsFiniteSet(feed[u] \cup {Payload(p)})
  BY FS_AddElement DEF FeedInv, Finite
<1>2. feed'[u] \in Trimmed(feed[u] \cup {Payload(p)})
  BY DEF FanOut
<1> QED BY <1>1, <1>2, TrimmedKeeps

(* What a cache fill stores. *)
LEMMA FillFeeds ==
    ASSUME FeedInv, NEW r \in Readers, SetFeed(r)
    PROVE  /\ who[r] \in Viewers
           /\ \/ UNCHANGED cached
              \/ /\ ttl' = ttl \cup {who[r]}
                 /\ \E T : /\ T \subseteq got[r] /\ IsFiniteSet(T) /\ Cardinality(T) <= MaxFeed /\ T # {}
                           /\ feed' = [feed EXCEPT ![who[r]] = T]
<1>1. who[r] \in Viewers /\ got[r] # {} /\ IsFiniteSet(got[r])
  BY DEF FeedInv, Asked, Finite, SetFeed
<1> QED BY <1>1, TrimmedKeeps DEF SetFeed

(* Redis starts empty, and no post has been created.                       *)
LEMMA InitFeedInv == Init => FeedInv
<1> SUFFICES ASSUME Init PROVE FeedInv
  OBVIOUS
<1> USE DEF Init
<1>1. TypeOK
  <2>1. Cardinality({}) <= MaxFeed /\ 0 \in Versions
    BY FS_EmptySet, SizesAssumption DEF Versions
  <2>2. feed \in [Viewers -> SUBSET Members] /\ rem \in [Posts -> SUBSET Removals] /\ got \in [Readers -> SUBSET Members]
    OBVIOUS
  <2>3. \A u \in Viewers : Cardinality(feed[u]) <= MaxFeed
    BY <2>1
  <2>4. ttl \subseteq {u \in Viewers : feed[u] # {}} /\ fan \subseteq Posts
    OBVIOUS
  <2> QED BY <2>1, <2>2, <2>3, <2>4 DEF TypeOK
<1>2. Finite
  BY FS_EmptySet DEF Finite, Born
<1> QED BY <1>1, <1>2 DEF FeedInv, Asked

(* Rows are written, and a task is started. *)
LEMMA WriteFeedInv ==
    ASSUME FeedInv, NEW p \in Posts, CreatePost(p) \/ UpdatePost(p) \/ DeletePost(p) PROVE FeedInv'
<1> USE DEF FeedInv, cached, reader, Begin
<1>0. UNCHANGED <<cached, reader>>
  BY DEF CreatePost, UpdatePost, DeletePost
<1>1. TypeOK'
  <2>1. CASE CreatePost(p)
    BY <2>1 DEF TypeOK, CreatePost
  <2>2. CASE UpdatePost(p) \/ DeletePost(p)
    <3>1. rem' \in [Posts -> SUBSET Removals] /\ missed' \subseteq Posts
      BY <2>2 DEF TypeOK, UpdatePost, DeletePost, StartRemoval, Removal, Removals
    <3>2. ver' \in [Posts -> Versions]
      <4>1. UpdatePost(p) => ver[p] + 1 \in Versions
        BY SizesAssumption DEF TypeOK, UpdatePost, Versions
      <4> QED BY <2>2, <4>1 DEF TypeOK, UpdatePost, DeletePost
    <3>3. state' \in [Posts -> {"unborn", "live", "deleted"}] /\ fan' = fan
      BY <2>2 DEF TypeOK, UpdatePost, DeletePost
    <3>4. disturbed' \subseteq Posts
      BY <2>2 DEF TypeOK, UpdatePost, DeletePost
    <3> QED BY <1>0, <3>1, <3>2, <3>3, <3>4 DEF TypeOK
  <2> QED BY <2>1, <2>2
<1>2. Finite'
  <2>1. Born' \subseteq Born \cup {p}
    BY DEF TypeOK, Born, CreatePost, UpdatePost, DeletePost
  <2>2. IsFiniteSet(Born')
    BY <2>1, FS_AddElement, FS_Subset DEF Finite
  <2> QED BY <1>0, <2>2 DEF Finite
<1> QED BY <1>0, <1>1, <1>2 DEF Asked

(* Removals run, or a task is lost.                                        *)
LEMMA TaskFeedInv ==
    ASSUME FeedInv, NEW p \in Posts,
           RemovalReads(p) \/ RemovalDeletes(p) \/ RemovalEnds(p) \/ LoseTask(p)
    PROVE  FeedInv'
<1> USE DEF FeedInv, posts, reader, cached, tasks
<1>0. /\ UNCHANGED <<posts, reader>> /\ disturbed' \subseteq Posts /\ fan' \subseteq fan
      /\ feed' \in [Viewers -> SUBSET Members] /\ \A u \in Viewers : feed'[u] \subseteq feed[u]
      /\ ttl' \subseteq {u \in ttl : feed'[u] # {}}
  <2>1. CASE RemovalReads(p) \/ RemovalEnds(p) \/ LoseTask(p)
    BY <2>1 DEF TypeOK, RemovalReads, RemovalEnds, LoseTask
  <2>2. CASE RemovalDeletes(p)
    <3>1. PICK t \in rem[p] : t.key # "none" /\ Store(t.key, feed[t.key] \ t.found)
      BY <2>2 DEF RemovalDeletes
    <3>2. t.key \in Viewers
      BY <3>1 DEF TypeOK, Removals
    <3>3. feed' \in [Viewers -> SUBSET Members] /\ \A u \in Viewers : feed'[u] \subseteq feed[u]
      BY <3>1, <3>2 DEF TypeOK, Store
    <3>4. ttl' \subseteq {u \in ttl : feed'[u] # {}}
      BY <3>1, <3>2 DEF TypeOK, Store
    <3> QED BY <2>2, <3>3, <3>4 DEF TypeOK, RemovalDeletes
  <2> QED BY <2>1, <2>2
<1>1. \A u \in Viewers : IsFiniteSet(feed'[u]) /\ Cardinality(feed'[u]) <= MaxFeed
  BY <1>0, FS_Subset, FS_CardinalityType, SizesAssumption DEF TypeOK, Finite
<1>2. rem' \in [Posts -> SUBSET Removals]
  <2>1. CASE RemovalReads(p)
    <3>1. PICK t \in rem[p], u \in Viewers :
            rem' = [rem EXCEPT ![p] = (@ \ {t}) \cup
                      {[t EXCEPT !.todo = @ \ {u}, !.key = u, !.found = Named(t, p, feed[u])]}]
      BY <2>1 DEF RemovalReads
    <3>2. [t EXCEPT !.todo = @ \ {u}, !.key = u, !.found = Named(t, p, feed[u])] \in Removals
      <4>1. t \in Removals /\ Named(t, p, feed[u]) \subseteq Members
        BY DEF TypeOK, Named, Of
      <4> QED BY <4>1 DEF Removals
    <3> QED BY <3>1, <3>2 DEF TypeOK
  <2>2. CASE RemovalDeletes(p)
    <3>1. PICK t \in rem[p] : rem' = [rem EXCEPT ![p] = (@ \ {t}) \cup {Removal(t.same, t.todo)}]
      BY <2>2 DEF RemovalDeletes
    <3>2. Removal(t.same, t.todo) \in Removals
      BY DEF TypeOK, Removals, Removal
    <3> QED BY <3>1, <3>2 DEF TypeOK
  <2>3. CASE RemovalEnds(p) \/ LoseTask(p)
    BY <2>3 DEF TypeOK, RemovalEnds, LoseTask
  <2> QED BY <2>1, <2>2, <2>3
<1>3. TypeOK'
  BY <1>0, <1>1, <1>2 DEF TypeOK
<1>4. Finite'
  BY <1>0, <1>1 DEF Finite, Born
<1> QED BY <1>0, <1>3, <1>4 DEF Asked

LEMMA FanOutFeedInv == ASSUME FeedInv, NEW p \in Posts, FanOut(p) PROVE FeedInv'
<1> USE DEF FeedInv, posts, reader, FanOut
<1>1. feed' \in [Viewers -> SUBSET Members]
  <2>1. Payload(p) \in Members
    BY SizesAssumption DEF Payload, Members, Versions
  <2>2. feed' = [u \in Viewers |-> feed'[u]]
    OBVIOUS
  <2>3. \A u \in Viewers : feed'[u] \in SUBSET Members
    BY <2>1, FanOutFeeds DEF TypeOK
  <2> QED BY <2>2, <2>3
<1>2. TypeOK'
  BY <1>1, FanOutFeeds DEF TypeOK
<1>3. Finite'
  BY FanOutFeeds DEF Finite, Born
<1> QED BY <1>2, <1>3 DEF Asked

(* What a reader holds is finite and of its type. *)
LEMMA ReadsFinite ==
    ASSUME FeedInv, NEW r \in Readers, ReadIds(r) \/ ReadPosts(r) \/ Score(r)
    PROVE  got' \in [Readers -> SUBSET Members] /\ \A q \in Readers : IsFiniteSet(got'[q])
<1> USE DEF FeedInv, TypeOK
<1>1. CASE ReadIds(r)
  <2> DEFINE live == {q \in Posts : state[q] = "live"}
             f == [q \in live |-> [post |-> q, ver |-> ver[q], by |-> "read"]]
  <2>1. IsFiniteSet(live)
    <3>1. live \subseteq Born
      BY DEF Born
    <3> QED BY <3>1, FS_Subset DEF Finite
  <2>2. IsFiniteSet({f[q] : q \in live})
    <3> HIDE DEF live
    <3>1. DOMAIN f = live /\ f = [q \in live |-> f[q]]
      OBVIOUS
    <3> HIDE DEF f
    <3> QED BY <2>1, <3>1, ImageIsFinite
  <2>3. {f[q] : q \in live} = {[post |-> q, ver |-> ver[q], by |-> "read"] : q \in live}
    OBVIOUS
  <2>4. {f[q] : q \in live} \subseteq Members
    <3>1. \A q \in live : [post |-> q, ver |-> ver[q], by |-> "read"] \in Members
      BY DEF Members
    <3> QED BY <3>1
  <2>5. got' = [got EXCEPT ![r] = {f[q] : q \in live}]
    BY <1>1, <2>3 DEF ReadIds
  <2> HIDE DEF f, live
  <2> QED BY <2>2, <2>4, <2>5 DEF Finite
<1>2. CASE ReadPosts(r)
  <2> DEFINE f == [m \in got[r] |-> [m EXCEPT !.ver = ver[m.post]]]
  <2>1. IsFiniteSet({f[m] : m \in got[r]})
    <3>1. DOMAIN f = got[r] /\ f = [m \in got[r] |-> f[m]]
      OBVIOUS
    <3>2. IsFiniteSet(got[r])
      BY DEF Finite
    <3> HIDE DEF f
    <3> QED BY <3>1, <3>2, ImageIsFinite
  <2>2. {f[m] : m \in got[r]} = {[m EXCEPT !.ver = ver[m.post]] : m \in got[r]}
    OBVIOUS
  <2>3. {f[m] : m \in got[r]} \subseteq Members
    <3>1. \A m \in got[r] : [m EXCEPT !.ver = ver[m.post]] \in Members
      BY DEF Members
    <3> QED BY <3>1
  <2>4. got' \in {[got EXCEPT ![r] = {f[m] : m \in got[r]}], [got EXCEPT ![r] = {}]}
    BY <1>2, <2>2 DEF ReadPosts, Answer
  <2> HIDE DEF f
  <2> QED BY <2>1, <2>3, <2>4, FS_EmptySet DEF Finite
<1>3. CASE Score(r)
  <2>1. PICK T \in SUBSET got[r] : got' = [got EXCEPT ![r] = T]
    BY <1>3 DEF Score, Answer, Best
  <2>2. IsFiniteSet(T)
    BY FS_Subset DEF Finite
  <2> QED BY <2>1, <2>2 DEF Finite
<1> QED BY <1>1, <1>2, <1>3

(* Requests move on. *)
LEMMA ReaderFeedInv ==
    ASSUME FeedInv, NEW r \in Readers, Request(r) \/ ReadStep(r)
    PROVE  FeedInv'
<1> USE DEF FeedInv, posts, cached, tasks, Goto
<1>1. CASE Request(r)
  BY <1>1 DEF TypeOK, Finite, Born, Asked, Request
<1>2. CASE LookUp(r)
  BY <1>2, FS_EmptySet DEF TypeOK, Finite, Born, Asked, LookUp, Answer
<1>3. CASE ReadIds(r) \/ ReadPosts(r) \/ Score(r)
  <2>1. TypeOK'
    BY <1>3, ReadsFinite DEF TypeOK, ReadIds, ReadPosts, Score, Answer
  <2>2. Finite'
    BY <1>3, ReadsFinite DEF Finite, Born, ReadIds, ReadPosts, Score
  <2>3. ASSUME NEW q \in Readers PROVE Asked(q)'
    <3>1. CASE ReadIds(r) \/ q # r
      BY <1>3, <3>1 DEF TypeOK, Asked, ReadIds, ReadPosts, Score, Answer
    <3>2. CASE ReadPosts(r) /\ q = r
      <4>1. CASE Answer(r)
        BY <3>2, <4>1 DEF TypeOK, Asked, Answer
      <4>2. ASSUME got[r] # {} PROVE {[m EXCEPT !.ver = ver[m.post]] : m \in got[r]} # {}
        BY <4>2
      <4> QED BY <3>2, <4>1, <4>2 DEF TypeOK, Asked, ReadPosts
    <3>3. CASE Score(r) /\ q = r
      <4>1. CASE Answer(r)
        BY <3>3, <4>1 DEF TypeOK, Asked, Answer
      <4>2. ASSUME NEW T \in Best(got[r], Clamp(limit[r])) PROVE T # {}
        <5>1. limit[r] \in Int /\ got[r] # {}
          BY <3>3, SizesAssumption DEF Asked, Score
        <5>2. Clamp(limit[r]) >= 1
          BY <5>1 DEF Clamp
        <5> QED BY <4>2, <5>1, <5>2, FS_EmptySet DEF Best
      <4> QED BY <3>3, <4>1, <4>2 DEF TypeOK, Asked, Score
    <3> QED BY <1>3, <3>1, <3>2, <3>3
  <2> QED BY <2>1, <2>2, <2>3
<1>4. CASE SetFeed(r)
  <2>1. TypeOK'
    <3>1. /\ UNCHANGED <<posts, tasks, disturbed>> /\ pc' \in [Readers -> {"idle", "cache", "ids", "posts", "score", "set"}]
          /\ who' \in [Readers -> Viewers \cup {"none"}] /\ limit' \in [Readers -> Limits \cup {0}]
          /\ got' \in [Readers -> SUBSET Members]
      BY <1>4 DEF TypeOK, SetFeed, Answer
    <3>2. /\ feed' \in [Viewers -> SUBSET Members] /\ \A u \in Viewers : Cardinality(feed'[u]) <= MaxFeed
          /\ ttl' \subseteq {u \in Viewers : feed'[u] # {}}
      BY <1>4, FillFeeds DEF TypeOK
    <3> QED BY <3>1, <3>2 DEF TypeOK
  <2>2. Finite'
    BY <1>4, FillFeeds, FS_EmptySet DEF TypeOK, Finite, Born, SetFeed, Answer
  <2> QED BY <1>4, <2>1, <2>2 DEF TypeOK, Asked, SetFeed, Answer
<1> QED BY <1>1, <1>2, <1>3, <1>4 DEF ReadStep

(* Type correctness is inductive, with the finiteness it needs.            *)
LEMMA NextFeedInv == FeedInv /\ [Next]_vars => FeedInv'
<1> SUFFICES ASSUME FeedInv, [Next]_vars PROVE FeedInv'
  OBVIOUS
<1>1. CASE UNCHANGED vars
  BY <1>1 DEF vars, FeedInv, TypeOK, Finite, Born, Asked
<1>2. ASSUME NEW u \in Viewers, Expire(u) PROVE FeedInv'
  <2> USE <1>2 DEF FeedInv, Expire, Store, posts, tasks, reader
  <2>1. TypeOK'
    BY FS_EmptySet, SizesAssumption DEF TypeOK
  <2>2. Finite'
    BY FS_EmptySet DEF TypeOK, Finite, Born
  <2> QED BY <2>1, <2>2 DEF Asked
<1> QED BY <1>1, <1>2, WriteFeedInv, TaskFeedInv, FanOutFeedInv, ReaderFeedInv DEF Next, TaskStep

(* Type correctness: feeds never exceed MAX_FEED_SIZE, and only a feed     *)
(* that has members has an expiry.                                         *)
THEOREM TypeCorrect == Spec => []TypeOK
<1>1. FeedInv => TypeOK
  BY DEF FeedInv
<1> QED BY <1>1, InitFeedInv, NextFeedInv, PTL DEF Spec

-----------------------------------------------------------------------------
(* What a step does not touch of a post stays right.                       *)
LEMMA LeftAlone ==
    ASSUME NEW q \in Posts, Right(q), UNCHANGED reader,
           state'[q] = state[q], ver'[q] = ver[q], rem'[q] = rem[q],
           q \in fan' <=> q \in fan, q \in missed' <=> q \in missed,
           \A u \in Viewers : Of(q, feed'[u]) \subseteq Of(q, feed[u])
    PROVE  Right(q)'
<1> USE DEF Right, InFlight
<1>1. OneTask(q)' /\ NoFill(q)'
  BY DEF OneTask, NoFill, Filling, reader
<1>2. ASSUME NEW m, m.post = q PROVE Current(m)' <=> Current(m)
  BY <1>2 DEF Current
<1>3. FeedsRight(q)'
  BY <1>2 DEF FeedsRight, Of
<1>4. NotYetThere(q)' /\ GoneBehind(q)'
  BY DEF NotYetThere, GoneBehind, Of
<1>5. ReadsRight(q)'
  BY <1>2 DEF ReadsRight, Of, reader
<1> QED BY <1>1, <1>3, <1>4, <1>5

(* A create, an edit or a deletion starts the only task of its post.       *)
LEMMA WriteQuiet ==
    ASSUME QuietInv, NEW p \in Posts, CreatePost(p) \/ UpdatePost(p) \/ DeletePost(p),
           NEW q \in Posts, q \notin disturbed'
    PROVE  Right(q)'
<1>0. /\ TypeOK /\ UnbornIsNew /\ UNCHANGED <<cached, reader>> /\ Begin(p)
  BY DEF QuietInv, FeedInv, CreatePost, UpdatePost, DeletePost
<1>1. Right(q)
  BY <1>0 DEF QuietInv, Begin
<1>2. CASE q # p
  <2>1. state'[q] = state[q] /\ ver'[q] = ver[q] /\ rem'[q] = rem[q]
    BY <1>0, <1>2 DEF CreatePost, UpdatePost, DeletePost, StartRemoval, TypeOK
  <2>2. (q \in fan' <=> q \in fan) /\ (q \in missed' <=> q \in missed) /\ feed' = feed
    BY <1>0, <1>2 DEF CreatePost, UpdatePost, DeletePost, StartRemoval, cached
  <2> QED BY <1>0, <1>1, <2>1, <2>2, LeftAlone
<1>3. CASE q = p
  <2>1. ~InFlight(p) /\ \A r \in Readers : ~Filling(r)
    BY <1>0, <1>3 DEF Begin
  <2>2. NoFill(p)' /\ ReadsRight(p)'
    BY <1>0, <2>1 DEF NoFill, ReadsRight, Filling, reader
  <2>3. CASE CreatePost(p)
    <3>1. /\ state[p] = "unborn" /\ state'[p] = "live" /\ p \in fan' /\ rem'[p] = {} /\ ver'[p] = 0 /\ missed' = missed
      BY <1>0, <2>1, <2>3 DEF CreatePost, InFlight, UnbornIsNew, TypeOK
    <3>2. \A u \in Viewers : Of(p, feed'[u]) = {}
      BY <1>0, <1>1, <1>3, <2>1, <3>1 DEF Right, FeedsRight, Current, Of, UnbornIsNew, cached
    <3>3. OneTask(p)' /\ GoneBehind(p)'
      BY <3>1 DEF OneTask, GoneBehind
    <3>4. FeedsRight(p)' /\ NotYetThere(p)'
      <4>1. \A u \in Viewers : Of(p, feed[u])' = {}
        BY <3>2 DEF Of
      <4> QED BY <3>1, <4>1 DEF FeedsRight, NotYetThere
    <3> QED BY <1>3, <2>2, <3>3, <3>4 DEF Right
  <2>4. CASE UpdatePost(p) \/ DeletePost(p)
    <3>1. PICK same \in BOOLEAN, S \in SUBSET Viewers :
            /\ {u \in Viewers : feed[u] # {}} \subseteq S
            /\ rem' = [rem EXCEPT ![p] = @ \cup {Removal(same, S)}]
            /\ missed' = IF same THEN missed \ {p} ELSE missed \cup {p}
      BY <2>4 DEF UpdatePost, DeletePost, StartRemoval
    <3>2. fan' = fan /\ feed' = feed /\ p \notin fan' /\ rem'[p] = {Removal(same, S)}
      BY <1>0, <2>1, <2>4, <3>1 DEF UpdatePost, DeletePost, InFlight, TypeOK, cached
    <3>3. OneTask(p)' /\ NotYetThere(p)'
      BY <3>2 DEF OneTask, NotYetThere
    <3>4. InFlight(p)'
      BY <3>2 DEF InFlight
    <3>5. FeedsRight(p)'
      BY <1>1, <1>3, <3>2, <3>4 DEF Right, FeedsRight, Of
    <3>6. GoneBehind(p)'
      <4>1. Removal(same, S).key \notin Removal(same, S).todo /\ Removal(same, S).same = same
        BY NamesAssumption DEF Removal
      <4>2. \A u \in Viewers \ S : Of(p, feed[u])' = {}
        BY <3>1, <3>2 DEF Of
      <4>3. Removal(same, S).todo = S
        BY DEF Removal
      <4> QED BY <3>1, <3>2, <4>1, <4>2, <4>3 DEF GoneBehind
    <3> QED BY <1>3, <2>2, <3>3, <3>5, <3>6 DEF Right
  <2> QED BY <2>3, <2>4
<1> QED BY <1>2, <1>3

(* One key of a removal is read. *)
LEMMA RemovalReadsQuiet ==
    ASSUME QuietInv, NEW p \in Posts, RemovalReads(p), p \notin disturbed PROVE Right(p)'
<1>1. PICK t \in rem[p], u \in Viewers :
        /\ t.key = "none" /\ u \in t.todo
        /\ rem' = [rem EXCEPT ![p] = (@ \ {t}) \cup
                     {[t EXCEPT !.todo = @ \ {u}, !.key = u, !.found = Named(t, p, feed[u])]}]
  BY DEF RemovalReads
<1>2. /\ Right(p) /\ TypeOK /\ UNCHANGED <<posts, cached, fan, reader>>
  BY DEF QuietInv, FeedInv, RemovalReads
<1> DEFINE s == [t EXCEPT !.todo = @ \ {u}, !.key = u, !.found = Named(t, p, feed[u])]
<1>3. rem[p] = {t} /\ p \notin fan /\ t \in Removals
  BY <1>2 DEF Right, OneTask, TypeOK
<1>4. rem'[p] = {s} /\ InFlight(p) /\ InFlight(p)'
  BY <1>1, <1>2, <1>3 DEF TypeOK, InFlight
<1>5. OneTask(p)' /\ NoFill(p)' /\ NotYetThere(p)'
  BY <1>2, <1>3, <1>4 DEF Right, OneTask, NoFill, NotYetThere, Filling, reader
<1>6. FeedsRight(p)' /\ ReadsRight(p)'
  BY <1>2, <1>4 DEF Right, FeedsRight, ReadsRight, Current, Of, posts, cached, reader
<1>7. GoneBehind(p)'
  <2>1. s.same = t.same /\ s.key = u /\ s.todo = t.todo \ {u} /\ s.found = Named(t, p, feed[u])
    BY <1>3 DEF Removals
  <2>2. t.same => \A v \in Viewers \ t.todo : Of(p, feed[v]) = {}
    BY <1>1, <1>2, NamesAssumption DEF Right, GoneBehind
  <2>3. t.same => \A v \in Viewers \ s.todo : Of(p, feed[v])' \subseteq IF v = s.key THEN s.found ELSE {}
    BY <1>2, <2>1, <2>2 DEF Named, Of, cached
  <2>4. ~t.same => p \in missed'
    BY <1>2 DEF Right, GoneBehind, posts
  <2> HIDE DEF s
  <2> QED BY <1>4, <2>1, <2>3, <2>4 DEF GoneBehind
<1> QED BY <1>5, <1>6, <1>7 DEF Right

(* What was read of one key is deleted.                                    *)
LEMMA RemovalDeletesQuiet ==
    ASSUME QuietInv, NEW p \in Posts, RemovalDeletes(p), p \notin disturbed PROVE Right(p)'
<1>1. PICK t \in rem[p] :
        /\ t.key # "none" /\ Store(t.key, feed[t.key] \ t.found)
        /\ rem' = [rem EXCEPT ![p] = (@ \ {t}) \cup {Removal(t.same, t.todo)}]
  BY DEF RemovalDeletes
<1>2. /\ Right(p) /\ TypeOK /\ UNCHANGED <<posts, fan, reader>>
  BY DEF QuietInv, FeedInv, RemovalDeletes
<1>3. rem[p] = {t} /\ p \notin fan /\ t \in Removals
  BY <1>2 DEF Right, OneTask, TypeOK
<1>4. rem'[p] = {Removal(t.same, t.todo)} /\ InFlight(p) /\ InFlight(p)'
  BY <1>1, <1>2, <1>3 DEF TypeOK, InFlight
<1>5. OneTask(p)' /\ NoFill(p)' /\ NotYetThere(p)'
  BY <1>2, <1>3, <1>4 DEF Right, OneTask, NoFill, NotYetThere, Filling, reader
<1>6. t.key \in Viewers /\ feed' = [feed EXCEPT ![t.key] = feed[t.key] \ t.found]
  BY <1>1, <1>3 DEF Removals, Store
<1>7. FeedsRight(p)' /\ ReadsRight(p)'
  <2>1. \A v \in Viewers : Of(p, feed[v])' \subseteq Of(p, feed[v])
    BY <1>2, <1>6 DEF Of, TypeOK
  <2>2. FeedsRight(p)'
    BY <1>2, <1>4, <2>1 DEF Right, FeedsRight
  <2> QED BY <1>2, <2>2 DEF Right, ReadsRight, Current, Of, posts, reader
<1>8. GoneBehind(p)'
  <2>1. t.same => \A v \in Viewers \ t.todo : Of(p, feed[v])' = {}
    BY <1>2, <1>3, <1>6 DEF Right, GoneBehind, Of, TypeOK
  <2>2. /\ Removal(t.same, t.todo).key \notin t.todo /\ Removal(t.same, t.todo).todo = t.todo
        /\ Removal(t.same, t.todo).same = t.same
    BY <1>3, NamesAssumption DEF Removal, Removals
  <2>3. ~t.same => p \in missed'
    BY <1>2, <1>3 DEF Right, GoneBehind, posts
  <2> QED BY <1>4, <2>1, <2>2, <2>3 DEF GoneBehind
<1> QED BY <1>5, <1>7, <1>8 DEF Right

(* A removal that has visited every key has left nothing of the post, or   *)
(* did not find it.                                                        *)
LEMMA RemovalEndsQuiet ==
    ASSUME QuietInv, NEW p \in Posts, RemovalEnds(p), p \notin disturbed PROVE Right(p)'
<1>1. PICK t \in rem[p] : t.key = "none" /\ t.todo = {} /\ rem' = [rem EXCEPT ![p] = @ \ {t}]
  BY DEF RemovalEnds
<1>2. /\ Right(p) /\ TypeOK /\ UNCHANGED <<posts, cached, fan, reader>>
  BY DEF QuietInv, FeedInv, RemovalEnds
<1>3. rem[p] = {t} /\ p \notin fan
  BY <1>2 DEF Right, OneTask
<1>4. rem'[p] = {} /\ ~InFlight(p)'
  BY <1>1, <1>2, <1>3 DEF TypeOK, InFlight
<1>5. OneTask(p)' /\ NoFill(p)' /\ NotYetThere(p)' /\ GoneBehind(p)'
  BY <1>2, <1>3, <1>4 DEF OneTask, NoFill, NotYetThere, GoneBehind
<1>6. ReadsRight(p)'
  BY <1>2 DEF Right, ReadsRight, Current, Of, reader, posts
<1>7. FeedsRight(p)'
  <2>1. p \in missed' \/ \A u \in Viewers : Of(p, feed[u])' = {}
    BY <1>1, <1>2, NamesAssumption DEF Right, GoneBehind, Of, cached, posts
  <2>2. \A u \in Viewers : \A m, n \in Of(p, feed[u])' : m = n
    BY <1>2 DEF Right, FeedsRight, Of, cached
  <2> QED BY <2>1, <2>2 DEF FeedsRight
<1> QED BY <1>5, <1>6, <1>7 DEF Right

(* A fan-out that nothing has overtaken adds the post to feeds without it. *)
LEMMA FanOutQuiet ==
    ASSUME QuietInv, NEW p \in Posts, FanOut(p), p \notin disturbed PROVE Right(p)'
<1>1. /\ Right(p) /\ TypeOK /\ FeedInv /\ UNCHANGED <<posts, rem, reader>> /\ p \in fan /\ fan' = fan \ {p}
  BY DEF QuietInv, FeedInv, FanOut
<1>2. p \notin fan' /\ rem'[p] = {}
  BY <1>1 DEF Right, OneTask
<1>3. OneTask(p)' /\ NoFill(p)' /\ NotYetThere(p)' /\ GoneBehind(p)'
  BY <1>2 DEF OneTask, NoFill, InFlight, NotYetThere, GoneBehind
<1>4. ReadsRight(p)'
  BY <1>1 DEF Right, ReadsRight, Current, Of, reader, posts
<1>5. FeedsRight(p)'
  <2>1. ASSUME NEW u \in Viewers PROVE Of(p, feed[u])' \subseteq {Payload(p)}
    <3>1. feed'[u] \subseteq feed[u] \cup {Payload(p)}
      BY <1>1, FanOutFeeds
    <3> QED BY <1>1, <3>1 DEF Right, NotYetThere, Of
  <2>2. Current(Payload(p))'
    BY <1>1 DEF Right, NotYetThere, Payload, Current, posts
  <2> QED BY <2>1, <2>2 DEF FeedsRight
<1> QED BY <1>3, <1>4, <1>5 DEF Right

(* A task of one post leaves the other posts alone. *)
LEMMA TaskQuiet ==
    ASSUME QuietInv, NEW p \in Posts, TaskStep(p) \/ LoseTask(p), NEW q \in Posts, q \notin disturbed'
    PROVE  Right(q)'
<1>0. /\ TypeOK /\ FeedInv /\ UNCHANGED <<posts, reader>> /\ q \notin disturbed /\ Right(q)
  BY DEF QuietInv, FeedInv, TaskStep, FanOut, RemovalReads, RemovalDeletes, RemovalEnds, LoseTask
<1>1. CASE q = p
  <2>1. ~LoseTask(p)
    BY <1>1 DEF LoseTask
  <2> QED BY <1>0, <1>1, <2>1, FanOutQuiet, RemovalReadsQuiet, RemovalDeletesQuiet, RemovalEndsQuiet DEF TaskStep
<1>2. CASE q # p
  <2>1. rem'[q] = rem[q] /\ (q \in fan' <=> q \in fan)
    BY <1>0, <1>2 DEF TypeOK, TaskStep, FanOut, RemovalReads, RemovalDeletes, RemovalEnds, LoseTask, tasks
  <2>2. ASSUME NEW u \in Viewers PROVE Of(q, feed'[u]) \subseteq Of(q, feed[u])
    <3>1. CASE FanOut(p)
      <4>1. feed'[u] \subseteq feed[u] \cup {Payload(p)}
        BY <1>0, <3>1, FanOutFeeds
      <4> QED BY <1>2, <4>1 DEF Of, Payload
    <3>2. CASE ~FanOut(p)
      BY <1>0, <3>2 DEF TypeOK, Of, TaskStep, RemovalReads, RemovalDeletes, RemovalEnds, LoseTask, Store, cached
    <3> QED BY <3>1, <3>2
  <2>3. state'[q] = state[q] /\ ver'[q] = ver[q] /\ (q \in missed' <=> q \in missed)
    BY <1>0 DEF posts
  <2> QED BY <1>0, <2>1, <2>2, <2>3, LeftAlone
<1> QED BY <1>1, <1>2

(* A read of the database disturbs the posts with a task in flight; what   *)
(* it finds of the others is current until it fills a feed.                *)
LEMMA ReaderQuiet ==
    ASSUME QuietInv, NEW r \in Readers, Request(r) \/ ReadStep(r), NEW q \in Posts, q \notin disturbed'
    PROVE  Right(q)'
<1>0. /\ TypeOK /\ FeedInv /\ UNCHANGED <<posts, tasks>> /\ q \notin disturbed
      /\ pc' \in [Readers -> {"idle", "cache", "ids", "posts", "score", "set"}]
      /\ \A o \in Readers \ {r} : pc'[o] = pc[o] /\ got'[o] = got[o]
  BY DEF QuietInv, FeedInv, TypeOK, Request, ReadStep, LookUp, ReadIds, ReadPosts, Score, SetFeed, Answer, Goto
<1>1. Right(q)
  BY <1>0 DEF QuietInv
<1>2. OneTask(q)' /\ (InFlight(q)' <=> InFlight(q))
  BY <1>0, <1>1 DEF Right, OneTask, InFlight, tasks
<1>3. NoFill(q)'
  <2>1. ASSUME InFlight(q) PROVE ~Filling(r)'
    BY <1>0, <1>1, <2>1 DEF Right, NoFill, Filling, TypeOK, Request, ReadStep, LookUp, ReadIds, ReadPosts, Score, SetFeed,
       Answer, Goto
  <2> QED BY <1>0, <1>1, <1>2, <2>1 DEF Right, NoFill, Filling
<1>4. ReadsRight(q)'
  <2> SUFFICES ASSUME pc'[r] \in {"posts", "score", "set"}, NEW m \in got'[r], m.post = q PROVE m.by = "read" /\ Current(m)
    BY <1>0, <1>1 DEF Right, ReadsRight, Current, Of, posts
  <2>1. CASE ReadIds(r)
    BY <1>0, <2>1 DEF TypeOK, ReadIds, Current
  <2>2. CASE ReadPosts(r)
    <3>1. pc[r] = "posts" /\ got' = [got EXCEPT ![r] = {[n EXCEPT !.ver = ver[n.post]] : n \in got[r]}]
      BY <1>0, <2>2 DEF TypeOK, ReadPosts, Answer
    <3>2. PICK n \in got[r] : m = [n EXCEPT !.ver = ver[n.post]]
      BY <1>0, <3>1 DEF TypeOK
    <3>3. n \in Members /\ n.post = q
      BY <1>0, <3>2 DEF TypeOK, Members
    <3>4. n.by = "read" /\ Current(n)
      BY <1>1, <3>1, <3>3 DEF Right, ReadsRight, Of
    <3> QED BY <3>2, <3>3, <3>4 DEF Current, Members
  <2>3. CASE Score(r)
    <3>1. pc[r] = "score" /\ m \in got[r]
      BY <1>0, <2>3 DEF TypeOK, Score, Answer, Best
    <3> QED BY <1>1, <3>1 DEF Right, ReadsRight, Of
  <2>4. CASE Request(r) \/ LookUp(r) \/ SetFeed(r)
    BY <1>0, <2>4 DEF TypeOK, Request, LookUp, SetFeed, Answer, Goto
  <2> QED BY <2>1, <2>2, <2>3, <2>4 DEF ReadStep
<1>5. FeedsRight(q)' /\ NotYetThere(q)' /\ GoneBehind(q)'
  <2>1. CASE UNCHANGED cached
    BY <1>0, <1>1, <1>2, <2>1 DEF Right, FeedsRight, NotYetThere, GoneBehind, Current, Of, cached, posts, tasks
  <2>2. CASE ~UNCHANGED cached
    <3>1. SetFeed(r)
      BY <2>2 DEF Request, ReadStep, LookUp, ReadIds, ReadPosts, Score
    <3>2. PICK T : T \subseteq got[r] /\ feed' = [feed EXCEPT ![who[r]] = T]
      BY <1>0, <2>2, <3>1, FillFeeds
    <3>3. ~InFlight(q)
      BY <1>1, <3>1 DEF Right, NoFill, Filling, SetFeed
    <3>4. \A m \in Of(q, T) : m \in Members /\ m.by = "read" /\ Current(m) /\ m.post = q
      BY <1>0, <1>1, <3>1, <3>2 DEF Right, ReadsRight, SetFeed, TypeOK, Of
    <3>5. \A m, n \in Of(q, T) : m = n
      BY <3>4 DEF Members, Current
    <3>6. \A u \in Viewers : Of(q, feed[u])' = Of(q, feed[u]) \/ Of(q, feed[u])' = Of(q, T)
      BY <1>0, <3>2 DEF Of, TypeOK
    <3>7. FeedsRight(q)'
      <4>1. \A m : Current(m)' <=> Current(m)
        BY <1>0 DEF Current, posts
      <4> QED BY <1>0, <1>1, <1>2, <3>4, <3>5, <3>6, <4>1 DEF Right, FeedsRight, posts
    <3>8. NotYetThere(q)' /\ GoneBehind(q)'
      BY <1>0, <3>3 DEF NotYetThere, GoneBehind, InFlight, tasks
    <3> QED BY <3>7, <3>8
  <2> QED BY <2>1, <2>2
<1> QED BY <1>2, <1>3, <1>4, <1>5 DEF Right

(* A feed that expires shows nothing wrong. *)
LEMMA ExpireQuiet ==
    ASSUME QuietInv, NEW u \in Viewers, Expire(u), NEW q \in Posts, q \notin disturbed' PROVE Right(q)'
<1>1. /\ Right(q) /\ TypeOK /\ UNCHANGED <<posts, tasks, reader>> /\ feed' = [feed EXCEPT ![u] = {}]
  BY DEF QuietInv, FeedInv, Expire, Store
<1>2. \A v \in Viewers : Of(q, feed'[v]) \subseteq Of(q, feed[v])
  BY <1>1 DEF Of, TypeOK
<1> QED BY <1>1, <1>2, LeftAlone DEF posts, tasks

(* No post has been created. *)
LEMMA InitQuietInv == Init => QuietInv
<1> SUFFICES ASSUME Init PROVE QuietInv
  OBVIOUS
<1>1. \A p \in Posts : Right(p)
  BY DEF Init, Right, OneTask, InFlight, NoFill, FeedsRight, NotYetThere, GoneBehind, ReadsRight, Of
<1>2. UnbornIsNew
  BY DEF Init, UnbornIsNew
<1> QED BY <1>1, <1>2, InitFeedInv DEF QuietInv

LEMMA NextQuietInv == QuietInv /\ [Next]_vars => QuietInv'
<1> SUFFICES ASSUME QuietInv, [Next]_vars PROVE QuietInv'
  OBVIOUS
<1>1. FeedInv'
  BY NextFeedInv DEF QuietInv
<1>2. UnbornIsNew'
  <2> USE DEF QuietInv, FeedInv, TypeOK, UnbornIsNew
  <2>1. ASSUME NEW p \in Posts, CreatePost(p) \/ UpdatePost(p) \/ DeletePost(p) PROVE UnbornIsNew'
    BY <2>1 DEF CreatePost, UpdatePost, DeletePost, StartRemoval
  <2>2. ASSUME UNCHANGED posts PROVE UnbornIsNew'
    BY <2>2 DEF posts
  <2>3. ASSUME NEW p \in Posts, TaskStep(p) \/ LoseTask(p) PROVE UnbornIsNew'
    BY <2>2, <2>3 DEF TaskStep, FanOut, RemovalReads, RemovalDeletes, RemovalEnds, LoseTask
  <2>4. ASSUME NEW r \in Readers, Request(r) \/ ReadStep(r) PROVE UnbornIsNew'
    BY <2>2, <2>4 DEF ReadStep, Request, LookUp, ReadIds, ReadPosts, Score, SetFeed
  <2>5. ASSUME NEW u \in Viewers, Expire(u) PROVE UnbornIsNew'
    BY <2>2, <2>5 DEF Expire
  <2>6. CASE UNCHANGED vars
    BY <2>2, <2>6 DEF vars, posts
  <2> QED BY <2>1, <2>3, <2>4, <2>5, <2>6 DEF Next
<1>3. ASSUME NEW q \in Posts, q \notin disturbed' PROVE Right(q)'
  <2>1. CASE UNCHANGED vars
    BY <1>3, <2>1, LeftAlone DEF vars, QuietInv, reader
  <2> QED BY <1>3, <2>1, WriteQuiet, TaskQuiet, ReaderQuiet, ExpireQuiet DEF Next
<1> QED BY <1>1, <1>2, <1>3 DEF QuietInv

(* A post whose tasks and the cache fills came one after the other is in   *)
(* no feed twice, and no feed shows it with an old text or after it was    *)
(* deleted, unless its last change spelt the id in another way than the    *)
(* service does.                                                           *)
THEOREM ExactFeeds == Spec => []ExactWhenQuiet
<1>1. QuietInv => ExactWhenQuiet
  BY DEF QuietInv, ExactWhenQuiet, Right, FeedsRight, Current, Of
<1> QED BY <1>1, InitQuietInv, NextQuietInv, PTL DEF Spec
=============================================================================
