-------------------------- MODULE ReactionsProofs --------------------------
(***************************************************************************)
(* Proofs about Reactions.tla, for any users, any reaction types and any   *)
(* number of concurrent handlers.                                          *)
(***************************************************************************)
EXTENDS Reactions, FiniteSetTheorems, TLAPS

ReactPlaces == {"react_post", "react_find", "react_delete", "react_select", "react_count", "react_insert"}
RemovePlaces == {"remove_find", "remove_post", "remove_select", "remove_count", "remove_delete"}
OtherPlaces == {"like_post", "unlike_find", "comment_post", "comment_find"}
AuthorPlaces == {"author_find", "author_select", "author_update"}

(* Which use case handler p serves.                                        *)
Reacting(p) == arg[p].user \in Users /\ arg[p].type \in Types /\ arg[p].id # 0
Removing(p) == arg[p].user \in Users /\ arg[p].type = "none" /\ arg[p].id = 0
Authoring(p) == arg[p].type \in {"text", "live"} /\ arg[p].id = 0

(* What handler p serves, and what its transaction holds, by place.        *)
HandlerOf(p) ==
    /\ pc[p] \in ReactPlaces => Reacting(p)
    /\ pc[p] \in RemovePlaces => Removing(p)
    /\ pc[p] \in AuthorPlaces => Authoring(p)
    /\ pc[p] \in OtherPlaces \cup {"idle"} => arg[p] = NoArg
    /\ pc[p] = "commit" => Reacting(p) \/ Removing(p) \/ Authoring(p)
    /\ pc[p] \in {"idle", "react_post", "react_find", "react_select", "react_count", "remove_find"}
         \cup OtherPlaces \cup AuthorPlaces => seen[p] = NoRow
    /\ pc[p] \in {"react_delete"} \cup (RemovePlaces \ {"remove_find"}) => seen[p] # NoRow
    /\ pc[p] = "commit" => (Authoring(p) => seen[p] = NoRow) /\ (Removing(p) => seen[p] # NoRow)
    /\ cols[p] # {} => pc[p] \in Updates \cup {"react_insert", "remove_delete", "commit"}
    /\ pc[p] \in Updates => cols[p] # {}
    /\ pc[p] \in {"react_insert", "commit"} /\ ~Removing(p) /\ seen[p] # NoRow => cols[p] = {}
    /\ pc[p] = "commit" /\ Reacting(p) => ins[p] = [id |-> arg[p].id, type |-> arg[p].type]
    /\ ins[p] # NoRow => pc[p] = "commit" /\ Reacting(p)
    /\ del[p] => pc[p] \in {"react_insert", "commit"} /\ seen[p] # NoRow

Handlers == \A p \in Procs : HandlerOf(p)

(* The locks on the key of a user exclude one another.                     *)
KeyExclusive == \A p, q \in Procs, u \in Users : KeyHolder(p, u) /\ KeyHolder(q, u) => p = q

(* What a transaction has deleted is the row that it had read, and it has  *)
(* inserted its own where there is none, or none any more.                 *)
HeldRow(p) ==
    /\ del[p] => row[User(p)] = seen[p]
    /\ ins[p] # NoRow => row[User(p)] = NoRow \/ del[p]
HeldRows == \A p \in Procs : HeldRow(p)

(* Reaction ids are generated once: two rows with the same id are the same *)
(* row, wherever it is, the one a handler will insert included.            *)
Intended(p) == IF arg[p].id = 0 THEN NoRow ELSE [id |-> arg[p].id, type |-> arg[p].type]
AnyRow == Rows \cup {NoRow}
Known(r) ==
    r = NoRow \/ (\E u \in Users : r = row[u]) \/ \E p \in Procs : r \in {seen[p], ins[p], Intended(p)}
IdsUnique ==
    /\ \A r \in AnyRow : Known(r) => r.id < nextId
    /\ \A r, s \in AnyRow : Known(r) /\ Known(s) /\ r.id = s.id => r = s

(* Unless it was overtaken, an entity differs from the post in no column   *)
(* but that of its use case.                                               *)
Own(p) ==
    p \notin overtaken =>
        /\ BetweenReads(p) => \A c \in Columns \ {OwnColumn(p)} : ent[p][c] = post[c]
        /\ cols[p] \subseteq {OwnColumn(p)}
OwnColumns == \A p \in Procs : Own(p)

IndInv == TypeOK /\ Handlers /\ KeyExclusive /\ HeldRows /\ IdsUnique /\ OwnColumns

(* Without overlap there is one handler, whose reads are still true.       *)
Reacted == {u \in Users : row[u] # NoRow}
Counting(p, n) == cols[p] = {"likes"} /\ ent[p].likes = n
Current(p) ==
    /\ pc[p] = "react_find" => ent[p] = post
    /\ pc[p] = "react_select" => row[User(p)] = NoRow /\ ent[p] = [post EXCEPT !.likes = @ + 1]
    /\ pc[p] = "react_count" => row[User(p)] = NoRow /\ Counting(p, post.likes + 1)
    /\ pc[p] \in {"react_insert", "commit"} /\ Reacting(p) =>
         IF seen[p] = NoRow THEN row[User(p)] = NoRow /\ Counting(p, post.likes + 1)
                            ELSE row[User(p)] = seen[p]
    /\ pc[p] \in {"react_delete"} \cup (RemovePlaces \ {"remove_find"}) => row[User(p)] = seen[p]
    /\ pc[p] = "remove_select" => ent[p] = [post EXCEPT !.likes = Decremented(@)]
    /\ pc[p] \in {"remove_count", "remove_delete"} => Counting(p, post.likes - 1)
    /\ pc[p] = "commit" /\ Removing(p) => row[User(p)] = seen[p] /\ del[p] /\ Counting(p, post.likes - 1)
    /\ pc[p] = "author_select" => ent[p].likes = post.likes
    /\ Authoring(p) => "likes" \notin cols[p]
Alone == ~overlap =>
    /\ \A p, q \in Procs : pc[p] # "idle" /\ pc[q] # "idle" => p = q
    /\ \A p \in Procs : Current(p)
CountInv == IndInv /\ IsFiniteSet(Reacted) /\ Alone /\ ExactWithoutOverlap

(* The values a handler starts with are of their types.                    *)
LEMMA Starting == Blank \in Posts /\ NoArg \in Args /\ NoRow \in AnyRow
BY MaxRowsAssumption DEF Blank, Posts, NoArg, Args, AnyRow

(* What an editing use case makes of a post is a post.                     *)
LEMMA EditedPosts ==
    ASSUME NEW e \in Posts
    PROVE  /\ [e EXCEPT !.likes = @ + 1] \in Posts
           /\ [e EXCEPT !.likes = Decremented(@)] \in Posts
           /\ \A t \in {"old", "new"} : [e EXCEPT !.text = t] \in Posts
           /\ [e EXCEPT !.live = FALSE] \in Posts
<1>1. e.likes + 1 \in Nat /\ Decremented(e.likes) \in Nat
  BY DEF Posts, Decremented
<1>2. \A n \in Nat : [e EXCEPT !.likes = n] \in Posts
  BY DEF Posts
<1>3. \A t \in {"old", "new"} : [e EXCEPT !.text = t] \in Posts
  BY DEF Posts
<1>4. [e EXCEPT !.live = FALSE] \in Posts
  BY DEF Posts
<1> QED BY <1>1, <1>2, <1>3, <1>4

(* Ids stay unique in a step that makes no new row known.                  *)
LEMMA NoNewRow ==
    ASSUME IdsUnique, nextId' = nextId, \A r \in AnyRow : Known(r)' => Known(r) PROVE IdsUnique'
BY DEF IdsUnique

(* The tables start empty and every handler idle.                          *)
LEMMA InitIndInv == Init => IndInv
<1> SUFFICES ASSUME Init PROVE IndInv
  OBVIOUS
<1> USE DEF Init
<1>1. TypeOK
  <2>1. nextId \in 1..MaxRows + 1
    BY MaxRowsAssumption
  <2>2. /\ post \in Posts /\ ent \in [Procs -> Posts] /\ arg \in [Procs -> Args]
        /\ row \in [Users -> AnyRow] /\ seen \in [Procs -> AnyRow] /\ ins \in [Procs -> AnyRow]
    BY Starting
  <2>3. /\ pc \in [Procs -> Places] /\ cols \in [Procs -> SUBSET Columns] /\ del \in [Procs -> BOOLEAN]
        /\ overlap \in BOOLEAN /\ overtaken \subseteq Procs
    BY DEF Places
  <2> QED BY <2>1, <2>2, <2>3 DEF TypeOK, AnyRow
<1>2. Handlers
  BY DEF Handlers, HandlerOf, Updates, ReactPlaces, RemovePlaces, AuthorPlaces, NoArg
<1>3. KeyExclusive /\ HeldRows
  BY DEF KeyExclusive, KeyHolder, HeldRows, HeldRow
<1>4. IdsUnique
  <2>1. \A r \in AnyRow : Known(r) => r = NoRow
    BY DEF Known, Intended, NoArg
  <2> QED BY <2>1 DEF IdsUnique, NoRow
<1>5. OwnColumns
  BY DEF OwnColumns, Own, BetweenReads
<1> QED BY <1>1, <1>2, <1>3, <1>4, <1>5 DEF IndInv

(* A rollback forgets what the handler held. *)
LEMMA RollBackIndInv == ASSUME IndInv, NEW p \in Procs, RollBack(p) PROVE IndInv'
<1> USE DEF IndInv, RollBack, Finish, Goto, db
<1>1. TypeOK'
  BY Starting DEF TypeOK, Places, AnyRow
<1>2. Handlers'
  BY DEF TypeOK, Handlers, HandlerOf, Reacting, Removing, Authoring, Updates, ReactPlaces, RemovePlaces,
     AuthorPlaces, OtherPlaces, NoArg
<1>3. KeyExclusive' /\ HeldRows'
  BY DEF TypeOK, KeyExclusive, KeyHolder, HeldRows, HeldRow, User
<1>4. IdsUnique'
  <2>1. \A r \in AnyRow : Known(r)' => Known(r)
    BY DEF TypeOK, Known, Intended, NoArg
  <2> QED BY <2>1, NoNewRow
<1>5. OwnColumns'
  BY DEF TypeOK, OwnColumns, Own, OwnColumn, BetweenReads
<1> QED BY <1>1, <1>2, <1>3, <1>4, <1>5

(* A route is called. *)
LEMMA StartIndInv ==
    ASSUME IndInv, NEW p \in Procs, StartReact(p) \/ StartRemove(p) \/ StartOther(p) \/ StartAuthor(p)
    PROVE  IndInv'
<1> USE DEF IndInv, StartReact, StartRemove, StartOther, StartAuthor, Goto, Arrive, db, tx
<1>1. TypeOK'
  <2>1. arg' \in [Procs -> Args]
    BY Starting, MaxRowsAssumption DEF TypeOK, Args, NoArg, Columns
  <2>2. nextId' \in 1..MaxRows + 1
    BY MaxRowsAssumption DEF TypeOK
  <2> QED BY <2>1, <2>2 DEF TypeOK, Places
<1>2. Handlers'
  BY DEF TypeOK, Handlers, HandlerOf, Reacting, Removing, Authoring, Updates, ReactPlaces, RemovePlaces,
     AuthorPlaces, OtherPlaces, NoArg
<1>3. KeyExclusive' /\ HeldRows'
  BY DEF TypeOK, KeyExclusive, KeyHolder, HeldRows, HeldRow, User, Handlers, HandlerOf
<1>4. IdsUnique'
  <2>1. CASE nextId' = nextId
    <3>1. \A r \in AnyRow : Known(r)' => Known(r)
      BY <2>1 DEF TypeOK, Known, Intended, NoArg
    <3> QED BY <2>1, <3>1, NoNewRow
  <2>2. CASE StartReact(p)
    <3>1. \A r \in AnyRow : Known(r)' => Known(r) \/ r = Intended(p)'
      BY <2>2 DEF TypeOK, Known, Intended
    <3>2. Intended(p)'.id = nextId /\ nextId' = nextId + 1
      BY <2>2 DEF TypeOK, Intended
    <3>3. \A r \in AnyRow : r.id \in Nat
      BY DEF AnyRow, Rows, NoRow
    <3> QED BY <3>1, <3>2, <3>3 DEF IdsUnique, TypeOK
  <2> QED BY <2>1, <2>2
<1>5. OwnColumns'
  <2>1. cols' = cols /\ cols[p] = {} /\ ~BetweenReads(p)'
    BY DEF TypeOK, BetweenReads, Handlers, HandlerOf, Updates
  <2>2. Own(p)'
    BY <2>1 DEF Own
  <2>3. ASSUME NEW q \in Procs \ {p} PROVE Own(q)'
    BY DEF TypeOK, OwnColumns, Own, OwnColumn, BetweenReads
  <2> QED BY <2>2, <2>3 DEF OwnColumns
<1> QED BY <1>1, <1>2, <1>3, <1>4, <1>5

(* The post is read into the entity, which the use case may edit.          *)
LEMMA FindPostIndInv ==
    ASSUME IndInv, NEW p \in Procs, ReactFindPost(p) \/ RemoveFindPost(p) \/ AuthorFind(p)
    PROVE  IndInv'
<1>1. CASE RollBack(p)
  BY <1>1, RollBackIndInv
<1>2. CASE ~RollBack(p)
  <2> USE <1>2 DEF IndInv, ReactFindPost, RemoveFindPost, AuthorFind, FindPost, Goto, db, tx, history
  <2>1. TypeOK'
    <3>1. \A e \in EditedPost \cup DeletedPost : e \in Posts
      <4>1. post \in Posts /\ post.text \in {"old", "new"}
        BY DEF TypeOK, Posts
      <4>2. \A e \in EditedPost : e \in Posts
        BY <4>1, EditedPosts DEF EditedPost
      <4>3. \A e \in DeletedPost : e \in Posts
        BY <4>1, EditedPosts DEF DeletedPost
      <4> QED BY <4>2, <4>3
    <3>2. [post EXCEPT !.likes = Decremented(@)] \in Posts
      BY EditedPosts DEF TypeOK
    <3>3. ent' \in [Procs -> Posts]
      BY <3>1, <3>2 DEF TypeOK
    <3> QED BY <3>3 DEF TypeOK, Places
  <2>2. Handlers'
    BY DEF TypeOK, Handlers, HandlerOf, Reacting, Removing, Authoring, Updates, ReactPlaces, RemovePlaces,
       AuthorPlaces, OtherPlaces, NoArg
  <2>3. KeyExclusive' /\ HeldRows'
    BY DEF TypeOK, KeyExclusive, KeyHolder, HeldRows, HeldRow, User
  <2>4. IdsUnique'
    BY DEF TypeOK, IdsUnique, Known, Intended
  <2>5. OwnColumns'
    BY DEF TypeOK, OwnColumns, Own, OwnColumn, BetweenReads, Handlers, HandlerOf, Removing, Authoring, Posts, Columns,
       EditedPost, DeletedPost, Decremented, RemovePlaces, AuthorPlaces, Updates
  <2> QED BY <2>1, <2>2, <2>3, <2>4, <2>5
<1> QED BY <1>1, <1>2

(* The reaction of the user is read. *)
LEMMA FindReactionIndInv ==
    ASSUME IndInv, NEW p \in Procs, ReactFindReaction(p) \/ RemoveFind(p)
    PROVE  IndInv'
<1>1. CASE RollBack(p)
  BY <1>1, RollBackIndInv
<1>2. CASE ~RollBack(p)
  <2> USE <1>2 DEF IndInv, ReactFindReaction, RemoveFind, Goto, db, tx, history
  <2>0. User(p) \in Users
    BY DEF Handlers, HandlerOf, Reacting, Removing, User, ReactPlaces, RemovePlaces
  <2>1. TypeOK'
    <3>1. ent' \in [Procs -> Posts]
      <4>1. ent[p] \in Posts /\ [ent[p] EXCEPT !.likes = @ + 1] \in Posts
        BY EditedPosts DEF TypeOK
      <4> QED BY <4>1, Starting DEF TypeOK
    <3> QED BY <2>0, <3>1 DEF TypeOK, Places
  <2>2. Handlers'
    BY DEF TypeOK, Handlers, HandlerOf, Reacting, Removing, Authoring, Updates, ReactPlaces, RemovePlaces,
       AuthorPlaces, OtherPlaces, NoArg
  <2>3. KeyExclusive' /\ HeldRows'
    BY DEF TypeOK, KeyExclusive, KeyHolder, HeldRows, HeldRow, User, Handlers, HandlerOf
  <2>4. IdsUnique'
    <3>1. \A r \in AnyRow : Known(r)' => Known(r)
      BY <2>0 DEF TypeOK, Known, Intended
    <3> QED BY <3>1, NoNewRow
  <2>5. OwnColumns'
    BY DEF TypeOK, OwnColumns, Own, OwnColumn, BetweenReads, Handlers, HandlerOf, Reacting, Posts, Columns,
       ReactPlaces, Updates
  <2> QED BY <2>1, <2>2, <2>3, <2>4, <2>5
<1> QED BY <1>1, <1>2

(* The row of the post is selected again. *)
LEMMA SelectPostIndInv ==
    ASSUME IndInv, NEW p \in Procs, ReactSelect(p) \/ RemoveSelect(p) \/ AuthorSelect(p)
    PROVE  IndInv'
<1> USE DEF IndInv, ReactSelect, RemoveSelect, AuthorSelect, SelectPost, Goto, db, tx, history
<1>1. TypeOK'
  BY DEF TypeOK, Places
<1>2. Handlers'
  <2>1. post = ent[p] \/ \E c \in Columns : post[c] # ent[p][c]
    BY DEF TypeOK, Posts, Columns
  <2> QED BY <2>1 DEF TypeOK, Handlers, HandlerOf, Reacting, Removing, Authoring, Updates, ReactPlaces, RemovePlaces,
     AuthorPlaces, OtherPlaces, NoArg
<1>3. KeyExclusive' /\ HeldRows'
  BY DEF TypeOK, KeyExclusive, KeyHolder, HeldRows, HeldRow, User
<1>4. IdsUnique'
  BY DEF TypeOK, IdsUnique, Known, Intended
<1>5. OwnColumns'
  BY DEF TypeOK, OwnColumns, Own, OwnColumn, BetweenReads
<1> QED BY <1>1, <1>2, <1>3, <1>4, <1>5

(* The row of the post is updated. *)
LEMMA UpdatePostIndInv ==
    ASSUME IndInv, NEW p \in Procs, ReactCount(p) \/ RemoveCount(p) \/ AuthorUpdate(p)
    PROVE  IndInv'
<1> USE DEF IndInv, ReactCount, RemoveCount, AuthorUpdate, UpdatePost, Goto, db, tx, history
<1>1. TypeOK'
  BY DEF TypeOK, Places
<1>2. Handlers'
  BY DEF TypeOK, Handlers, HandlerOf, Reacting, Removing, Authoring, Updates, ReactPlaces, RemovePlaces,
     AuthorPlaces, OtherPlaces, NoArg
<1>3. KeyExclusive' /\ HeldRows'
  BY DEF TypeOK, KeyExclusive, KeyHolder, HeldRows, HeldRow, User
<1>4. IdsUnique'
  BY DEF TypeOK, IdsUnique, Known, Intended
<1>5. OwnColumns'
  BY DEF TypeOK, OwnColumns, Own, OwnColumn, BetweenReads
<1> QED BY <1>1, <1>2, <1>3, <1>4, <1>5

(* The row read is deleted, if it is still there.                          *)
LEMMA DeleteIndInv ==
    ASSUME IndInv, NEW p \in Procs, ReactDelete(p) \/ RemoveDelete(p) PROVE IndInv'
<1> USE DEF IndInv, ReactDelete, RemoveDelete, DeleteReaction, Goto, db, history
<1>0. /\ User(p) \in Users /\ seen[p] # NoRow /\ ins[p] = NoRow
      /\ del'[p] => row[User(p)] = seen[p]
  <2>1. User(p) \in Users /\ seen[p] # NoRow /\ ins[p] = NoRow
    BY DEF Handlers, HandlerOf, Reacting, Removing, User, ReactPlaces, RemovePlaces
  <2>2. Known(row[User(p)]) /\ Known(seen[p])
    BY <2>1 DEF Known
  <2>3. row[User(p)] \in AnyRow /\ seen[p] \in AnyRow
    BY <2>1 DEF TypeOK, AnyRow
  <2> QED BY <2>1, <2>2, <2>3 DEF TypeOK, IdsUnique
<1>1. TypeOK'
  BY <1>0 DEF TypeOK, Places
<1>2. Handlers'
  BY <1>0 DEF TypeOK, Handlers, HandlerOf, Reacting, Removing, Authoring, Updates, ReactPlaces, RemovePlaces,
     AuthorPlaces, OtherPlaces, NoArg
<1>3. KeyExclusive'
  <2>1. ASSUME NEW q \in Procs \ {p}, KeyHolder(q, User(p)), del'[p] PROVE FALSE
    BY <1>0, <2>1 DEF Free, WaitsFor, KeyHolder, HeldRows, HeldRow
  <2> QED BY <1>0, <2>1 DEF TypeOK, KeyExclusive, KeyHolder, User
<1>4. HeldRows'
  BY <1>0 DEF TypeOK, HeldRows, HeldRow, User
<1>5. IdsUnique'
  <2>1. \A r \in AnyRow : Known(r)' => Known(r)
    BY DEF TypeOK, Known, Intended
  <2> QED BY <2>1, NoNewRow
<1>6. OwnColumns'
  BY DEF TypeOK, OwnColumns, Own, OwnColumn, BetweenReads
<1> QED BY <1>1, <1>2, <1>3, <1>4, <1>5, <1>6

(* The new row is inserted, or the unique key refuses it.                  *)
LEMMA InsertIndInv == ASSUME IndInv, NEW p \in Procs, ReactInsert(p) PROVE IndInv'
<1>1. CASE RollBack(p)
  BY <1>1, RollBackIndInv
<1>2. CASE ~RollBack(p)
  <2> USE <1>2 DEF IndInv, ReactInsert, Goto, db, history
  <2>0. Reacting(p) /\ User(p) \in Users /\ User(p) = arg[p].user
    BY DEF Handlers, HandlerOf, Reacting, User, ReactPlaces
  <2>1. TypeOK'
    BY <2>0 DEF TypeOK, Places, Args, Rows, Reacting
  <2>2. Handlers'
    BY <2>0 DEF TypeOK, Handlers, HandlerOf, Reacting, Removing, Authoring, Updates, ReactPlaces, RemovePlaces,
       AuthorPlaces, OtherPlaces, NoArg
  <2>3. KeyExclusive'
    BY <2>0 DEF TypeOK, KeyExclusive, KeyHolder, User, Free, WaitsFor
  <2>4. HeldRows'
    BY <2>0 DEF TypeOK, HeldRows, HeldRow, User
  <2>5. IdsUnique'
    <3>1. \A r \in AnyRow : Known(r)' => Known(r)
      BY <2>0 DEF TypeOK, Known, Intended, Reacting
    <3> QED BY <3>1, NoNewRow
  <2>6. OwnColumns'
    BY DEF TypeOK, OwnColumns, Own, OwnColumn, BetweenReads
  <2> QED BY <2>1, <2>2, <2>3, <2>4, <2>5, <2>6
<1> QED BY <1>1, <1>2

(* Commit: the one step that changes the tables.                           *)
LEMMA CommitIndInv == ASSUME IndInv, NEW p \in Procs, Commit(p) PROVE IndInv'
<1> USE DEF IndInv, Commit, Finish, Goto
<1>1. TypeOK'
  <2>1. post' \in Posts
    BY DEF TypeOK, Posts, Columns
  <2> QED BY <2>1, Starting DEF TypeOK, Places, AnyRow, Handlers, HandlerOf, User
<1>2. Handlers'
  BY DEF TypeOK, Handlers, HandlerOf, Reacting, Removing, Authoring, Updates, ReactPlaces, RemovePlaces,
     AuthorPlaces, OtherPlaces, NoArg
<1>3. KeyExclusive'
  BY DEF TypeOK, KeyExclusive, KeyHolder, User
<1>4. HeldRows'
  BY DEF TypeOK, HeldRows, HeldRow, KeyExclusive, KeyHolder, User, Handlers, HandlerOf
<1>5. IdsUnique'
  <2>1. \A r \in AnyRow : Known(r)' => Known(r)
    BY DEF TypeOK, Known, Intended, NoArg
  <2> QED BY <2>1, NoNewRow
<1>6. OwnColumns'
  BY DEF TypeOK, OwnColumns, Own, OwnColumn, BetweenReads
<1> QED BY <1>1, <1>2, <1>3, <1>4, <1>5, <1>6

(* Every statement of a use case keeps the invariant.                      *)
LEMMA NextIndInv == IndInv /\ [Next]_vars => IndInv'
<1> SUFFICES ASSUME IndInv, [Next]_vars PROVE IndInv'
  OBVIOUS
<1>1. ASSUME NEW p \in Procs, Step(p) PROVE IndInv'
  BY <1>1, RollBackIndInv, FindPostIndInv, FindReactionIndInv, SelectPostIndInv, UpdatePostIndInv, DeleteIndInv,
     InsertIndInv, CommitIndInv
     DEF Step, LikeSave, UnlikeFind, CommentSave, CommentFind, StatementTimeout
<1>2. ASSUME NEW p \in Procs, Abort(p) PROVE IndInv'
  BY <1>2, RollBackIndInv DEF Abort
<1>3. CASE UNCHANGED vars
  BY <1>3 DEF vars, IndInv, TypeOK, Handlers, HandlerOf, Reacting, Removing, Authoring, KeyExclusive, KeyHolder, User,
     HeldRows, HeldRow, IdsUnique, Known, Intended, OwnColumns, Own, OwnColumn, BetweenReads
<1> QED BY <1>1, <1>2, <1>3, StartIndInv DEF Next

(* The invariant holds in every reachable state.                           *)
LEMMA AlwaysIndInv == Spec => []IndInv
BY InitIndInv, NextIndInv, PTL DEF Spec

(* Type correctness of the tables and of every handler's transaction.      *)
THEOREM TypeCorrect == Spec => []TypeOK
<1>1. IndInv => TypeOK
  BY DEF IndInv
<1> QED BY <1>1, AlwaysIndInv, PTL

(* A handler at its commit waits for nobody, nor does one that has deleted *)
(* a row it replaces; among the others only updates of the post can wait,  *)
(* for a handler past its own.                                             *)
LEMMA NoCycle ==
    ASSUME Handlers, KeyExclusive, NEW S \in SUBSET Procs, S # {}
    PROVE  \E p \in S : \A q \in S : ~WaitsFor(p, q)
<1>1. CASE \E p \in S : pc[p] = "commit"
  BY <1>1 DEF WaitsFor, Updates
<1>2. ASSUME \A p \in S : pc[p] # "commit", NEW p \in S, del[p] PROVE \A q \in S : ~WaitsFor(p, q)
  <2>1. pc[p] = "react_insert" /\ User(p) \in Users /\ KeyHolder(p, User(p))
    BY <1>2 DEF Handlers, HandlerOf, Reacting, ReactPlaces, User, KeyHolder
  <2> QED BY <2>1 DEF WaitsFor, Updates, KeyExclusive
<1>3. ASSUME \A p \in S : pc[p] # "commit" /\ ~del[p], NEW p \in S, pc[p] \notin Updates
      PROVE  \A q \in S : ~WaitsFor(p, q)
  <2>1. \A q \in S : ins[q] = NoRow
    BY <1>3 DEF Handlers, HandlerOf
  <2> QED BY <1>3, <2>1 DEF WaitsFor, KeyHolder
<1>4. CASE \A p \in S : pc[p] \in Updates
  BY <1>4 DEF WaitsFor, PostHolder, Updates
<1> QED BY <1>1, <1>2, <1>3, <1>4

(* However many handlers run, no set of them waits for one another: the    *)
(* post row is locked before the key of the reaction.                      *)
THEOREM DeadlockFree == Spec => []NoDeadlock
<1>1. IndInv => NoDeadlock
  <2> SUFFICES ASSUME IndInv, NEW S \in (SUBSET Procs) \ {{}}
               PROVE  \E p \in S : \A q \in S : ~WaitsFor(p, q)
    BY DEF NoDeadlock
  <2>1. S \in SUBSET Procs /\ S # {}
    OBVIOUS
  <2> QED BY <2>1, NoCycle DEF IndInv
<1> QED BY <1>1, AlwaysIndInv, PTL

(* Only a commit changes the tables. *)
LEMMA OnlyCommitWrites ==
    ASSUME [Next]_vars, \A p \in Procs : ~Commit(p)
    PROVE  post' = post /\ row' = row /\ (overlap => overlap')
<1> USE DEF db, RollBack, history
<1>1. ASSUME NEW p \in Procs, Step(p) PROVE post' = post /\ row' = row /\ (overlap => overlap')
  BY <1>1 DEF Step, ReactFindPost, FindPost, ReactFindReaction, ReactSelect, SelectPost, ReactCount, UpdatePost, ReactDelete,
     DeleteReaction, ReactInsert, RemoveFind, RemoveFindPost, RemoveSelect, RemoveCount, RemoveDelete, LikeSave,
     UnlikeFind, CommentSave, CommentFind, AuthorFind, AuthorSelect, AuthorUpdate, StatementTimeout
<1>2. ASSUME NEW p \in Procs, StartReact(p) \/ StartRemove(p) \/ StartOther(p) \/ StartAuthor(p) \/ Abort(p)
      PROVE  post' = post /\ row' = row /\ (overlap => overlap')
  <2>1. CASE Abort(p)
    BY <2>1 DEF Abort
  <2>2. CASE ~Abort(p)
    <3>1. post' = post /\ row' = row /\ Arrive
      BY <1>2, <2>2 DEF StartReact, StartRemove, StartOther, StartAuthor
    <3> QED BY <3>1 DEF Arrive
  <2> QED BY <2>1, <2>2
<1>3. CASE UNCHANGED vars
  BY <1>3 DEF vars
<1> QED BY <1>1, <1>2, <1>3 DEF Next

(* A user with a reaction keeps one until a removal that has read that     *)
(* very row commits: a replacement deletes and inserts at once.            *)
THEOREM ReplacementAtomicity == Spec => ReplacedAtOnce
<1> DEFINE A == \A u \in Users :
        row[u] # NoRow /\ row'[u] = NoRow =>
            \E p \in Procs : User(p) = u /\ seen[p] = row[u] /\ arg[p].id = 0
<1>1. ASSUME IndInv, [Next]_vars PROVE A
  <2> SUFFICES ASSUME NEW u \in Users, row[u] # NoRow, row'[u] = NoRow
               PROVE  \E p \in Procs : User(p) = u /\ seen[p] = row[u] /\ arg[p].id = 0
    OBVIOUS
  <2>1. PICK p \in Procs : Commit(p)
    BY <1>1, OnlyCommitWrites
  <2>2. User(p) = u /\ ins[p] = NoRow /\ del[p]
    BY <1>1, <2>1 DEF Commit, IndInv, TypeOK
  <2>3. seen[p] = row[u]
    BY <1>1, <2>2 DEF IndInv, HeldRows, HeldRow
  <2>4. arg[p].id = 0
    <3>1. pc[p] = "commit" /\ HandlerOf(p)
      BY <1>1, <2>1 DEF Commit, IndInv, Handlers
    <3>2. ~Reacting(p)
      <4>1. Reacting(p) => ins[p].id # 0
        BY <3>1 DEF HandlerOf, Reacting
      <4> QED BY <4>1, <2>2 DEF NoRow
    <3> QED BY <3>1, <3>2 DEF HandlerOf, Removing, Authoring
  <2> QED BY <2>2, <2>3, <2>4
<1>2. IndInv /\ [Next]_vars => [A]_vars
  BY <1>1
<1> QED BY <1>2, AlwaysIndInv, PTL DEF Spec, ReplacedAtOnce

(* A commit keeps the columns its use case is not about, unless another    *)
(* commit changed the post between its two reads.                          *)
THEOREM OtherColumnsKept == Spec => OthersKept
<1> DEFINE A == \A p \in Procs \ overtaken : pc[p] = "commit" /\ pc'[p] = "idle" =>
        \A c \in Columns \ {OwnColumn(p)} : post'[c] = post[c]
<1>1. ASSUME IndInv, [Next]_vars PROVE A
  <2> SUFFICES ASSUME NEW p \in Procs \ overtaken, pc[p] = "commit", pc'[p] = "idle",
                      NEW c \in Columns \ {OwnColumn(p)}
               PROVE  post'[c] = post[c]
    OBVIOUS
  <2>1. CASE \A q \in Procs : ~Commit(q)
    BY <1>1, <2>1, OnlyCommitWrites
  <2>2. ASSUME NEW q \in Procs, Commit(q) PROVE post'[c] = post[c]
    <3>1. q = p
      BY <1>1, <2>2 DEF IndInv, TypeOK, Commit, Finish, Goto
    <3>2. cols[p] \subseteq {OwnColumn(p)}
      BY <1>1 DEF IndInv, OwnColumns, Own
    <3> QED BY <2>2, <3>1, <3>2 DEF Commit
  <2> QED BY <2>1, <2>2
<1>2. IndInv /\ [Next]_vars => [A]_vars
  BY <1>1
<1> QED BY <1>2, AlwaysIndInv, PTL DEF Spec, OthersKept

-----------------------------------------------------------------------------
(* The exact count of a service whose requests do not overlap.             *)

(* A user with a reaction is counted.                                      *)
LEMMA ReactedIsCounted ==
    ASSUME IsFiniteSet(Reacted), NEW u \in Users, row[u] # NoRow PROVE Cardinality(Reacted) >= 1
<1>1. u \in Reacted
  BY DEF Reacted
<1>2. Cardinality(Reacted \ {u}) = Cardinality(Reacted) - 1 /\ IsFiniteSet(Reacted \ {u})
  BY <1>1, FS_RemoveElement
<1>3. Cardinality(Reacted \ {u}) \in Nat /\ Cardinality(Reacted) \in Nat
  BY <1>2, FS_CardinalityType
<1> QED BY <1>2, <1>3

(* The columns in which a post with another count differs from the post.   *)
LEMMA OnlyLikesDiffer ==
    ASSUME NEW e \in Posts, NEW n \in Nat, n # e.likes, NEW f, f = [e EXCEPT !.likes = n]
    PROVE  f # e /\ {c \in Columns : e[c] # f[c]} = {"likes"} /\ f.likes = n
BY DEF Posts, Columns

(* An idle handler has read nothing. *)
LEMMA IdleIsCurrent == ASSUME NEW p \in Procs, HandlerOf(p), pc[p] = "idle" PROVE Current(p)
BY DEF Current, HandlerOf, NoArg, Authoring, RemovePlaces

(* The tables start empty, the counter at 0.                               *)
LEMMA InitCountInv == Init => CountInv
<1> SUFFICES ASSUME Init PROVE CountInv
  OBVIOUS
<1>1. IndInv
  BY InitIndInv
<1>2. Reacted = {} /\ IsFiniteSet(Reacted) /\ Cardinality(Reacted) = 0
  BY FS_EmptySet DEF Init, Reacted
<1>3. ExactWithoutOverlap
  BY <1>2 DEF ExactWithoutOverlap, CountMatchesRows, Reacted, Init, Blank
<1>4. Alone
  BY <1>1, IdleIsCurrent DEF Alone, Init, IndInv, Handlers
<1> QED BY <1>1, <1>2, <1>3, <1>4 DEF CountInv

(* A step of the only handler leaves it the only one.                      *)
LEMMA StaysAlone ==
    ASSUME Alone, Handlers', overlap' = overlap, NEW p \in Procs, pc[p] # "idle",
           \A q \in Procs \ {p} : pc'[q] = pc[q],
           ~overlap => pc'[p] = "idle" \/ Current(p)'
    PROVE  Alone'
<1> SUFFICES ASSUME ~overlap' PROVE Alone'
  BY DEF Alone
<1>1. \A q \in Procs \ {p} : pc'[q] = "idle"
  BY DEF Alone
<1>2. \A q \in Procs : pc'[q] = "idle" => Current(q)'
  <2> SUFFICES ASSUME NEW q \in Procs, pc'[q] = "idle" PROVE Current(q)'
    OBVIOUS
  <2>1. arg'[q] = NoArg
    BY DEF Handlers, HandlerOf
  <2> QED BY <2>1 DEF Current, NoArg, Authoring, RemovePlaces
<1> QED BY <1>1, <1>2 DEF Alone

(* Every read of the only handler agrees with the one before.              *)
LEMMA StepIsCurrent ==
    ASSUME CountInv, ~overlap, NEW p \in Procs, Step(p), ~RollBack(p), ~Commit(p)
    PROVE  Current(p)'
<1> USE DEF CountInv, IndInv, Goto, db, tx, history, User, Reacting, Removing, Authoring, ReactPlaces, RemovePlaces,
        AuthorPlaces
<1>0. Current(p) /\ HandlerOf(p) /\ post \in Posts /\ ent[p] \in Posts
  BY DEF Alone, TypeOK, Handlers
<1>1. CASE ReactFindPost(p)
  BY <1>0, <1>1 DEF Current, HandlerOf, TypeOK, ReactFindPost, FindPost
<1>2. CASE ReactFindReaction(p)
  BY <1>0, <1>2 DEF Current, HandlerOf, TypeOK, ReactFindReaction
<1>3. CASE ReactSelect(p)
  <2>1. /\ row[User(p)] = NoRow /\ pc[p] = "react_select" /\ seen[p] = NoRow
        /\ ent[p] = [post EXCEPT !.likes = post.likes + 1]
    BY <1>0, <1>3 DEF Current, HandlerOf, ReactSelect, SelectPost
  <2>2. post.likes + 1 \in Nat /\ post.likes + 1 # post.likes
    BY <1>0 DEF Posts
  <2>3. post # ent[p] /\ {c \in Columns : post[c] # ent[p][c]} = {"likes"} /\ ent[p].likes = post.likes + 1
    BY <1>0, <2>1, <2>2, OnlyLikesDiffer
  <2>4. pc'[p] = "react_count" /\ cols'[p] = {"likes"}
    BY <1>3, <2>3 DEF TypeOK, ReactSelect, SelectPost
  <2> QED BY <1>0, <1>3, <2>1, <2>3, <2>4 DEF Current, HandlerOf, ReactSelect, SelectPost, Counting
<1>4. CASE ReactCount(p)
  BY <1>0, <1>4 DEF Current, HandlerOf, TypeOK, ReactCount, UpdatePost, Counting
<1>5. CASE ReactDelete(p)
  BY <1>0, <1>5 DEF Current, HandlerOf, TypeOK, ReactDelete, DeleteReaction
<1>6. CASE ReactInsert(p)
  BY <1>0, <1>6 DEF Current, HandlerOf, TypeOK, ReactInsert, Counting
<1>7. CASE RemoveFind(p)
  BY <1>0, <1>7 DEF Current, HandlerOf, TypeOK, RemoveFind
<1>8. CASE RemoveFindPost(p)
  BY <1>0, <1>8 DEF Current, HandlerOf, TypeOK, RemoveFindPost, FindPost
<1>9. CASE RemoveSelect(p)
  <2>1. post.likes >= 1
    BY <1>0, <1>9, ReactedIsCounted
       DEF Current, HandlerOf, RemoveSelect, SelectPost, ExactWithoutOverlap, CountMatchesRows, Reacted
  <2>2. /\ row[User(p)] = seen[p] /\ pc[p] = "remove_select"
        /\ ent[p] = [post EXCEPT !.likes = post.likes - 1]
    BY <1>0, <1>9, <2>1 DEF Current, HandlerOf, RemoveSelect, SelectPost, Decremented, Posts
  <2>3. post.likes - 1 \in Nat /\ post.likes - 1 # post.likes
    BY <1>0, <2>1 DEF Posts
  <2>4. post # ent[p] /\ {c \in Columns : post[c] # ent[p][c]} = {"likes"} /\ ent[p].likes = post.likes - 1
    BY <1>0, <2>2, <2>3, OnlyLikesDiffer
  <2>5. pc'[p] = "remove_count" /\ cols'[p] = {"likes"}
    BY <1>9, <2>4 DEF TypeOK, RemoveSelect, SelectPost
  <2> QED BY <1>0, <1>9, <2>2, <2>4, <2>5 DEF Current, HandlerOf, RemoveSelect, SelectPost, Counting
<1>10. CASE RemoveCount(p)
  BY <1>0, <1>10 DEF Current, HandlerOf, TypeOK, RemoveCount, UpdatePost, Counting
<1>11. CASE RemoveDelete(p)
  BY <1>0, <1>11 DEF Current, HandlerOf, TypeOK, RemoveDelete, DeleteReaction, Counting
<1>12. CASE AuthorFind(p)
  BY <1>0, <1>12 DEF Current, HandlerOf, TypeOK, AuthorFind, FindPost, EditedPost, DeletedPost, Posts, Updates
<1>13. CASE AuthorSelect(p)
  BY <1>0, <1>13 DEF Current, HandlerOf, TypeOK, AuthorSelect, SelectPost, Columns
<1>14. CASE AuthorUpdate(p)
  BY <1>0, <1>14 DEF Current, HandlerOf, TypeOK, AuthorUpdate, UpdatePost
<1> QED BY <1>1, <1>2, <1>3, <1>4, <1>5, <1>6, <1>7, <1>8, <1>9, <1>10, <1>11, <1>12, <1>13, <1>14
        DEF Step, LikeSave, UnlikeFind, CommentSave, CommentFind, StatementTimeout

(* A commit of the only handler counts the row it adds or takes away.      *)
LEMMA CommitCounts ==
    ASSUME CountInv, NEW p \in Procs, Commit(p) PROVE IsFiniteSet(Reacted)' /\ ExactWithoutOverlap'
<1> DEFINE u == User(p)
<1>1. IndInv /\ IsFiniteSet(Reacted) /\ HandlerOf(p) /\ pc[p] = "commit" /\ overlap' = overlap
  BY DEF CountInv, IndInv, Handlers, Commit
<1>2. CASE Authoring(p)
  <2>1. ins[p] = NoRow /\ ~del[p] /\ row' = row
    BY <1>1, <1>2 DEF HandlerOf, Authoring, Reacting, Commit
  <2>2. ~overlap => "likes" \notin cols[p]
    BY <1>2 DEF CountInv, Alone, Current
  <2>3. ~overlap => post'.likes = post.likes
    BY <2>2 DEF Commit, Columns
  <2> QED BY <1>1, <2>1, <2>3 DEF CountInv, ExactWithoutOverlap, CountMatchesRows, Reacted
<1>3. CASE ~Authoring(p)
  <2>1. u \in Users /\ \A v \in Users \ {u} : row'[v] = row[v]
    BY <1>1, <1>3 DEF HandlerOf, Reacting, Removing, User, Commit, IndInv, TypeOK
  <2>2. IsFiniteSet(Reacted \cup {u}) /\ IsFiniteSet(Reacted \ {u})
        /\ (u \notin Reacted => Cardinality(Reacted \cup {u}) = Cardinality(Reacted) + 1)
        /\ (u \in Reacted => Cardinality(Reacted \ {u}) = Cardinality(Reacted) - 1)
    BY <1>1, FS_AddElement, FS_RemoveElement
  <2>3. Reacted' = IF row'[u] # NoRow THEN Reacted \cup {u} ELSE Reacted \ {u}
    BY <2>1 DEF Reacted
  <2>4. ASSUME ~overlap PROVE post'.likes = Cardinality(Reacted')
    <3>1. Current(p) /\ post.likes = Cardinality(Reacted) /\ post.likes \in Nat
      BY <1>1, <2>4 DEF CountInv, Alone, ExactWithoutOverlap, CountMatchesRows, Reacted, IndInv, TypeOK, Posts
    <3>2. post'.likes = IF "likes" \in cols[p] THEN ent[p].likes ELSE post.likes
      BY DEF Commit, Columns
    <3>3. CASE Reacting(p) /\ seen[p] = NoRow
      <4>1. row'[u] = ins[p] /\ ins[p] # NoRow
        BY <1>1, <2>1, <3>3 DEF HandlerOf, Reacting, Commit, NoRow, IndInv, TypeOK
      <4>2. row[u] = NoRow /\ Counting(p, post.likes + 1)
        BY <1>1, <3>1, <3>3 DEF Current
      <4> QED BY <2>2, <2>3, <3>1, <3>2, <4>1, <4>2 DEF Reacted, Counting
    <3>4. CASE Reacting(p) /\ seen[p] # NoRow
      <4>1. row'[u] = ins[p] /\ ins[p] # NoRow
        BY <1>1, <2>1, <3>4 DEF HandlerOf, Reacting, Commit, NoRow, IndInv, TypeOK
      <4>2. row[u] # NoRow /\ cols[p] = {}
        BY <1>1, <3>1, <3>4 DEF Current, HandlerOf, Reacting, Removing
      <4> QED BY <2>1, <2>2, <2>3, <3>1, <3>2, <4>1, <4>2 DEF Reacted
    <3>5. CASE Removing(p)
      BY <1>1, <2>1, <2>2, <2>3, <3>1, <3>2, <3>5
         DEF HandlerOf, Current, Counting, Commit, Reacted, Reacting, Removing, IndInv, TypeOK
    <3> QED BY <1>1, <1>3, <3>3, <3>4, <3>5 DEF HandlerOf
  <2> QED BY <1>1, <2>2, <2>3, <2>4 DEF ExactWithoutOverlap, CountMatchesRows, Reacted
<1> QED BY <1>2, <1>3

(* A step that leaves the tables alone leaves the count exact.             *)
LEMMA SameTables ==
    ASSUME CountInv, post' = post, row' = row, ~overlap' => ~overlap
    PROVE  IsFiniteSet(Reacted)' /\ ExactWithoutOverlap'
BY DEF CountInv, ExactWithoutOverlap, CountMatchesRows, Reacted

(* A handler that has begun stays alone, or somebody else begins.          *)
LEMMA StepAlone ==
    ASSUME CountInv, Handlers', NEW p \in Procs, Step(p) \/ Abort(p) PROVE Alone'
<1>1. pc[p] # "idle" /\ overlap' = overlap /\ \A q \in Procs \ {p} : pc'[q] = pc[q]
  <2> USE DEF CountInv, IndInv, TypeOK, RollBack, Finish, Goto, history
  <2>1. CASE RollBack(p) /\ pc[p] # "idle"
    BY <2>1
  <2>2. CASE Step(p) /\ ~StatementTimeout(p)
    BY <2>2 DEF Step, ReactFindPost, FindPost, ReactFindReaction, ReactSelect, SelectPost, ReactCount, UpdatePost, ReactDelete,
       DeleteReaction, ReactInsert, RemoveFind, RemoveFindPost, RemoveSelect, RemoveCount, RemoveDelete, LikeSave,
       UnlikeFind, CommentSave, CommentFind, AuthorFind, AuthorSelect, AuthorUpdate, Commit
  <2>3. ~Free(p) => pc[p] # "idle"
    BY DEF Free, WaitsFor, Updates
  <2> QED BY <2>1, <2>2, <2>3 DEF StatementTimeout, Abort
<1>2. RollBack(p) \/ Commit(p) => pc'[p] = "idle"
  BY DEF RollBack, Commit, Finish, Goto, CountInv, IndInv, TypeOK
<1>3. ~overlap => pc'[p] = "idle" \/ Current(p)'
  BY <1>2, StepIsCurrent DEF Abort
<1> QED BY <1>1, <1>3, StaysAlone DEF CountInv

(* A request that comes while none is served is alone. *)
LEMMA StartAlone ==
    ASSUME CountInv, Handlers', NEW p \in Procs, StartReact(p) \/ StartRemove(p) \/ StartOther(p) \/ StartAuthor(p)
    PROVE  Alone'
<1> SUFFICES ASSUME ~overlap' PROVE Alone'
  BY DEF Alone
<1>1. Arrive /\ cols' = cols /\ \A q \in Procs \ {p} : pc'[q] = pc[q]
  BY DEF StartReact, StartRemove, StartOther, StartAuthor, Goto, CountInv, IndInv, TypeOK
<1>2. \A q \in Procs : pc[q] = "idle"
  BY <1>1 DEF Arrive
<1>3. \A q \in Procs \ {p} : Current(q)'
  <2> SUFFICES ASSUME NEW q \in Procs \ {p} PROVE Current(q)'
    OBVIOUS
  <2>1. pc'[q] = "idle" /\ arg'[q] = NoArg
    BY <1>1, <1>2 DEF Handlers, HandlerOf
  <2> QED BY <2>1 DEF Current, NoArg, Authoring, RemovePlaces
<1>4. Current(p)'
  <2>1. cols'[p] = {}
    BY <1>1, <1>2 DEF CountInv, IndInv, Handlers, HandlerOf, Updates
  <2>2. pc'[p] \in {"react_post", "remove_find", "author_find"} \cup OtherPlaces
    BY DEF StartReact, StartRemove, StartOther, StartAuthor, Goto, CountInv, IndInv, TypeOK, OtherPlaces
  <2> QED BY <2>1, <2>2 DEF Current, RemovePlaces, OtherPlaces
<1> QED BY <1>1, <1>2, <1>3, <1>4 DEF Alone

(* The invariant of the count is inductive.                                *)
LEMMA NextCountInv == CountInv /\ [Next]_vars => CountInv'
<1> SUFFICES ASSUME CountInv, [Next]_vars PROVE CountInv'
  OBVIOUS
<1>1. IndInv' /\ Handlers'
  BY NextIndInv DEF CountInv, IndInv
<1>2. Alone'
  <2>1. CASE UNCHANGED vars
    BY <2>1 DEF CountInv, Alone, Current, Reacting, Removing, Authoring, Counting, User, vars
  <2> QED BY <1>1, <2>1, StartAlone, StepAlone DEF Next
<1>3. IsFiniteSet(Reacted)' /\ ExactWithoutOverlap'
  <2>1. CASE \A p \in Procs : ~Commit(p)
    BY <2>1, OnlyCommitWrites, SameTables
  <2> QED BY <2>1, CommitCounts
<1> QED BY <1>1, <1>2, <1>3 DEF CountInv

(* As long as requests come one after the other the like_count is the      *)
(* number of reactions, through replacements, removals and rollbacks.      *)
THEOREM ExactCount == Spec => []ExactWithoutOverlap
<1>1. CountInv => ExactWithoutOverlap
  BY DEF CountInv
<1> QED BY <1>1, InitCountInv, NextCountInv, PTL DEF Spec
=============================================================================
