----------------------------- MODULE Reactions -----------------------------
(***************************************************************************)
(* One post, the reactions to it and the like_count kept beside them: the  *)
(* use cases react_post, remove_reaction, like_post, unlike_post,          *)
(* create_comment, delete_comment, update_post and delete_post of          *)
(* application/post, run by concurrent handlers, one PostgreSQL            *)
(* transaction each at READ COMMITTED.  The routes of reactions run their  *)
(* use case flat, so that their commit is a commit; those of update_post   *)
(* and delete_post enter the unit of work twice, which UnitOfWork.tla is   *)
(* about: here their commit is one, as in the unit tests.                  *)
(*                                                                         *)
(* The row is read into a Post entity when the use case starts, and        *)
(* post_repo.update assigns all columns of the entity to the row it        *)
(* selects again: what differs from that second read is flushed as         *)
(* absolute values, the columns the use case is not about included.        *)
(* A reaction row has an id of its own, because remove and replace delete  *)
(* by the id they read, while the table is unique in (post, user).         *)
(***************************************************************************)
EXTENDS Integers, FiniteSets

CONSTANTS
    Users,
    Types,      \* ReactionType
    Procs,      \* handlers that run concurrently
    MaxRows     \* bound: reaction ids generated in a behaviour

ASSUME MaxRowsAssumption == MaxRows \in Nat

VARIABLES
    post,       \* the committed row: like_count, content, is_published
    row,        \* row[u]: the reaction row of user u, or NoRow
    nextId,     \* the next fresh reaction id
    pc, arg,    \* arg[p]: user, reaction type and the id of the row to insert
    ent,        \* ent[p]: the Post entity p holds, or Blank
    cols,       \* cols[p]: columns in which ent[p] differs from the second read
    seen,       \* seen[p]: the reaction p has read, or NoRow
    ins,        \* ins[p]: reaction row inserted and not committed, or NoRow
    del,        \* del[p]: p has deleted the row of its user and not committed
    overlap,    \* history: a request came while another one was served
    overtaken   \* history: handlers between whose two reads the post was changed

vars == <<post, row, nextId, pc, arg, ent, cols, seen, ins, del, overlap, overtaken>>

Rows == [id : 1..MaxRows, type : Types]
NoRow == [id |-> 0, type |-> "none"]
Columns == {"likes", "text", "live"}
Posts == [likes : Nat, text : {"old", "new"}, live : BOOLEAN]
Blank == [likes |-> 0, text |-> "old", live |-> TRUE]
Args == [user : Users \cup {"none"}, type : Types \cup Columns \cup {"none"}, id : 0..MaxRows]

Places == {"idle", "react_post", "react_find", "react_delete", "react_select", "react_count", "react_insert",
           "remove_find", "remove_post", "remove_select", "remove_count", "remove_delete",
           "like_post", "unlike_find", "comment_post", "comment_find",
           "author_find", "author_select", "author_update", "commit"}

TypeOK ==
    /\ post \in Posts
    /\ row \in [Users -> Rows \cup {NoRow}]
    /\ nextId \in 1..MaxRows + 1
    /\ pc \in [Procs -> Places]
    /\ arg \in [Procs -> Args]
    /\ ent \in [Procs -> Posts]
    /\ cols \in [Procs -> SUBSET Columns]
    /\ seen \in [Procs -> Rows \cup {NoRow}]
    /\ ins \in [Procs -> Rows \cup {NoRow}]
    /\ del \in [Procs -> BOOLEAN]
    /\ overlap \in BOOLEAN
    /\ overtaken \subseteq Procs

NoArg == [user |-> "none", type |-> "none", id |-> 0]

Init ==
    /\ post = Blank
    /\ row = [u \in Users |-> NoRow]
    /\ nextId = 1
    /\ pc = [p \in Procs |-> "idle"]
    /\ arg = [p \in Procs |-> NoArg]
    /\ ent = [p \in Procs |-> Blank]
    /\ cols = [p \in Procs |-> {}]
    /\ seen = [p \in Procs |-> NoRow]
    /\ ins = [p \in Procs |-> NoRow]
    /\ del = [p \in Procs |-> FALSE]
    /\ overlap = FALSE
    /\ overtaken = {}

db == <<post, row>>
tx == <<ins, del>>
history == <<overlap, overtaken>>
User(p) == arg[p].user

Goto(p, l) == pc' = [pc EXCEPT ![p] = l]

(* The handler is done: its entities and its transaction are gone.         *)
Finish(p) ==
    /\ Goto(p, "idle")
    /\ arg' = [arg EXCEPT ![p] = NoArg]
    /\ ent' = [ent EXCEPT ![p] = Blank]
    /\ cols' = [cols EXCEPT ![p] = {}]
    /\ seen' = [seen EXCEPT ![p] = NoRow]
    /\ ins' = [ins EXCEPT ![p] = NoRow]
    /\ del' = [del EXCEPT ![p] = FALSE]

RollBack(p) == Finish(p) /\ overtaken' = overtaken \ {p} /\ UNCHANGED <<db, nextId, overlap>>

(* Locks of other handlers' uncommitted transactions.                      *)
Updates == {"react_count", "remove_count", "author_update"}
PostHolder(q) == cols[q] # {} /\ pc[q] \notin Updates
KeyHolder(q, u) == User(q) = u /\ (ins[q] # NoRow \/ del[q])

(* q holds what the next statement of p needs.  An uncommitted insert of   *)
(* another handler is invisible to a DELETE and does not delay it.         *)
WaitsFor(p, q) ==
    /\ p # q
    /\ \/ pc[p] \in Updates /\ PostHolder(q)
       \/ pc[p] = "react_insert" /\ KeyHolder(q, User(p))
       \/ pc[p] \in {"react_delete", "remove_delete"} /\ User(q) = User(p) /\ del[q]

Free(p) == \A q \in Procs : ~WaitsFor(p, q)

-----------------------------------------------------------------------------
Arrive == overlap' = (overlap \/ \E q \in Procs : pc[q] # "idle")

(* A route is called.  Reaction.create generates the id of the new row.    *)
StartReact(p) ==
    /\ pc[p] = "idle"
    /\ nextId <= MaxRows
    /\ \E u \in Users, t \in Types : arg' = [arg EXCEPT ![p] = [user |-> u, type |-> t, id |-> nextId]]
    /\ nextId' = nextId + 1
    /\ Goto(p, "react_post")
    /\ Arrive
    /\ UNCHANGED <<db, ent, cols, seen, tx, overtaken>>

StartRemove(p) ==
    /\ pc[p] = "idle"
    /\ \E u \in Users : arg' = [arg EXCEPT ![p] = [NoArg EXCEPT !.user = u]]
    /\ Goto(p, "remove_find")
    /\ Arrive
    /\ UNCHANGED <<db, nextId, ent, cols, seen, tx, overtaken>>

(* Likes and comments, of any user.                                        *)
StartOther(p) ==
    /\ pc[p] = "idle"
    /\ \E l \in {"like_post", "unlike_find", "comment_post", "comment_find"} : Goto(p, l)
    /\ Arrive
    /\ UNCHANGED <<db, nextId, arg, ent, cols, seen, tx, overtaken>>

(* PUT /posts/{id} is about the text, DELETE /posts/{id} about is_published. *)
StartAuthor(p) ==
    /\ pc[p] = "idle"
    /\ \E c \in {"text", "live"} : arg' = [arg EXCEPT ![p] = [NoArg EXCEPT !.type = c]]
    /\ Goto(p, "author_find")
    /\ Arrive
    /\ UNCHANGED <<db, nextId, ent, cols, seen, tx, overtaken>>

(* post_repo.find_by_id: the Post entity of now, unpublished or not, as    *)
(* the use case goes on with it.                                           *)
FindPost(p, from, entity, l) ==
    /\ pc[p] = from
    /\ ent' = [ent EXCEPT ![p] = entity]
    /\ Goto(p, l)
    /\ UNCHANGED <<db, nextId, arg, cols, seen, tx, history>>

ReactFindPost(p) == FindPost(p, "react_post", post, "react_find")

(* reaction_repo.find_by_post_and_user: a new reaction, for which the      *)
(* entity is counted up, the same one again (AlreadyReactedError) or one   *)
(* of another type, to be replaced, for which the entity is not needed.    *)
ReactFindReaction(p) ==
    /\ pc[p] = "react_find"
    /\ LET r == row[User(p)]
       IN  \/ /\ r = NoRow
              /\ ent' = [ent EXCEPT ![p].likes = @ + 1]
              /\ Goto(p, "react_select")
              /\ UNCHANGED <<db, nextId, arg, cols, seen, tx, history>>
           \/ /\ r # NoRow /\ r.type # arg[p].type
              /\ seen' = [seen EXCEPT ![p] = r]
              /\ ent' = [ent EXCEPT ![p] = Blank]
              /\ overtaken' = overtaken \ {p}
              /\ Goto(p, "react_delete")
              /\ UNCHANGED <<db, nextId, arg, cols, tx, overlap>>
           \/ r # NoRow /\ r.type = arg[p].type /\ RollBack(p)

(* Mutant of SelectPost: every column of the entity is flushed.            *)
SelectPostForAll(p, from, same, differs) ==
    /\ pc[p] = from
    /\ cols' = [cols EXCEPT ![p] = Columns]
    /\ Goto(p, differs)
    /\ UNCHANGED <<db, nextId, arg, ent, seen, tx, history>>

(* post_repo.update first selects the row again; when it is what the       *)
(* entity says already, there is nothing to flush and no row is locked.    *)
SelectPost(p, from, same, differs) ==
    /\ pc[p] = from
    /\ cols' = [cols EXCEPT ![p] = {c \in Columns : post[c] # ent[p][c]}]
    /\ Goto(p, IF post = ent[p] THEN same ELSE differs)
    /\ UNCHANGED <<db, nextId, arg, ent, seen, tx, history>>

ReactSelect(p) == SelectPost(p, "react_select", "react_insert", "react_count")

(* Its flush: UPDATE posts SET the columns that differ, with the values of *)
(* the entity.                                                             *)
UpdatePost(p, from, l) ==
    /\ pc[p] = from
    /\ Free(p)
    /\ Goto(p, l)
    /\ UNCHANGED <<db, nextId, arg, ent, cols, seen, tx, history>>

ReactCount(p) == UpdatePost(p, "react_count", "react_insert")

(* reaction_repo.delete: DELETE ... WHERE id, which may find no row.       *)
DeleteReaction(p, from, l) ==
    /\ pc[p] = from
    /\ Free(p)
    /\ del' = [del EXCEPT ![p] = (row[User(p)].id = seen[p].id)]
    /\ Goto(p, l)
    /\ UNCHANGED <<db, nextId, arg, ent, cols, seen, ins, history>>

(* Mutants of ReactDelete: a replacement is counted as well, after the     *)
(* delete; the new row is forgotten.                                       *)
ReactDeleteThenCount(p) ==
    /\ pc[p] = "react_delete"
    /\ Free(p)
    /\ del' = [del EXCEPT ![p] = (row[User(p)].id = seen[p].id)]
    /\ ent' = [ent EXCEPT ![p] = [post EXCEPT !.likes = @ + 1]]
    /\ Goto(p, "react_select")
    /\ UNCHANGED <<db, nextId, arg, cols, seen, ins, history>>
ReactDeleteOnly(p) == DeleteReaction(p, "react_delete", "commit")

ReactDelete(p) == DeleteReaction(p, "react_delete", "react_insert")

(* Mutant of ReactInsert: the new row takes the type of the old one.       *)
ReactInsertOldType(p) ==
    /\ pc[p] = "react_insert"
    /\ Free(p)
    /\ row[User(p)] = NoRow \/ del[p]
    /\ ins' = [ins EXCEPT ![p] = [id |-> arg[p].id, type |-> seen[p].type]]
    /\ Goto(p, "commit")
    /\ UNCHANGED <<db, nextId, arg, ent, cols, seen, del, history>>

(* reaction_repo.save: the INSERT fails on uq_reaction_post_user when the  *)
(* user has a reaction that this transaction has not deleted.              *)
ReactInsert(p) ==
    /\ pc[p] = "react_insert"
    /\ Free(p)
    /\ \/ /\ row[User(p)] = NoRow \/ del[p]
          /\ ins' = [ins EXCEPT ![p] = [id |-> arg[p].id, type |-> arg[p].type]]
          /\ Goto(p, "commit")
          /\ UNCHANGED <<db, nextId, arg, ent, cols, seen, del, history>>
       \/ row[User(p)] # NoRow /\ ~del[p] /\ RollBack(p)

(* RemoveReactionUseCase.execute *)
RemoveFind(p) ==
    /\ pc[p] = "remove_find"
    /\ \/ /\ row[User(p)] # NoRow
          /\ seen' = [seen EXCEPT ![p] = row[User(p)]]
          /\ Goto(p, "remove_post")
          /\ UNCHANGED <<db, nextId, arg, ent, cols, tx, history>>
       \/ row[User(p)] = NoRow /\ RollBack(p)

(* Post.decrement_like_count *)
Decremented(n) == IF n = 0 THEN 0 ELSE n - 1

RemoveFindPost(p) ==
    FindPost(p, "remove_post", [post EXCEPT !.likes = Decremented(@)], "remove_select")
RemoveSelect(p) == SelectPost(p, "remove_select", "remove_delete", "remove_count")
RemoveCount(p) == UpdatePost(p, "remove_count", "remove_delete")
RemoveDelete(p) == DeleteReaction(p, "remove_delete", "commit")

(* LikePostUseCase.execute: the post and the user's like are looked up     *)
(* (there never is one), then like_repo.save calls LikeModel(id=...), but  *)
(* LikeModel declares id with init=False in a MappedAsDataclass base:      *)
(* TypeError, before anything is counted; __aexit__ rolls back, a 500.     *)
LikeSave(p) == pc[p] = "like_post" /\ RollBack(p)

(* UnlikePostUseCase.execute: there is no like to find, NotLikedError.     *)
UnlikeFind(p) == pc[p] = "unlike_find" /\ RollBack(p)

(* CreateCommentUseCase.execute: the post is found, and comment_repo.save  *)
(* calls CommentModel(id=...), which is a TypeError as well.               *)
CommentSave(p) == pc[p] = "comment_post" /\ RollBack(p)

(* DeleteCommentUseCase.execute: no comment to find, CommentNotFoundError. *)
CommentFind(p) == pc[p] = "comment_find" /\ RollBack(p)

(* UpdatePostUseCase.execute and DeletePostUseCase.execute: the author's   *)
(* entity with another text, which may be missing from the request, or     *)
(* unpublished.  Others, and texts that PostContent refuses, are errors.   *)
EditedPost == {[post EXCEPT !.text = t] : t \in {post.text, "new"}}
DeletedPost == {[post EXCEPT !.live = FALSE]}

AuthorFind(p) ==
    \/ \E e \in IF arg[p].type = "text" THEN EditedPost ELSE DeletedPost :
          FindPost(p, "author_find", e, "author_select")
    \/ pc[p] = "author_find" /\ RollBack(p)
AuthorSelect(p) == SelectPost(p, "author_select", "commit", "author_update")
AuthorUpdate(p) == UpdatePost(p, "author_update", "commit")

BetweenReads(q) == pc[q] \in {"react_find", "react_select", "remove_select", "author_select"}

(* uow.commit() *)
Commit(p) ==
    /\ pc[p] = "commit"
    /\ post' = [c \in Columns |-> IF c \in cols[p] THEN ent[p][c] ELSE post[c]]
    /\ row' = IF ins[p] # NoRow \/ del[p] THEN [row EXCEPT ![User(p)] = ins[p]] ELSE row
    /\ overtaken' = (overtaken \ {p}) \cup {q \in Procs \ {p} : post' # post /\ BetweenReads(q)}
    /\ Finish(p)
    /\ UNCHANGED <<nextId, overlap>>

(* command_timeout ends a statement that waits.                            *)
StatementTimeout(p) == ~Free(p) /\ RollBack(p)

(* A lost connection or a cancelled task, anywhere.                        *)
Abort(p) == pc[p] # "idle" /\ RollBack(p)

Step(p) ==
    \/ ReactFindPost(p) \/ ReactFindReaction(p) \/ ReactSelect(p) \/ ReactCount(p) \/ ReactDelete(p)
    \/ ReactInsert(p) \/ RemoveFind(p) \/ RemoveFindPost(p) \/ RemoveSelect(p) \/ RemoveCount(p)
    \/ RemoveDelete(p) \/ LikeSave(p) \/ UnlikeFind(p) \/ CommentSave(p) \/ CommentFind(p)
    \/ AuthorFind(p) \/ AuthorSelect(p) \/ AuthorUpdate(p) \/ Commit(p)
    \/ StatementTimeout(p)

Next == \E p \in Procs :
    StartReact(p) \/ StartRemove(p) \/ StartOther(p) \/ StartAuthor(p) \/ Step(p) \/ Abort(p)

Spec == Init /\ [][Next]_vars

-----------------------------------------------------------------------------
(* Properties. *)

(* What docs/DATABASE.md says of the counter, which is updated in the      *)
(* transaction of the insert so as not to drift: it is the number of rows. *)
CountMatchesRows == post.likes = Cardinality({u \in Users : row[u] # NoRow})

(* As long as requests come one after the other the counter is exact,      *)
(* through replacements, removals and rollbacks at every statement.        *)
ExactWithoutOverlap == ~overlap => CountMatchesRows

(* The lock order of the use cases (the post row before the reaction key)  *)
(* excludes deadlock: no set of handlers waits for one another.            *)
NoDeadlock == \A S \in (SUBSET Procs) \ {{}} : \E p \in S : \A q \in S : ~WaitsFor(p, q)

(* The column that the use case of p is about: a reaction counts, the      *)
(* author, whose handler inserts no row, edits the text or unpublishes.    *)
OwnColumn(p) == IF arg[p].id = 0 /\ arg[p].type \in Columns THEN arg[p].type ELSE "likes"

(* A commit changes a column that its use case is not about only if        *)
(* another commit has changed the post between its two reads.  Then it     *)
(* does: a reaction that has read the post before it was deleted and       *)
(* selects it again afterwards publishes the post once more.               *)
OthersKept == [][\A p \in Procs \ overtaken : pc[p] = "commit" /\ pc'[p] = "idle" =>
    \A c \in Columns \ {OwnColumn(p)} : post'[c] = post[c]]_vars

(* Once a user has a reaction, react never leaves the user without one:    *)
(* a replacement deletes and inserts in one commit, so the row disappears  *)
(* only by the commit of a removal that had read that very row.            *)
ReplacedAtOnce == [][\A u \in Users :
    row[u] # NoRow /\ row'[u] = NoRow =>
        \E p \in Procs : User(p) = u /\ seen[p] = row[u] /\ arg[p].id = 0]_vars
=============================================================================
