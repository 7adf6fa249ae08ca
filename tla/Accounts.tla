------------------------------ MODULE Accounts ------------------------------
(***************************************************************************)
(* Accounts, profiles and follows: the requests that look first and write  *)
(* afterwards.  POST /users, the first profile of a user and a follow      *)
(* check that a row is absent and insert it; PUT /users and PUT            *)
(* /users/{id}/profile and /avatar read a row, build the entity with the   *)
(* new values, read the row again and write the columns that differ.       *)
(* Nothing is locked between the reads; PostgreSQL runs READ COMMITTED,    *)
(* and only its unique indexes and row locks order the writes.             *)
(*                                                                         *)
(* Whether the commit of these use cases reaches the database is the       *)
(* subject of UnitOfWork.tla; here it may.  One registered user stands for *)
(* all of them.                                                            *)
(***************************************************************************)
EXTENDS Integers

CONSTANTS
    Requests,           \* requests in flight at a time
    Emails, Names,      \* what new accounts ask for
    Pairs,              \* (follower, following)
    Values, Inputs,     \* values of a column, and those that requests submit
    Bodies              \* sets of columns that the body of a request may name

CONSTANTS Default, Keep \* the value of a new row; a column that is not written

(* A display name is "{first_name} {last_name}": the pair stands for it.   *)
Cells == Values \cup (Values \X Values)
Cell(c) == IF c = "display" THEN Values \X Values ELSE Values

ASSUME ValuesAssumption == Default \in Values /\ Keep \notin Cells /\ Inputs \subseteq Values

VARIABLES
    count,      \* count[k]: committed rows with unique key k
    col,        \* col[c]: committed columns of the user's two rows
    pc, kind,   \* a request: its place and its operation
    todo,       \* todo[w]: unique keys of the row that w inserts, not yet in their index
    ins, del,   \* keys that w's transaction has inserted or deleted
    new,        \* new[w]: w's value for each column
    writes,     \* tables whose row w's transaction has updated
    edits,      \* edits[w]: columns that the body of the request names
    overtaken,  \* history: requests between whose two reads of a row
                \* another request has changed it
    late,       \* history: requests after whose second read it has changed
    torn        \* history: the last change of a name was by a late request

vars == <<count, col, pc, kind, todo, ins, del, new, writes, edits, overtaken, late, torn>>

Key(index, v) == [index |-> index, of |-> v]
Mine == "user"
Keys == [index : {"email"}, of : Emails] \cup [index : {"user_name"}, of : Names]
        \cup [index : {"profile"}, of : {Mine}] \cup [index : {"follow"}, of : Pairs]
ProfileKey == Key("profile", Mine)

Tables == {"users", "profiles"}
NameColumns == {"first", "last", "display"}
Columns == NameColumns \cup {"password", "bio", "avatar"}
TableOf(c) == IF c \in {"bio", "avatar"} THEN "profiles" ELSE "users"
Cols(t) == {c \in Columns : TableOf(c) = t}
Kinds == {"none", "register", "users", "profiles", "follow", "unfollow"}
Labels == {"idle", "email", "name", "following", "upload", "find", "reread", "insert", "update", "delete", "commit"}
Untouched == [c \in Columns |-> Keep]
Rows(extra) == {r \in [Columns -> Cells \cup extra] : \A c \in Columns : r[c] \in Cell(c) \cup extra}

TypeOK ==
    /\ count \in [Keys -> Nat]
    /\ col \in Rows({})
    /\ pc \in [Requests -> Labels]
    /\ kind \in [Requests -> Kinds]
    /\ todo \in [Requests -> SUBSET Keys]
    /\ ins \in [Requests -> SUBSET Keys]
    /\ del \in [Requests -> SUBSET Keys]
    /\ new \in [Requests -> Rows({Keep})]
    /\ writes \in [Requests -> SUBSET Tables]
    /\ edits \in [Requests -> SUBSET Columns]
    /\ overtaken \subseteq Requests
    /\ late \subseteq Requests
    /\ torn \in BOOLEAN
    /\ \A w \in Requests : pc[w] \in {"upload", "find", "reread", "update"} => kind[w] \in Tables

Init ==
    /\ count = [k \in Keys |-> 0]
    /\ col = [c \in Columns |-> IF c = "display" THEN <<Default, Default>> ELSE Default]
    /\ pc = [w \in Requests |-> "idle"]
    /\ kind = [w \in Requests |-> "none"]
    /\ todo = [w \in Requests |-> {}]
    /\ ins = [w \in Requests |-> {}] /\ del = [w \in Requests |-> {}]
    /\ new = [w \in Requests |-> Untouched]
    /\ writes = [w \in Requests |-> {}]
    /\ edits = [w \in Requests |-> {}]
    /\ overtaken = {}
    /\ late = {}
    /\ torn = FALSE

database == <<count, col>>
transaction == <<ins, del, writes>>
body == <<kind, edits>>
history == <<overtaken, late, torn>>

Goto(w, l) == pc' = [pc EXCEPT ![w] = l]

(* Start(w, k, l, keys, cs, v): a request of kind k begins at l; the row   *)
(* it may insert has these unique keys, and it sets the columns cs to v.   *)
Start(w, k, l, keys, cs, v) ==
    /\ pc[w] = "idle"
    /\ Goto(w, l)
    /\ kind' = [kind EXCEPT ![w] = k]
    /\ todo' = [todo EXCEPT ![w] = keys]
    /\ edits' = [edits EXCEPT ![w] = cs]
    /\ new' = [new EXCEPT ![w] = [c \in Columns |-> IF c \in cs THEN v ELSE Keep]]
    /\ UNCHANGED <<database, transaction, history>>

(* The transaction ends, whatever it has done, and the answer is sent.     *)
Answer(w) ==
    /\ Goto(w, "idle")
    /\ kind' = [kind EXCEPT ![w] = "none"]
    /\ todo' = [todo EXCEPT ![w] = {}]
    /\ ins' = [ins EXCEPT ![w] = {}] /\ del' = [del EXCEPT ![w] = {}]
    /\ new' = [new EXCEPT ![w] = Untouched]
    /\ writes' = [writes EXCEPT ![w] = {}]
    /\ edits' = [edits EXCEPT ![w] = {}]
    /\ overtaken' = overtaken \ {w} /\ late' = late \ {w} /\ torn' = torn

-----------------------------------------------------------------------------
(* The requests. *)

Register(w, e, n) == Start(w, "register", "email", {Key("email", e), Key("user_name", n)}, {}, Keep)

(* first_name, last_name, password and birthday are all optional (birthday *)
(* is a column like password).                                             *)
EditUser(w, cs, v) == cs \subseteq Cols("users") \ {"display"} /\ Start(w, "users", "find", {}, cs, v)

UpdateProfile(w, cs, v) == cs \subseteq {"bio"} /\ Start(w, "profiles", "find", {ProfileKey}, cs, v)

(* The file is stored before the transaction begins; without it no row is  *)
(* read or written.                                                        *)
UploadAvatar(w, v) == Start(w, "profiles", "upload", {ProfileKey}, {"avatar"}, v)

Upload(w) ==
    /\ pc[w] = "upload"
    /\ \/ Goto(w, "find") /\ UNCHANGED <<todo, transaction, body, new, history>>
       \/ Answer(w)
    /\ UNCHANGED database

FollowUser(w, p) == Start(w, "follow", "following", {Key("follow", p)}, {}, Keep)
UnfollowUser(w, p) == Start(w, "unfollow", "following", {Key("follow", p)}, {}, Keep)

-----------------------------------------------------------------------------
(* The checks: they see committed rows only. *)

Exists(w, index) == \E k \in todo[w] : k.index = index /\ count[k] > 0

(* exists_by_email, then exists_by_user_name: 409 when the row is there.   *)
Check(w, index, next) ==
    /\ \/ Exists(w, index) /\ Answer(w)
       \/ ~Exists(w, index) /\ Goto(w, next) /\ UNCHANGED <<todo, transaction, body, new, history>>
    /\ UNCHANGED database

CheckEmail(w) == pc[w] = "email" /\ Check(w, "email", "name")
CheckName(w) == pc[w] = "name" /\ Check(w, "user_name", "insert")

(* is_following: 409 for a follow that exists, or an unfollow that has     *)
(* nothing to end.                                                         *)
CheckFollowing(w) ==
    /\ pc[w] = "following"
    /\ \/ (Exists(w, "follow") <=> kind[w] = "follow") /\ Answer(w)
       \/ /\ ~(Exists(w, "follow") <=> kind[w] = "follow")
          /\ Goto(w, IF kind[w] = "follow" THEN "insert" ELSE "delete")
          /\ UNCHANGED <<todo, transaction, body, new, history>>
    /\ UNCHANGED database

(* The entity: the row with the submitted values.                          *)
Merged(w, c) == IF TableOf(c) = kind[w] /\ new[w][c] = Keep THEN col[c] ELSE new[w][c]

(* Mutant of Edited: the display name is left as it was.                   *)
EditedNamesOnly(w) == [c \in Columns |-> Merged(w, c)]

(* update_profile_fields computes the display name from both names, in     *)
(* every request.                                                          *)
Edited(w) == [c \in Columns |->
    IF c = "display" /\ kind[w] = "users" THEN <<Merged(w, "first"), Merged(w, "last")>> ELSE Merged(w, c)]

(* find_by_id, find_by_user_id.  A missing profile will be created, with   *)
(* defaults elsewhere.                                                     *)
Find(w) ==
    /\ pc[w] = "find"
    /\ \/ /\ kind[w] = "profiles" /\ count[ProfileKey] = 0
          /\ Goto(w, "insert") /\ UNCHANGED <<todo, new>>
       \/ /\ kind[w] = "profiles" => count[ProfileKey] > 0
          /\ new' = [new EXCEPT ![w] = Edited(w)]
          /\ Goto(w, "reread")
          /\ todo' = [todo EXCEPT ![w] = {}]
    /\ UNCHANGED <<database, transaction, body, history>>

(* Mutant of Reread: every column goes into the UPDATE.                    *)
RereadAll(w) ==
    /\ pc[w] = "reread"
    /\ Goto(w, "update")
    /\ UNCHANGED <<database, todo, transaction, body, new, history>>

(* repository.update selects the row again: the model of the first SELECT  *)
(* is no longer referenced, so the session loads the current values.  The  *)
(* attributes are assigned from the entity, and those that differ from the *)
(* loaded ones will be written.                                            *)
Reread(w) ==
    /\ pc[w] = "reread"
    /\ new' = [new EXCEPT ![w] = [c \in Columns |-> IF @[c] = col[c] THEN Keep ELSE @[c]]]
    /\ Goto(w, "update")
    /\ UNCHANGED <<database, todo, transaction, body, history>>

-----------------------------------------------------------------------------
(* The writes. *)

Blocked(w, k) == \E v \in Requests \ {w} : k \in ins[v] \cup del[v]
RowBlocked(w, t) == \E v \in Requests \ {w} : t \in writes[v]

(* Mutant of FirstIndex: each request has an order of its own.             *)
FirstIndexAny(w, k) == k \in todo[w]

(* The row goes into its indexes one after the other, in the order in      *)
(* which the migrations have created them.                                 *)
FirstIndex(w, k) == k.index = "user_name" => \A j \in todo[w] : j.index # "email"

(* Mutant of Insert: the index is not unique.                              *)
InsertAnyway(w) ==
    /\ pc[w] = "insert"
    /\ \E k \in todo[w] :
          /\ FirstIndex(w, k)
          /\ ins' = [ins EXCEPT ![w] = @ \cup {k}]
          /\ todo' = [todo EXCEPT ![w] = @ \ {k}]
          /\ Goto(w, IF todo[w] = {k} THEN "commit" ELSE "insert")
    /\ UNCHANGED <<database, del, writes, body, new, history>>

(* INSERT: waits for a transaction that has the same key.                  *)
Insert(w) ==
    /\ pc[w] = "insert"
    /\ \E k \in todo[w] :
          /\ FirstIndex(w, k) /\ ~Blocked(w, k)
          /\ count[k] = 0
          /\ ins' = [ins EXCEPT ![w] = @ \cup {k}]
          /\ todo' = [todo EXCEPT ![w] = @ \ {k}]
          /\ Goto(w, IF todo[w] = {k} THEN "commit" ELSE "insert")
    /\ UNCHANGED <<database, del, writes, body, new, history>>

(* IntegrityError: no handler of its own, a 500.                           *)
InsertRefused(w) ==
    /\ pc[w] = "insert"
    /\ \E k \in todo[w] : FirstIndex(w, k) /\ ~Blocked(w, k) /\ count[k] > 0
    /\ Answer(w)
    /\ UNCHANGED database

(* UPDATE of the columns that differ; without any there is no statement.   *)
Update(w) ==
    /\ pc[w] = "update"
    /\ \/ new[w] = Untouched /\ writes' = writes
       \/ /\ new[w] # Untouched
          /\ ~RowBlocked(w, kind[w])
          /\ writes' = [writes EXCEPT ![w] = {kind[w]}]
    /\ Goto(w, "commit")
    /\ UNCHANGED <<database, todo, ins, del, body, new, history>>

(* DELETE of the follow: it waits, and may then find nothing to delete.    *)
Delete(w) ==
    /\ pc[w] = "delete"
    /\ \A k \in todo[w] : ~Blocked(w, k)
    /\ del' = [del EXCEPT ![w] = {k \in todo[w] : count[k] > 0}]
    /\ todo' = [todo EXCEPT ![w] = {}]
    /\ Goto(w, "commit")
    /\ UNCHANGED <<database, ins, writes, body, new, history>>

RowChanges(v) == \E c \in Cols(kind[v]) : col'[c] # col[c]
Written(w) == {c \in Columns : new[w][c] # Keep}

Commit(w) ==
    /\ pc[w] = "commit"
    /\ count' = [k \in Keys |-> IF k \in ins[w] THEN count[k] + 1
                                ELSE IF k \in del[w] THEN count[k] - 1 ELSE count[k]]
    /\ col' = [c \in Columns |-> IF c \in Written(w) THEN new[w][c] ELSE col[c]]
    /\ Goto(w, "idle")
    /\ kind' = [kind EXCEPT ![w] = "none"]
    /\ todo' = [todo EXCEPT ![w] = {}]
    /\ ins' = [ins EXCEPT ![w] = {}] /\ del' = [del EXCEPT ![w] = {}]
    /\ new' = [new EXCEPT ![w] = Untouched]
    /\ writes' = [writes EXCEPT ![w] = {}]
    /\ edits' = [edits EXCEPT ![w] = {}]
    /\ overtaken' = (overtaken \ {w}) \cup {v \in Requests \ {w} : pc[v] = "reread" /\ RowChanges(v)}
    /\ late' = (late \ {w}) \cup {v \in Requests \ {w} : pc[v] \in {"update", "commit"} /\ RowChanges(v)}
    /\ torn' = IF Written(w) \cap NameColumns # {} THEN w \in late ELSE torn

(* A statement or the commit fails, or command_timeout ends a statement    *)
(* that waits for another transaction.                                     *)
Fail(w) ==
    /\ pc[w] \notin {"idle", "upload"}
    /\ Answer(w)
    /\ UNCHANGED database

Step(w) ==
    \/ Upload(w) \/ CheckEmail(w) \/ CheckName(w) \/ CheckFollowing(w)
    \/ Find(w) \/ Reread(w) \/ Insert(w) \/ InsertRefused(w) \/ Update(w) \/ Delete(w) \/ Commit(w)

Next == \E w \in Requests :
    \/ \E e \in Emails, n \in Names : Register(w, e, n)
    \/ \E cs \in Bodies, v \in Inputs : EditUser(w, cs, v) \/ UpdateProfile(w, cs, v)
    \/ \E v \in Inputs : UploadAvatar(w, v)
    \/ \E p \in Pairs : FollowUser(w, p) \/ UnfollowUser(w, p)
    \/ Step(w) \/ Fail(w)

Spec == Init /\ [][Next]_vars

-----------------------------------------------------------------------------
(* Properties. *)

(* Two requests that both have seen an address, a name, a profile or a     *)
(* follow absent do not both store it.                                     *)
OneRowPerKey == \A k \in Keys : count[k] <= 1

(* A committed change never undoes a change of a column that the request   *)
(* does not name, unless that change was committed between its two reads   *)
(* of the row: then PUT /users with a new first name brings the old        *)
(* password back.  The display name, which no request names and every      *)
(* PUT /users computes, is the subject of DisplayFollowsNames.             *)
OnlyItsColumns == [][\A w \in Requests : pc[w] = "commit" /\ w \notin overtaken =>
    \A c \in Columns \ (edits[w] \cup {"display"}) : pc'[w] = "idle" => col'[c] = col[c]]_vars

(* The display name is that of the two names, unless the last request that *)
(* wrote any of the three had read the row for the last time before        *)
(* another one changed it; the next edit, if only of a password, repairs   *)
(* it.                                                                     *)
DisplayFollowsNames == ~torn => col["display"] = <<col["first"], col["last"]>>

(* u's statement cannot go on before v's transaction ends.                 *)
WaitsFor(u, v) ==
    /\ u # v
    /\ \/ pc[u] = "insert" /\ \E k \in todo[u] : FirstIndex(u, k) /\ k \in ins[v] \cup del[v]
       \/ pc[u] = "update" /\ new[u] # Untouched /\ kind[u] \in writes[v]
       \/ pc[u] = "delete" /\ \E k \in todo[u] : k \in ins[v] \cup del[v]

(* Requests wait for each other's keys and rows, never in a circle: who    *)
(* is waited for by a waiting request has only its commit left.            *)
NoDeadlock == \A u, v, w \in Requests : WaitsFor(u, v) /\ WaitsFor(v, w) => pc[w] = "commit"
=============================================================================
