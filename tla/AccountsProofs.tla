---------------------------- MODULE AccountsProofs ----------------------------
(***************************************************************************)
(* Proofs about Accounts for any set of requests, addresses, names, pairs  *)
(* and values.                                                             *)
(*                                                                         *)
(* OneRowPerKey rests on KeysExclusive: a key that a transaction has       *)
(* inserted has no committed row and belongs to no other transaction.      *)
(* OnlyItsColumns rests on Loyal: what a request carries for a column it   *)
(* does not name is nothing, or still the committed value.                 *)
(* DisplayFollowsNames rests on Whole: a request whose row has not changed *)
(* since it read it again will leave a display name that is that of the    *)
(* names.  NoDeadlock rests on Ordered: a request that holds something and *)
(* still has to wait holds an address and waits for a name.                *)
(***************************************************************************)
EXTENDS Accounts, TLAPS

KeysExclusive ==
    /\ \A w \in Requests : \A k \in ins[w] :
          count[k] = 0 /\ \A v \in Requests \ {w} : k \notin ins[v] \cup del[v]
    /\ \A w \in Requests : \A k \in del[w] :
          count[k] > 0 /\ \A v \in Requests \ {w} : k \notin ins[v] \cup del[v]

Loyal == \A w \in Requests \ overtaken : \A c \in Columns \ (edits[w] \cup {"display"}) :
    \/ new[w][c] = Keep
    \/ pc[w] = "reread" /\ TableOf(c) = kind[w] /\ new[w][c] = col[c]

(* The column after the commit of w, if nothing else changes it before.    *)
Left(w, c) == IF new[w][c] = Keep THEN col[c] ELSE new[w][c]

WholeAt(w) ==
    /\ kind[w] = "users" => pc[w] \in {"find", "reread", "update", "commit"}
    /\ kind[w] # "users" => \A c \in NameColumns : new[w][c] = Keep
    /\ kind[w] = "users" /\ pc[w] = "reread" =>
          /\ \A c \in NameColumns : new[w][c] # Keep
          /\ new[w]["display"] = <<new[w]["first"], new[w]["last"]>>
    /\ kind[w] = "users" /\ pc[w] \in {"update", "commit"} /\ w \notin late =>
          Left(w, "display") = <<Left(w, "first"), Left(w, "last")>>

Whole == \A w \in Requests : WholeAt(w)

(* At most two keys, an address and a name.                                *)
Paired(keys) == \A j, k \in keys : j # k =>
    \/ j.index = "email" /\ k.index = "user_name"
    \/ j.index = "user_name" /\ k.index = "email"

OrderedAt(w) ==
    /\ Paired(todo[w])
    /\ ins[w] # {} => pc[w] \in {"insert", "commit"}
    /\ del[w] # {} \/ writes[w] # {} => pc[w] = "commit"
    /\ pc[w] = "insert" /\ ins[w] # {} =>
          (\A k \in ins[w] : k.index = "email") /\ (\A k \in todo[w] : k.index = "user_name")

Ordered == \A w \in Requests : OrderedAt(w)

Inv == TypeOK /\ KeysExclusive /\ OneRowPerKey /\ Loyal /\ Ordered /\ Whole /\ DisplayFollowsNames

(* The operations that a request may begin with.                           *)
Begins(w) ==
    \E k \in Kinds, l \in Labels, keys \in SUBSET Keys, cs \in SUBSET Columns, v \in Values \cup {Keep} :
        /\ l \in {"upload", "find", "reread", "update"} => k \in Tables
        /\ l \notin {"reread", "insert", "commit"}
        /\ Paired(keys)
        /\ cs # {} => v \in Values
        /\ "display" \notin cs
        /\ IF k = "users" THEN l = "find" ELSE cs \cap NameColumns = {}
        /\ Start(w, k, l, keys, cs, v)

(* The conjuncts of TypeOK about what a request holds.                     *)
RequestsOK ==
    /\ pc \in [Requests -> Labels]
    /\ kind \in [Requests -> Kinds]
    /\ todo \in [Requests -> SUBSET Keys]
    /\ ins \in [Requests -> SUBSET Keys]
    /\ del \in [Requests -> SUBSET Keys]
    /\ new \in [Requests -> Rows({Keep})]
    /\ writes \in [Requests -> SUBSET Tables]
    /\ edits \in [Requests -> SUBSET Columns]
    /\ overtaken \subseteq Requests /\ late \subseteq Requests /\ torn \in BOOLEAN
    /\ \A w \in Requests : pc[w] \in {"upload", "find", "reread", "update"} => kind[w] \in Tables

LEMMA TypeParts == TypeOK <=> count \in [Keys -> Nat] /\ col \in Rows({}) /\ RequestsOK
BY DEF TypeOK, RequestsOK

LEMMA TypeNext ==
    ASSUME count' \in [Keys -> Nat], col' \in Rows({}), RequestsOK'
    PROVE  TypeOK'
BY DEF TypeOK, RequestsOK

LEMMA UntouchedType == Untouched \in Rows({Keep})
BY DEF Untouched, Rows, Columns

LEMMA AnswerType ==
    ASSUME TypeOK, NEW w \in Requests, Answer(w)
    PROVE  RequestsOK'
<1>1. "idle" \in Labels /\ "none" \in Kinds
    BY DEF Labels, Kinds
<1>. QED BY <1>1, UntouchedType, TypeParts DEF RequestsOK, Answer, Goto

LEMMA EditedType ==
    ASSUME TypeOK, NEW w \in Requests
    PROVE  Edited(w) \in Rows({Keep})
<1>1. /\ \A c \in Columns : new[w][c] \in Cell(c) \cup {Keep} /\ col[c] \in Cell(c)
      /\ \A c \in Columns : Cell(c) \subseteq Cells
    BY DEF TypeOK, Rows, Cells, Cell
<1>2. \A c \in Columns : Merged(w, c) \in Cell(c) \cup {Keep}
    BY <1>1 DEF Merged
<1>3. kind[w] = "users" => Merged(w, "first") \in Values /\ Merged(w, "last") \in Values
    BY <1>1 DEF Merged, Columns, NameColumns, TableOf, Cell
<1>4. \A c \in Columns : Edited(w)[c] \in Cell(c) \cup {Keep}
    BY <1>2, <1>3 DEF Edited, Cell
<1>5. Edited(w) \in [Columns -> Cells \cup {Keep}]
    <2>. DEFINE e(c) == IF c = "display" /\ kind[w] = "users" THEN <<Merged(w, "first"), Merged(w, "last")>> ELSE Merged(w, c)
    <2>1. \A c \in Columns : e(c) \in Cells \cup {Keep}
        BY <1>1, <1>2, <1>3 DEF Cells
    <2>2. Edited(w) = [c \in Columns |-> e(c)]
        BY DEF Edited
    <2>. HIDE DEF e
    <2>. QED BY <2>1, <2>2
<1>. QED BY <1>4, <1>5 DEF Rows

LEMMA BeginsCases ==
    ASSUME NEW w \in Requests,
           \/ \E e \in Emails, n \in Names : Register(w, e, n)
           \/ \E cs \in Bodies, v \in Inputs : EditUser(w, cs, v) \/ UpdateProfile(w, cs, v)
           \/ \E v \in Inputs : UploadAvatar(w, v)
           \/ \E p \in Pairs : FollowUser(w, p) \/ UnfollowUser(w, p)
    PROVE  Begins(w)
<1>0. /\ {"register", "users", "profiles", "follow", "unfollow"} \subseteq Kinds
      /\ {"email", "find", "upload", "following"} \subseteq Labels
      /\ "users" \in Tables /\ "profiles" \in Tables
      /\ {} \in SUBSET Columns /\ {"avatar"} \in SUBSET Columns
    BY DEF Kinds, Labels, Tables, Columns
<1>1. ASSUME NEW e \in Emails, NEW n \in Names, Register(w, e, n) PROVE Begins(w)
    <2>1. {Key("email", e), Key("user_name", n)} \in SUBSET Keys /\ Paired({Key("email", e), Key("user_name", n)})
        BY DEF Key, Keys, Paired
    <2>. QED BY <1>0, <1>1, <2>1 DEF Register, Begins
<1>2. ASSUME NEW cs, NEW v \in Inputs, EditUser(w, cs, v) PROVE Begins(w)
    <2>1. v \in Values /\ {} \in SUBSET Keys /\ Paired({})
        BY ValuesAssumption DEF Paired
    <2>2. cs \in SUBSET Columns /\ "display" \notin cs /\ Start(w, "users", "find", {}, cs, v)
        BY <1>2 DEF EditUser, Cols
    <2>. QED BY <1>0, <2>1, <2>2 DEF Begins
<1>3. {ProfileKey} \in SUBSET Keys /\ Paired({ProfileKey})
    BY DEF ProfileKey, Key, Keys, Paired
<1>4. ASSUME NEW cs, NEW v \in Inputs, UpdateProfile(w, cs, v) PROVE Begins(w)
    <2>1. /\ cs \in SUBSET Columns /\ "display" \notin cs /\ cs \cap NameColumns = {}
          /\ Start(w, "profiles", "find", {ProfileKey}, cs, v)
        BY <1>4 DEF UpdateProfile, Columns, NameColumns
    <2>2. v \in Values BY ValuesAssumption
    <2>. QED BY <1>0, <1>3, <2>1, <2>2 DEF Begins
<1>5. ASSUME NEW v \in Inputs, UploadAvatar(w, v) PROVE Begins(w)
    <2>1. "display" \notin {"avatar"} /\ {"avatar"} \cap NameColumns = {} /\ v \in Values
        BY ValuesAssumption DEF NameColumns
    <2>2. Start(w, "profiles", "upload", {ProfileKey}, {"avatar"}, v)
        BY <1>5 DEF UploadAvatar
    <2>. QED BY <1>0, <1>3, <2>1, <2>2 DEF Begins
<1>6. ASSUME NEW p \in Pairs, FollowUser(w, p) \/ UnfollowUser(w, p) PROVE Begins(w)
    <2>1. {Key("follow", p)} \in SUBSET Keys /\ Paired({Key("follow", p)})
        BY DEF Key, Keys, Paired
    <2>2. CASE FollowUser(w, p)
        BY <1>0, <2>1, <2>2 DEF FollowUser, Begins
    <2>3. CASE UnfollowUser(w, p)
        BY <1>0, <2>1, <2>3 DEF UnfollowUser, Begins
    <2>. QED BY <1>6, <2>2, <2>3
<1>. QED BY <1>1, <1>2, <1>4, <1>5, <1>6

(* The steps of a request that end it without a change of the database,    *)
(* and those that only move it to another place.                           *)
Ends(w) == Answer(w) /\ UNCHANGED database
Moves(w) == pc[w] \in {"email", "name", "following"} /\ \E l \in Labels \ {"upload", "find", "reread", "update"} :
    Goto(w, l) /\ UNCHANGED <<database, todo, transaction, body, new, history>>

LEMMA NextCases ==
    ASSUME Next
    PROVE  \E w \in Requests :
              \/ Begins(w) \/ Ends(w) \/ Moves(w)
              \/ (pc[w] = "upload" /\ Goto(w, "find") /\ UNCHANGED <<database, todo, transaction, body, new, history>>)
              \/ Find(w) \/ Reread(w) \/ Insert(w) \/ Update(w) \/ Delete(w) \/ Commit(w)
<1>0. {"name", "insert", "delete"} \subseteq Labels \ {"upload", "find", "reread", "update"}
    BY DEF Labels
<1>1. PICK w \in Requests :
          \/ Begins(w) \/ Step(w) \/ Fail(w)
    BY BeginsCases DEF Next
<1>2. CASE Upload(w) BY <1>2 DEF Upload, Ends
<1>3. CASE CheckEmail(w) BY <1>0, <1>3 DEF CheckEmail, Check, Ends, Moves
<1>4. CASE CheckName(w) BY <1>0, <1>4 DEF CheckName, Check, Ends, Moves
<1>5. CASE CheckFollowing(w) BY <1>0, <1>5 DEF CheckFollowing, Ends, Moves
<1>6. CASE InsertRefused(w) BY <1>6 DEF InsertRefused, Ends
<1>7. CASE Fail(w) BY <1>7 DEF Fail, Ends
<1>. QED BY <1>1, <1>2, <1>3, <1>4, <1>5, <1>6, <1>7 DEF Step

-----------------------------------------------------------------------------
LEMMA InvInit == Init => Inv
<1>. SUFFICES ASSUME Init PROVE Inv
    OBVIOUS
<1>1. "idle" \in Labels /\ "none" \in Kinds
    BY DEF Labels, Kinds
<1>2. RequestsOK
    BY <1>1, UntouchedType DEF Init, RequestsOK
<1>3. TypeOK
    <2>1. col \in Rows({})
        BY ValuesAssumption DEF Init, Rows, Columns, NameColumns, Cells, Cell
    <2>. QED BY <1>2, <2>1, TypeParts DEF Init
<1>4. KeysExclusive /\ OneRowPerKey
    BY DEF Init, KeysExclusive, OneRowPerKey
<1>5. Loyal
    BY DEF Init, Loyal, Untouched
<1>6. Ordered
    BY DEF Init, Ordered, OrderedAt, Paired
<1>7. Whole
    BY DEF Init, Whole, WholeAt, Untouched, Columns, NameColumns
<1>8. DisplayFollowsNames
    BY DEF Init, DisplayFollowsNames, Columns, NameColumns
<1>. QED BY <1>3, <1>4, <1>5, <1>6, <1>7, <1>8 DEF Inv

LEMMA TypeStep ==
    ASSUME Inv, Next PROVE TypeOK'
<1>0. /\ TypeOK /\ RequestsOK /\ KeysExclusive
      /\ count \in [Keys -> Nat] /\ col \in Rows({})
    BY TypeParts DEF Inv
<1>1. ASSUME NEW w \in Requests, Begins(w) PROVE TypeOK'
    <2>1. PICK k \in Kinds, l \in Labels, keys \in SUBSET Keys, cs \in SUBSET Columns, v \in Values \cup {Keep} :
              /\ l \in {"upload", "find", "reread", "update"} => k \in Tables
              /\ cs # {} => v \in Values
              /\ "display" \notin cs
              /\ Start(w, k, l, keys, cs, v)
        BY <1>1 DEF Begins
    <2>2. [c \in Columns |-> IF c \in cs THEN v ELSE Keep] \in Rows({Keep})
        BY <2>1 DEF Rows, Cells, Cell
    <2>3. RequestsOK'
        BY <1>0, <2>1, <2>2 DEF RequestsOK, Start, Goto, transaction, history
    <2>. QED BY <1>0, <2>1, <2>3, TypeNext DEF Start, database
<1>2. ASSUME NEW w \in Requests, Ends(w) PROVE TypeOK'
    BY <1>0, <1>2, AnswerType, TypeNext DEF Ends, database
<1>3. ASSUME NEW w \in Requests, Moves(w) PROVE TypeOK'
    <2>1. RequestsOK'
        BY <1>0, <1>3 DEF RequestsOK, Moves, Goto, transaction, body, history
    <2>. QED BY <1>0, <1>3, <2>1, TypeNext DEF Moves, database
<1>4. ASSUME NEW w \in Requests, pc[w] = "upload", Goto(w, "find"),
             UNCHANGED <<database, todo, transaction, body, new, history>>
      PROVE  TypeOK'
    <2>0. "find" \in Labels BY DEF Labels
    <2>1. RequestsOK'
        BY <1>0, <1>4, <2>0 DEF RequestsOK, Goto, transaction, body, history
    <2>. QED BY <1>0, <1>4, <2>1, TypeNext DEF database
<1>5. ASSUME NEW w \in Requests, Find(w) PROVE TypeOK'
    <2>0. "insert" \in Labels /\ "reread" \in Labels BY DEF Labels
    <2>1. kind[w] \in Tables /\ new[w] \in Rows({Keep})
        BY <1>0, <1>5 DEF RequestsOK, Find
    <2>2. Edited(w) \in Rows({Keep})
        BY <1>0, <2>1, EditedType
    <2>3. RequestsOK'
        BY <1>0, <1>5, <2>0, <2>1, <2>2 DEF RequestsOK, Find, Goto, transaction, body, history
    <2>. QED BY <1>0, <1>5, <2>3, TypeNext DEF Find, database
<1>6. ASSUME NEW w \in Requests, Reread(w) PROVE TypeOK'
    <2>0. "update" \in Labels BY DEF Labels
    <2>1. kind[w] \in Tables /\ new[w] \in Rows({Keep})
        BY <1>0, <1>6 DEF RequestsOK, Reread
    <2>2. [c \in Columns |-> IF new[w][c] = col[c] THEN Keep ELSE new[w][c]] \in Rows({Keep})
        <3>1. new[w] \in [Columns -> Cells \cup {Keep}] /\ \A c \in Columns : new[w][c] \in Cell(c) \cup {Keep}
            BY <2>1 DEF Rows
        <3>. QED BY <3>1 DEF Rows
    <2>3. RequestsOK'
        BY <1>0, <1>6, <2>0, <2>1, <2>2 DEF RequestsOK, Reread, Goto, transaction, body, history
    <2>. QED BY <1>0, <1>6, <2>3, TypeNext DEF Reread, database
<1>7. ASSUME NEW w \in Requests, Insert(w) PROVE TypeOK'
    <2>0. "insert" \in Labels /\ "commit" \in Labels BY DEF Labels
    <2>1. PICK k \in todo[w] :
              /\ ins' = [ins EXCEPT ![w] = @ \cup {k}]
              /\ todo' = [todo EXCEPT ![w] = @ \ {k}]
              /\ Goto(w, IF todo[w] = {k} THEN "commit" ELSE "insert")
        BY <1>7 DEF Insert
    <2>2. pc' \in [Requests -> Labels] /\ \A v \in Requests : pc'[v] \in {"upload", "find", "reread", "update"} => pc'[v] = pc[v]
        BY <1>0, <2>0, <2>1 DEF RequestsOK, Goto
    <2>3. ins' \in [Requests -> SUBSET Keys] /\ todo' \in [Requests -> SUBSET Keys]
        BY <1>0, <2>1 DEF RequestsOK
    <2>4. RequestsOK'
        BY <1>0, <1>7, <2>2, <2>3 DEF RequestsOK, Insert, body, history
    <2>. QED BY <1>0, <1>7, <2>4, TypeNext DEF Insert, database
<1>8. ASSUME NEW w \in Requests, Update(w) PROVE TypeOK'
    <2>0. "commit" \in Labels BY DEF Labels
    <2>1. kind[w] \in Tables
        BY <1>0, <1>8 DEF RequestsOK, Update
    <2>2. pc' \in [Requests -> Labels] /\ \A v \in Requests : pc'[v] \in {"upload", "find", "reread", "update"} => pc'[v] = pc[v]
        BY <1>0, <1>8, <2>0 DEF RequestsOK, Update, Goto
    <2>3. writes' \in [Requests -> SUBSET Tables]
        BY <1>0, <1>8, <2>1 DEF RequestsOK, Update
    <2>4. RequestsOK'
        BY <1>0, <1>8, <2>2, <2>3 DEF RequestsOK, Update, body, history
    <2>. QED BY <1>0, <1>8, <2>4, TypeNext DEF Update, database
<1>9. ASSUME NEW w \in Requests, Delete(w) PROVE TypeOK'
    <2>0. "commit" \in Labels BY DEF Labels
    <2>1. {k \in todo[w] : count[k] > 0} \in SUBSET Keys
        BY <1>0 DEF RequestsOK
    <2>2. RequestsOK'
        BY <1>0, <1>9, <2>0, <2>1 DEF RequestsOK, Delete, Goto, body, history
    <2>. QED BY <1>0, <1>9, <2>2, TypeNext DEF Delete, database
<1>10. ASSUME NEW w \in Requests, Commit(w) PROVE TypeOK'
    <2>0. "idle" \in Labels /\ "none" \in Kinds BY DEF Labels, Kinds
    <2>1. RequestsOK'
        <3>1. pc' \in [Requests -> Labels] /\ kind' \in [Requests -> Kinds] /\ todo' \in [Requests -> SUBSET Keys]
            BY <1>0, <1>10, <2>0 DEF RequestsOK, Commit, Goto
        <3>2. ins' \in [Requests -> SUBSET Keys] /\ del' \in [Requests -> SUBSET Keys]
            BY <1>0, <1>10 DEF RequestsOK, Commit
        <3>3. new' \in [Requests -> Rows({Keep})]
            BY <1>0, <1>10, UntouchedType DEF RequestsOK, Commit
        <3>4. writes' \in [Requests -> SUBSET Tables] /\ edits' \in [Requests -> SUBSET Columns]
            BY <1>0, <1>10 DEF RequestsOK, Commit
        <3>5. overtaken' \subseteq Requests /\ late' \subseteq Requests /\ torn' \in BOOLEAN
            <4>1. overtaken' \subseteq Requests /\ late' \subseteq Requests
                BY <1>0, <1>10 DEF RequestsOK, Commit
            <4>2. torn \in BOOLEAN /\ torn' = IF Written(w) \cap NameColumns # {} THEN w \in late ELSE torn
                BY <1>0, <1>10 DEF RequestsOK, Commit
            <4>3. torn' \in BOOLEAN
                <5>1. (w \in late) \in BOOLEAN
                    OBVIOUS
                <5>2. CASE Written(w) \cap NameColumns # {}
                    <6>1. torn' = (w \in late) BY <4>2, <5>2
                    <6>. QED BY <5>1, <6>1
                <5>3. CASE Written(w) \cap NameColumns = {}
                    <6>1. torn' = torn BY <4>2, <5>3
                    <6>. QED BY <4>2, <6>1
                <5>. QED BY <5>2, <5>3
            <4>. QED BY <4>1, <4>3
        <3>6. \A v \in Requests : pc'[v] \in {"upload", "find", "reread", "update"} => kind'[v] \in Tables
            BY <1>0, <1>10 DEF RequestsOK, Commit, Goto
        <3>. QED BY <3>1, <3>2, <3>3, <3>4, <3>5, <3>6 DEF RequestsOK
    <2>2. \A k \in Keys : k \in del[w] => count[k] > 0
        BY <1>0 DEF KeysExclusive
    <2>3. \A k \in Keys : (IF k \in ins[w] THEN count[k] + 1
                          ELSE IF k \in del[w] THEN count[k] - 1 ELSE count[k]) \in Nat
        BY <1>0, <2>2
    <2>4. count' \in [Keys -> Nat]
        BY <1>10, <2>3 DEF Commit
    <2>5. /\ new[w] \in [Columns -> Cells \cup {Keep}]
          /\ \A c \in Columns : new[w][c] \in Cell(c) \cup {Keep}
        BY <1>0 DEF RequestsOK, Rows
    <2>6. col \in [Columns -> Cells] /\ \A c \in Columns : col[c] \in Cell(c)
        BY <1>0 DEF Rows
    <2>7. \A c \in Columns : col'[c] = IF new[w][c] # Keep THEN new[w][c] ELSE col[c]
        BY <1>10 DEF Commit, Written
    <2>8. /\ col' = [c \in Columns |-> IF new[w][c] # Keep THEN new[w][c] ELSE col[c]]
        BY <1>10 DEF Commit, Written
    <2>9. col' \in Rows({})
        BY <2>5, <2>6, <2>7, <2>8 DEF Rows
    <2>. QED BY <2>1, <2>4, <2>9, TypeNext
<1>. QED BY <1>1, <1>2, <1>3, <1>4, <1>5, <1>6, <1>7, <1>8, <1>9, <1>10, NextCases

-----------------------------------------------------------------------------
(* A step that changes no key keeps the two invariants about keys.         *)
LEMMA KeysKept ==
    ASSUME Inv, NEW w \in Requests, count' = count,
           \A v \in Requests \ {w} : ins'[v] = ins[v] /\ del'[v] = del[v],
           ins'[w] \subseteq ins[w], del'[w] \subseteq del[w]
    PROVE  (KeysExclusive /\ OneRowPerKey)'
BY DEF Inv, KeysExclusive, OneRowPerKey

LEMMA KeysStep ==
    ASSUME Inv, Next PROVE (KeysExclusive /\ OneRowPerKey)'
<1>0. /\ TypeOK /\ RequestsOK /\ KeysExclusive /\ OneRowPerKey
      /\ count \in [Keys -> Nat]
    BY TypeParts DEF Inv
<1>1. ASSUME NEW w \in Requests, count' = count, ins' = ins, del' = del
      PROVE  (KeysExclusive /\ OneRowPerKey)'
    BY <1>1, KeysKept
<1>2. ASSUME NEW w \in Requests, Begins(w) PROVE (KeysExclusive /\ OneRowPerKey)'
    BY <1>1, <1>2 DEF Begins, Start, database, transaction
<1>3. ASSUME NEW w \in Requests, Ends(w) PROVE (KeysExclusive /\ OneRowPerKey)'
    BY <1>0, <1>3, KeysKept DEF Ends, Answer, database, RequestsOK
<1>4. ASSUME NEW w \in Requests, Moves(w) PROVE (KeysExclusive /\ OneRowPerKey)'
    BY <1>1, <1>4 DEF Moves, database, transaction
<1>5. ASSUME NEW w \in Requests,
             UNCHANGED <<database, todo, transaction, body, new, history>>
      PROVE  (KeysExclusive /\ OneRowPerKey)'
    BY <1>1, <1>5 DEF database, transaction
<1>6. ASSUME NEW w \in Requests, Find(w) \/ Reread(w) \/ Update(w)
      PROVE  (KeysExclusive /\ OneRowPerKey)'
    BY <1>1, <1>6 DEF Find, Reread, Update, database, transaction
<1>7. ASSUME NEW w \in Requests, Insert(w) PROVE (KeysExclusive /\ OneRowPerKey)'
    <2>1. PICK k \in todo[w] : /\ ~Blocked(w, k) /\ count[k] = 0
                               /\ ins' = [ins EXCEPT ![w] = @ \cup {k}]
        BY <1>7 DEF Insert
    <2>2. count' = count /\ del' = del
        BY <1>7 DEF Insert, database
    <2>3. ins'[w] = ins[w] \cup {k} /\ \A v \in Requests \ {w} : ins'[v] = ins[v] /\ k \notin ins[v] \cup del[v]
        BY <1>0, <2>1 DEF RequestsOK, Blocked
    <2>4. k \notin del[w]
        BY <1>0, <2>1 DEF KeysExclusive
    <2>. QED BY <1>0, <2>1, <2>2, <2>3, <2>4 DEF KeysExclusive, OneRowPerKey
<1>8. ASSUME NEW w \in Requests, Delete(w) PROVE (KeysExclusive /\ OneRowPerKey)'
    <2>1. count' = count /\ ins' = ins
        BY <1>8 DEF Delete, database
    <2>2. /\ \A v \in Requests \ {w} : del'[v] = del[v]
          /\ \A k \in del'[w] : count[k] > 0 /\ \A v \in Requests \ {w} : k \notin ins[v] \cup del[v]
        BY <1>0, <1>8 DEF RequestsOK, Delete, Blocked, history
    <2>. QED BY <1>0, <2>1, <2>2 DEF KeysExclusive, OneRowPerKey
<1>9. ASSUME NEW w \in Requests, Commit(w) PROVE (KeysExclusive /\ OneRowPerKey)'
    <2>1. /\ ins'[w] = {} /\ del'[w] = {}
          /\ \A v \in Requests \ {w} : ins'[v] = ins[v] /\ del'[v] = del[v]
        BY <1>0, <1>9 DEF RequestsOK, Commit
    <2>2. \A k \in Keys : count'[k] = IF k \in ins[w] THEN count[k] + 1
                                     ELSE IF k \in del[w] THEN count[k] - 1 ELSE count[k]
        BY <1>9 DEF Commit
    <2>3. \A k \in Keys : k \notin ins[w] \cup del[w] => count'[k] = count[k]
        BY <2>2
    <2>4. KeysExclusive'
        BY <1>0, <2>1, <2>3 DEF KeysExclusive, RequestsOK
    <2>5. OneRowPerKey'
        BY <1>0, <2>2 DEF OneRowPerKey, KeysExclusive
    <2>. QED BY <2>4, <2>5
<1>. QED BY <1>2, <1>3, <1>4, <1>5, <1>6, <1>7, <1>8, <1>9, NextCases

-----------------------------------------------------------------------------
LEMMA LoyalStep ==
    ASSUME Inv, Next PROVE Loyal'
<1>0. /\ TypeOK /\ RequestsOK /\ Loyal
      /\ col \in Rows({})
    BY TypeParts DEF Inv
<1>1. ASSUME NEW w \in Requests, Begins(w) PROVE Loyal'
    <2>1. PICK k \in Kinds, l \in Labels, keys \in SUBSET Keys, cs \in SUBSET Columns, v \in Values \cup {Keep} :
              Start(w, k, l, keys, cs, v)
        BY <1>1 DEF Begins
    <2>2. /\ col' = col /\ overtaken' = overtaken
          /\ edits'[w] = cs /\ \A c \in Columns \ cs : new'[w][c] = Keep
          /\ \A u \in Requests \ {w} : pc'[u] = pc[u] /\ kind'[u] = kind[u] /\ new'[u] = new[u] /\ edits'[u] = edits[u]
        BY <1>0, <2>1 DEF RequestsOK, Start, Goto, database, history
    <2>. QED BY <1>0, <2>2 DEF Loyal
<1>2. ASSUME NEW w \in Requests, Ends(w) PROVE Loyal'
    <2>1. /\ col' = col /\ overtaken' = overtaken \ {w}
          /\ \A c \in Columns : new'[w][c] = Keep
          /\ \A u \in Requests \ {w} : pc'[u] = pc[u] /\ kind'[u] = kind[u] /\ new'[u] = new[u] /\ edits'[u] = edits[u]
        BY <1>0, <1>2 DEF RequestsOK, Ends, Answer, Goto, database, Untouched
    <2>. QED BY <1>0, <2>1 DEF Loyal
<1>3. ASSUME NEW w \in Requests, NEW l, pc[w] # "reread", Goto(w, l), col' = col, new' = new,
             overtaken' = overtaken, UNCHANGED body
      PROVE  Loyal'
    <2>1. \A u \in Requests \ {w} : pc'[u] = pc[u]
        BY <1>0, <1>3 DEF RequestsOK, Goto
    <2>. QED BY <1>0, <1>3, <2>1 DEF Loyal, body
<1>4. ASSUME NEW w \in Requests, Find(w) PROVE Loyal'
    <2>1. CASE Goto(w, "insert") /\ UNCHANGED <<todo, new>>
        BY <1>3, <1>4, <2>1 DEF Find, database, history
    <2>2. CASE /\ new' = [new EXCEPT ![w] = Edited(w)]
               /\ Goto(w, "reread")
        <3>1. /\ col' = col /\ overtaken' = overtaken /\ kind' = kind /\ edits' = edits
              /\ pc[w] = "find" /\ pc'[w] = "reread"
              /\ \A u \in Requests \ {w} : pc'[u] = pc[u] /\ new'[u] = new[u]
              /\ \A c \in Columns \ {"display"} : new'[w][c] = IF TableOf(c) = kind[w] /\ new[w][c] = Keep THEN col[c] ELSE new[w][c]
            BY <1>0, <1>4, <2>2 DEF RequestsOK, Find, Edited, Merged, Goto, database, body, history
        <3>. QED BY <1>0, <3>1 DEF Loyal
    <2>. QED BY <1>4, <2>1, <2>2 DEF Find
<1>5. ASSUME NEW w \in Requests, Reread(w) PROVE Loyal'
    <2>1. /\ col' = col /\ overtaken' = overtaken /\ kind' = kind /\ edits' = edits
          /\ \A u \in Requests \ {w} : pc'[u] = pc[u] /\ new'[u] = new[u]
          /\ \A c \in Columns : new'[w][c] = IF new[w][c] = col[c] THEN Keep ELSE new[w][c]
        BY <1>0, <1>5 DEF RequestsOK, Reread, Goto, database, body, history
    <2>. QED BY <1>0, <2>1 DEF Loyal
<1>6. ASSUME NEW w \in Requests, Insert(w) \/ Update(w) \/ Delete(w) PROVE Loyal'
    BY <1>3, <1>6 DEF Insert, Update, Delete, database, history
<1>7. ASSUME NEW w \in Requests, Commit(w) PROVE Loyal'
    <2>1. /\ \A c \in Columns : new'[w][c] = Keep
          /\ \A u \in Requests \ {w} : pc'[u] = pc[u] /\ kind'[u] = kind[u] /\ new'[u] = new[u] /\ edits'[u] = edits[u]
        BY <1>0, <1>7 DEF RequestsOK, Commit, Goto, Untouched
    <2>2. SUFFICES ASSUME NEW u \in Requests, u \notin overtaken', NEW c \in Columns, c \notin edits'[u], c # "display"
                   PROVE  \/ new'[u][c] = Keep
                          \/ pc'[u] = "reread" /\ TableOf(c) = kind'[u] /\ new'[u][c] = col'[c]
        BY DEF Loyal
    <2>3. CASE u = w
        BY <2>1, <2>3
    <2>4. CASE u # w
        <3>1. u \notin overtaken
            BY <1>7, <2>2, <2>4 DEF Commit
        <3>2. CASE new[u][c] = Keep
            BY <2>1, <2>4, <3>2
        <3>3. CASE pc[u] = "reread" /\ TableOf(c) = kind[u] /\ new[u][c] = col[c]
            <4>1. c \in Cols(kind[u])
                BY <3>3 DEF Cols
            <4>2. col'[c] = col[c]
                BY <1>7, <2>2, <2>4, <3>3, <4>1 DEF Commit, RowChanges
            <4>. QED BY <2>1, <2>4, <3>3, <4>2
        <3>. QED BY <1>0, <2>1, <2>2, <2>4, <3>1, <3>2, <3>3 DEF Loyal
    <2>. QED BY <2>3, <2>4
<1>8. ASSUME NEW w \in Requests, Moves(w) PROVE Loyal'
    <2>1. /\ col' = col /\ new' = new /\ overtaken' = overtaken /\ kind' = kind /\ edits' = edits
          /\ pc[w] # "reread" /\ \A u \in Requests \ {w} : pc'[u] = pc[u]
        BY <1>0, <1>8 DEF RequestsOK, Moves, Goto, database, body, history
    <2>. QED BY <1>0, <2>1 DEF Loyal
<1>. QED BY <1>1, <1>2, <1>3, <1>4, <1>5, <1>6, <1>7, <1>8, NextCases DEF database, history

-----------------------------------------------------------------------------
LEMMA OrderedStep ==
    ASSUME Inv, Next PROVE Ordered'
<1>0. RequestsOK /\ Ordered
    BY TypeParts DEF Inv
<1>1. ASSUME NEW w \in Requests, OrderedAt(w)',
             \A u \in Requests \ {w} : /\ pc'[u] = pc[u] /\ todo'[u] = todo[u]
                                      /\ ins'[u] = ins[u] /\ del'[u] = del[u] /\ writes'[u] = writes[u]
      PROVE  Ordered'
    BY <1>0, <1>1 DEF Ordered, OrderedAt
<1>2. ASSUME NEW w \in Requests, Begins(w) PROVE Ordered'
    <2>1. PICK k \in Kinds, l \in Labels, keys \in SUBSET Keys, cs \in SUBSET Columns, v \in Values \cup {Keep} :
              /\ l \notin {"reread", "insert", "commit"} /\ Paired(keys)
              /\ Start(w, k, l, keys, cs, v)
        BY <1>2 DEF Begins
    <2>2. /\ pc[w] = "idle" /\ pc'[w] = l /\ todo'[w] = keys
          /\ ins' = ins /\ del' = del /\ writes' = writes
          /\ \A u \in Requests \ {w} : pc'[u] = pc[u] /\ todo'[u] = todo[u]
        BY <1>0, <2>1 DEF RequestsOK, Start, Goto, transaction, history
    <2>3. OrderedAt(w)'
        BY <1>0, <2>1, <2>2 DEF Ordered, OrderedAt, Paired
    <2>. QED BY <1>1, <2>2, <2>3
<1>3. ASSUME NEW w \in Requests, Ends(w) \/ Commit(w) PROVE Ordered'
    <2>1. /\ pc'[w] = "idle" /\ todo'[w] = {} /\ ins'[w] = {} /\ del'[w] = {} /\ writes'[w] = {}
          /\ \A u \in Requests \ {w} : /\ pc'[u] = pc[u] /\ todo'[u] = todo[u]
                                       /\ ins'[u] = ins[u] /\ del'[u] = del[u] /\ writes'[u] = writes[u]
        BY <1>0, <1>3 DEF RequestsOK, Ends, Answer, Commit, Goto
    <2>2. OrderedAt(w)'
        BY <2>1 DEF OrderedAt, Paired
    <2>. QED BY <1>1, <2>1, <2>2
<1>4. ASSUME NEW w \in Requests, NEW l, pc[w] \notin {"insert", "commit"}, Goto(w, l),
             todo' = todo \/ todo' = [todo EXCEPT ![w] = {}],
             ins' = ins, del' = del, writes' = writes
      PROVE  Ordered'
    <2>1. /\ ins[w] = {} /\ del[w] = {} /\ writes[w] = {}
          /\ Paired(todo[w])
        BY <1>0, <1>4 DEF Ordered, OrderedAt
    <2>2. /\ todo'[w] = todo[w] \/ todo'[w] = {}
          /\ \A u \in Requests \ {w} : pc'[u] = pc[u] /\ todo'[u] = todo[u]
        BY <1>0, <1>4 DEF RequestsOK, Goto
    <2>3. OrderedAt(w)'
        BY <1>4, <2>1, <2>2 DEF OrderedAt, Paired
    <2>. QED BY <1>1, <1>4, <2>2, <2>3
<1>5. ASSUME NEW w \in Requests, Moves(w) PROVE Ordered'
    BY <1>4, <1>5 DEF Moves, transaction
<1>6. ASSUME NEW w \in Requests, pc[w] = "upload", Goto(w, "find"),
             UNCHANGED <<database, todo, transaction, body, new, history>>
      PROVE  Ordered'
    BY <1>4, <1>6 DEF transaction
<1>7. ASSUME NEW w \in Requests, Find(w) \/ Reread(w) PROVE Ordered'
    BY <1>4, <1>7 DEF Find, Reread, transaction
<1>8. ASSUME NEW w \in Requests, Update(w) \/ Delete(w) PROVE Ordered'
    <2>1. ins[w] = {} /\ Paired(todo[w])
        BY <1>0, <1>8 DEF Ordered, OrderedAt, Update, Delete
    <2>2. /\ pc'[w] = "commit" /\ ins' = ins
          /\ todo'[w] = todo[w] \/ todo'[w] = {}
          /\ \A u \in Requests \ {w} : /\ pc'[u] = pc[u] /\ todo'[u] = todo[u]
                                       /\ del'[u] = del[u] /\ writes'[u] = writes[u]
        BY <1>0, <1>8 DEF RequestsOK, Update, Delete, Goto, history
    <2>3. OrderedAt(w)'
        BY <2>1, <2>2 DEF OrderedAt, Paired
    <2>. QED BY <1>1, <2>2, <2>3
<1>9. ASSUME NEW w \in Requests, Insert(w) PROVE Ordered'
    <2>1. PICK k \in todo[w] :
              /\ FirstIndex(w, k)
              /\ ins' = [ins EXCEPT ![w] = @ \cup {k}]
              /\ todo' = [todo EXCEPT ![w] = @ \ {k}]
              /\ Goto(w, IF todo[w] = {k} THEN "commit" ELSE "insert")
        BY <1>9 DEF Insert
    <2>2. /\ pc[w] = "insert" /\ del' = del /\ writes' = writes
          /\ pc'[w] = IF todo[w] = {k} THEN "commit" ELSE "insert"
          /\ todo'[w] = todo[w] \ {k} /\ ins'[w] = ins[w] \cup {k}
          /\ \A u \in Requests \ {w} : pc'[u] = pc[u] /\ todo'[u] = todo[u] /\ ins'[u] = ins[u]
        BY <1>0, <1>9, <2>1 DEF RequestsOK, Insert, Goto, history
    <2>3. Paired(todo[w]) /\ del[w] = {} /\ writes[w] = {}
        BY <1>0, <2>2 DEF Ordered, OrderedAt
    <2>4. CASE todo[w] = {k}
        <3>1. OrderedAt(w)'
            BY <2>2, <2>3, <2>4 DEF OrderedAt, Paired
        <3>. QED BY <1>1, <2>2, <3>1
    <2>5. CASE todo[w] # {k}
        <3>1. PICK j \in todo[w] : j # k
            BY <2>1, <2>5
        <3>2. k.index = "email"
            BY <2>1, <2>3, <3>1 DEF Paired, FirstIndex
        <3>3. \A i \in todo'[w] : i.index = "user_name"
            BY <2>1, <2>2, <2>3, <3>2 DEF Paired
        <3>4. \A i \in ins'[w] : i.index = "email"
            BY <1>0, <2>2, <3>2 DEF Ordered, OrderedAt
        <3>5. OrderedAt(w)'
            BY <2>2, <2>3, <2>5, <3>3, <3>4 DEF OrderedAt, Paired
        <3>. QED BY <1>1, <2>2, <3>5
    <2>. QED BY <2>4, <2>5
<1>. QED BY <1>2, <1>3, <1>5, <1>6, <1>7, <1>8, <1>9, NextCases

-----------------------------------------------------------------------------
(* A request that keeps what it holds, while the row stays as it was or    *)
(* has been read for the last time.                                        *)
LEMMA WholeKept ==
    ASSUME NEW u \in Requests, WholeAt(u),
           pc'[u] = pc[u], kind'[u] = kind[u], new'[u] = new[u],
           u \notin late' => u \notin late,
           kind[u] = "users" /\ pc[u] \in {"update", "commit"} /\ u \notin late' =>
               \A c \in NameColumns : col'[c] = col[c]
    PROVE  WholeAt(u)'
BY DEF WholeAt, Left, NameColumns

LEMMA WholeStep ==
    ASSUME Inv, Next PROVE Whole'
<1>0. RequestsOK /\ Whole /\ col \in Rows({})
    BY TypeParts DEF Inv
<1>1. ASSUME NEW w \in Requests, WholeAt(w)', col' = col, late' \cup {w} = late \cup {w},
             \A u \in Requests \ {w} : pc'[u] = pc[u] /\ kind'[u] = kind[u] /\ new'[u] = new[u]
      PROVE  Whole'
    <2>1. ASSUME NEW u \in Requests, u # w PROVE WholeAt(u)'
        <3>1. u \notin late' => u \notin late
            BY <1>1, <2>1
        <3>. QED BY <1>0, <1>1, <2>1, <3>1, WholeKept DEF Whole
    <2>. QED BY <1>1, <2>1 DEF Whole
<1>2. ASSUME NEW w \in Requests, Begins(w) PROVE Whole'
    <2>1. PICK k \in Kinds, l \in Labels, keys \in SUBSET Keys, cs \in SUBSET Columns, v \in Values \cup {Keep} :
              /\ l \notin {"reread", "insert", "commit"}
              /\ l \in {"upload", "find", "reread", "update"} => k \in Tables
              /\ IF k = "users" THEN l = "find" ELSE cs \cap NameColumns = {}
              /\ Start(w, k, l, keys, cs, v)
        BY <1>2 DEF Begins
    <2>2. /\ pc'[w] = l /\ kind'[w] = k /\ col' = col /\ late' = late
          /\ \A c \in Columns : new'[w][c] = IF c \in cs THEN v ELSE Keep
          /\ \A u \in Requests \ {w} : pc'[u] = pc[u] /\ kind'[u] = kind[u] /\ new'[u] = new[u]
        BY <1>0, <2>1 DEF RequestsOK, Start, Goto, database, history
    <2>3. WholeAt(w)'
        BY <2>1, <2>2 DEF WholeAt, Columns, NameColumns
    <2>. QED BY <1>1, <2>2, <2>3
<1>3. ASSUME NEW w \in Requests, Ends(w) PROVE Whole'
    <2>1. /\ kind'[w] = "none" /\ col' = col /\ late' = late \ {w}
          /\ \A c \in Columns : new'[w][c] = Keep
          /\ \A u \in Requests \ {w} : pc'[u] = pc[u] /\ kind'[u] = kind[u] /\ new'[u] = new[u]
        BY <1>0, <1>3 DEF RequestsOK, Ends, Answer, Goto, database, Untouched
    <2>2. WholeAt(w)'
        BY <2>1 DEF WholeAt, Columns
    <2>. QED BY <1>1, <2>1, <2>2
<1>4. ASSUME NEW w \in Requests, NEW l, Goto(w, l), kind[w] # "users", col' = col, new' = new, kind' = kind, late' = late
      PROVE  Whole'
    <2>1. \A u \in Requests \ {w} : pc'[u] = pc[u]
        BY <1>0, <1>4 DEF RequestsOK, Goto
    <2>2. WholeAt(w)'
        BY <1>0, <1>4 DEF Whole, WholeAt
    <2>. QED BY <1>1, <1>4, <2>1, <2>2
<1>5. ASSUME NEW w \in Requests, pc[w] \notin {"find", "reread", "update", "commit"} PROVE kind[w] # "users"
    BY <1>0, <1>5 DEF Whole, WholeAt
<1>6. ASSUME NEW w \in Requests, Moves(w) PROVE Whole'
    BY <1>4, <1>5, <1>6 DEF Moves, database, body, history
<1>7. ASSUME NEW w \in Requests, pc[w] = "upload", Goto(w, "find"),
             UNCHANGED <<database, todo, transaction, body, new, history>>
      PROVE  Whole'
    BY <1>4, <1>5, <1>7 DEF database, body, history
<1>8. ASSUME NEW w \in Requests, Insert(w) \/ Delete(w) PROVE Whole'
    BY <1>4, <1>5, <1>8 DEF Insert, Delete, database, body, history
<1>9. ASSUME NEW w \in Requests, Find(w) PROVE Whole'
    <2>0. /\ pc[w] = "find" /\ col' = col /\ kind' = kind /\ late' = late
        BY <1>9 DEF Find, database, body, history
    <2>1. CASE kind[w] # "users" /\ new' = new
        BY <1>4, <1>9, <2>0, <2>1 DEF Find
    <2>2. CASE new' = [new EXCEPT ![w] = Edited(w)] /\ Goto(w, "reread")
        <3>1. /\ pc'[w] = "reread" /\ new'[w] = Edited(w)
              /\ \A u \in Requests \ {w} : pc'[u] = pc[u] /\ new'[u] = new[u]
            BY <1>0, <2>2 DEF RequestsOK, Goto
        <3>2. CASE kind[w] = "users"
            <4>1. /\ Edited(w)["first"] = Merged(w, "first") /\ Edited(w)["last"] = Merged(w, "last")
                  /\ Edited(w)["display"] = <<Merged(w, "first"), Merged(w, "last")>>
                BY <3>2 DEF Edited, Columns, NameColumns
            <4>2. Merged(w, "first") # Keep /\ Merged(w, "last") # Keep
                BY <1>0, <3>2, ValuesAssumption DEF Merged, Rows, Columns, NameColumns, TableOf, Cell, Cells
            <4>3. <<Merged(w, "first"), Merged(w, "last")>> # Keep
                <5>1. TypeOK /\ Edited(w) \in Rows({Keep})
                    BY EditedType DEF Inv
                <5>2. Merged(w, "first") \in Values /\ Merged(w, "last") \in Values
                    BY <1>0, <4>1, <4>2, <5>1 DEF Rows, Columns, NameColumns, Cell
                <5>. QED BY <5>2, ValuesAssumption DEF Cells
            <4>4. WholeAt(w)'
                BY <2>0, <3>1, <3>2, <4>1, <4>2, <4>3 DEF WholeAt, NameColumns
            <4>. QED BY <1>1, <2>0, <3>1, <4>4
        <3>3. CASE kind[w] # "users"
            <4>1. \A c \in NameColumns : Edited(w)[c] = new[w][c]
                BY <3>3 DEF Edited, Merged, Columns, NameColumns, TableOf
            <4>2. WholeAt(w)'
                BY <1>0, <2>0, <3>1, <3>3, <4>1 DEF Whole, WholeAt
            <4>. QED BY <1>1, <2>0, <3>1, <4>2
        <3>. QED BY <3>2, <3>3
    <2>. QED BY <1>9, <2>1, <2>2 DEF Find
<1>10. ASSUME NEW w \in Requests, Reread(w) PROVE Whole'
    <2>1. /\ pc[w] = "reread" /\ pc'[w] = "update" /\ col' = col /\ kind' = kind /\ late' = late
          /\ \A c \in Columns : new'[w][c] = IF new[w][c] = col[c] THEN Keep ELSE new[w][c]
          /\ \A u \in Requests \ {w} : pc'[u] = pc[u] /\ new'[u] = new[u]
        BY <1>0, <1>10 DEF RequestsOK, Reread, Goto, database, body, history
    <2>2. CASE kind[w] = "users"
        <3>1. \A c \in NameColumns : Left(w, c)' = new[w][c]
            BY <1>0, <2>1, <2>2 DEF Left, Whole, WholeAt, Columns, NameColumns
        <3>. QED BY <1>0, <1>1, <2>1, <2>2, <3>1 DEF Whole, WholeAt, NameColumns
    <2>3. CASE kind[w] # "users"
        <3>1. WholeAt(w)'
            BY <1>0, <2>1, <2>3 DEF Whole, WholeAt, Columns, NameColumns
        <3>. QED BY <1>1, <2>1, <3>1
    <2>. QED BY <2>2, <2>3
<1>11. ASSUME NEW w \in Requests, Update(w) PROVE Whole'
    <2>1. /\ pc[w] = "update" /\ pc'[w] = "commit" /\ col' = col /\ kind' = kind /\ late' = late /\ new' = new
          /\ \A u \in Requests \ {w} : pc'[u] = pc[u]
        BY <1>0, <1>11 DEF RequestsOK, Update, Goto, database, body, history
    <2>2. WholeAt(w)'
        BY <1>0, <2>1 DEF Whole, WholeAt, Left
    <2>. QED BY <1>1, <2>1, <2>2
<1>12. ASSUME NEW w \in Requests, Commit(w) PROVE Whole'
    <2>1. /\ kind'[w] = "none" /\ \A c \in Columns : new'[w][c] = Keep
          /\ \A u \in Requests \ {w} : pc'[u] = pc[u] /\ kind'[u] = kind[u] /\ new'[u] = new[u]
        BY <1>0, <1>12 DEF RequestsOK, Commit, Goto, Untouched
    <2>2. WholeAt(w)'
        BY <2>1 DEF WholeAt, Columns, NameColumns
    <2>3. ASSUME NEW u \in Requests, u # w PROVE WholeAt(u)'
        <3>1. late' = (late \ {w}) \cup {v \in Requests \ {w} : pc[v] \in {"update", "commit"} /\ RowChanges(v)}
            BY <1>12 DEF Commit
        <3>2. u \notin late' => u \notin late
            BY <2>3, <3>1
        <3>3. kind[u] = "users" /\ pc[u] \in {"update", "commit"} /\ u \notin late' =>
                  \A c \in NameColumns : col'[c] = col[c]
            BY <2>3, <3>1 DEF RowChanges, Cols, Columns, NameColumns, TableOf
        <3>. QED BY <1>0, <2>1, <2>3, <3>2, <3>3, WholeKept DEF Whole
    <2>. QED BY <2>2, <2>3 DEF Whole
<1>. QED BY <1>2, <1>3, <1>6, <1>7, <1>8, <1>9, <1>10, <1>11, <1>12, NextCases

LEMMA DisplayStep ==
    ASSUME Inv, Next PROVE DisplayFollowsNames'
<1>0. RequestsOK /\ Whole /\ DisplayFollowsNames /\ Ordered
    BY TypeParts DEF Inv
<1>1. CASE col' = col /\ torn' = torn
    BY <1>0, <1>1 DEF DisplayFollowsNames
<1>2. ASSUME NEW w \in Requests, Commit(w) PROVE DisplayFollowsNames'
    <2>1. /\ pc[w] = "commit" /\ torn' = IF Written(w) \cap NameColumns # {} THEN w \in late ELSE torn
          /\ \A c \in Columns : col'[c] = Left(w, c)
        BY <1>2 DEF Commit, Written, Left
    <2>2. CASE Written(w) \cap NameColumns # {}
        <3>1. kind[w] = "users"
            BY <1>0, <2>2 DEF Whole, WholeAt, Written
        <3>2. w \notin late => Left(w, "display") = <<Left(w, "first"), Left(w, "last")>>
            BY <1>0, <2>1, <3>1 DEF Whole, WholeAt
        <3>. QED BY <2>1, <2>2, <3>2 DEF DisplayFollowsNames, Columns, NameColumns
    <2>3. CASE Written(w) \cap NameColumns = {}
        <3>1. \A c \in NameColumns : Left(w, c) = col[c]
            BY <2>3 DEF Left, Written, Columns
        <3>. QED BY <1>0, <2>1, <2>3, <3>1 DEF DisplayFollowsNames, Columns, NameColumns
    <2>. QED BY <2>2, <2>3
<1>3. \/ \E w \in Requests : Commit(w)
      \/ col' = col /\ torn' = torn
    BY NextCases DEF Begins, Start, Ends, Answer, Moves, Find, Reread, Insert, Update, Delete, database, history
<1>. QED BY <1>1, <1>2, <1>3

LEMMA InvHolds == Spec => []Inv
<1>1. ASSUME Inv, Next PROVE Inv'
    BY <1>1, TypeStep, KeysStep, LoyalStep, OrderedStep, WholeStep, DisplayStep DEF Inv
<1>2. ASSUME Inv, UNCHANGED vars PROVE Inv'
    <2>1. /\ count' = count /\ col' = col /\ pc' = pc /\ kind' = kind /\ todo' = todo /\ ins' = ins /\ del' = del
          /\ new' = new /\ writes' = writes /\ edits' = edits
          /\ overtaken' = overtaken /\ late' = late /\ torn' = torn
        BY <1>2 DEF vars
    <2>2. TypeOK'
        BY <1>2, <2>1 DEF Inv, TypeOK
    <2>3. (KeysExclusive /\ OneRowPerKey /\ Loyal)'
        BY <1>2, <2>1 DEF Inv, KeysExclusive, OneRowPerKey, Loyal
    <2>4. (Ordered /\ Whole /\ DisplayFollowsNames)'
        BY <1>2, <2>1 DEF Inv, Ordered, OrderedAt, Whole, WholeAt, Left, DisplayFollowsNames
    <2>. QED BY <2>2, <2>3, <2>4 DEF Inv
<1>3. Inv /\ [Next]_vars => Inv'
    BY <1>1, <1>2
<1>. QED BY InvInit, <1>3, PTL DEF Spec

-----------------------------------------------------------------------------
(* Rows, transactions and requests keep their types.                       *)
THEOREM Typing == Spec => []TypeOK
<1>1. Inv => TypeOK BY DEF Inv
<1>. QED BY InvHolds, <1>1, PTL

(* However many requests have checked that a key is free before any of     *)
(* them inserts it, one row at most is stored under it.                    *)
THEOREM ChecksAreSafe == Spec => []OneRowPerKey
<1>1. Inv => OneRowPerKey BY DEF Inv
<1>. QED BY InvHolds, <1>1, PTL

(* No set of requests waits in a circle, however many there are.           *)
THEOREM WaitsEnd == Spec => []NoDeadlock
<1>1. ASSUME Inv, NEW u \in Requests, NEW v \in Requests, NEW w \in Requests,
             WaitsFor(u, v), WaitsFor(v, w)
      PROVE  pc[w] = "commit"
    <2>0. OrderedAt(v) /\ OrderedAt(w)
        BY <1>1 DEF Inv, Ordered
    <2>1. pc[v] \in {"insert", "update", "delete"}
        BY <1>1 DEF WaitsFor
    <2>2. del[v] = {} /\ writes[v] = {}
        BY <2>0, <2>1 DEF OrderedAt
    <2>3. ins[v] # {}
        BY <1>1, <2>2 DEF WaitsFor
    <2>4. pc[v] = "insert" /\ \A k \in todo[v] : k.index = "user_name"
        BY <2>0, <2>1, <2>3 DEF OrderedAt
    <2>5. PICK k \in todo[v] : k \in ins[w] \cup del[w]
        BY <1>1, <2>4 DEF WaitsFor
    <2>6. CASE k \in del[w]
        BY <2>0, <2>6 DEF OrderedAt
    <2>7. CASE k \in ins[w]
        <3>1. k.index # "email"
            BY <2>4, <2>5
        <3>. QED BY <2>0, <2>7, <3>1 DEF OrderedAt
    <2>. QED BY <2>5, <2>6, <2>7
<1>2. Inv => NoDeadlock
    BY <1>1 DEF NoDeadlock
<1>. QED BY InvHolds, <1>2, PTL

(* The display name is that of the names unless the last request that      *)
(* wrote one of them was late; so an edit that is not repairs what two     *)
(* overlapping edits have torn apart, whatever the requests before it did. *)
THEOREM DisplayRepaired == Spec => []DisplayFollowsNames
<1>1. Inv => DisplayFollowsNames BY DEF Inv
<1>. QED BY InvHolds, <1>1, PTL

(* A change of another column is lost only when it is committed between    *)
(* the two reads of the request that undoes it, for any number of requests.*)
THEOREM LostOnlyBetweenReads == Spec => OnlyItsColumns
<1>1. ASSUME Inv, [Next]_vars
      PROVE  [\A w \in Requests : pc[w] = "commit" /\ w \notin overtaken =>
                 \A c \in Columns \ (edits[w] \cup {"display"}) : pc'[w] = "idle" => col'[c] = col[c]]_vars
    <2>1. SUFFICES ASSUME Next, NEW w \in Requests, pc[w] = "commit", w \notin overtaken,
                          NEW c \in Columns \ (edits[w] \cup {"display"}), pc'[w] = "idle"
                   PROVE  col'[c] = col[c]
        BY <1>1
    <2>0. RequestsOK /\ Loyal
        BY <1>1, TypeParts DEF Inv
    <2>2. new[w][c] = Keep
        BY <2>0, <2>1 DEF Loyal
    <2>3. ASSUME NEW v \in Requests, Commit(v) PROVE v = w
        <3>1. v # w => pc'[w] = pc[w]
            BY <2>0, <2>3 DEF RequestsOK, Commit, Goto
        <3>. QED BY <2>1, <3>1
    <2>4. CASE \E v \in Requests : Commit(v)
        <3>1. PICK v \in Requests : Commit(v)
            BY <2>4
        <3>2. Commit(w)
            BY <2>3, <3>1
        <3>3. c \notin Written(w)
            BY <2>2 DEF Written
        <3>4. c \in Columns
            BY <2>1
        <3>5. col' = [d \in Columns |-> IF d \in Written(w) THEN new[w][d] ELSE col[d]]
            BY <3>2 DEF Commit
        <3>. QED BY <3>3, <3>4, <3>5
    <2>5. CASE col' = col
        BY <2>5
    <2>6. \/ \E v \in Requests : Commit(v)
          \/ col' = col
        BY <2>1, NextCases DEF Begins, Start, Ends, Moves, Find, Reread, Insert, Update, Delete, database
    <2>. QED BY <2>4, <2>5, <2>6
<1>. QED BY InvHolds, <1>1, PTL DEF Spec, OnlyItsColumns
=============================================================================
