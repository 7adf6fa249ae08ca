---------------------------- MODULE MediaProofs ----------------------------
(***************************************************************************)
(* Proofs about Media for any set of ids and workers, any file and chunk   *)
(* size and any number of runs.                                            *)
(*                                                                         *)
(* UrlsResolve needs that what a worker is about to record resolves too:   *)
(* the original of an upload that has been put, the parts of a pipeline,   *)
(* and the version of the row in its transaction.  HalfDoneHidden needs    *)
(* that a pipeline which reaches "ready" with an image has both parts, and *)
(* that its job still has the kind of the record: an id gets one record,   *)
(* from the one upload that was given it.                                  *)
(***************************************************************************)
EXTENDS Media, TLAPS

Uploading == {"put", "save"}
Piping == {"mark", "convert", "probe", "frame", "put_proc", "put_thumb", "ready", "fail", "commit"}
Jobs == [id : Ids \cup {None}, kind : Kinds \cup {None}, run : 0..MaxRuns,
         parts : SUBSET {"proc", "thumb"}, at : 0..FileSize, last : 0..FileSize]

Resolves(f) == f \in store \cup taken
Good(r) == \A f \in {r.orig, r.proc, r.thumb} : f = NoFile \/ Resolves(f)
Whole(r) == r.kind = "image" => (r.proc = NoFile <=> r.thumb = NoFile)

(* The row that w's transaction has locked, and its new version of it.     *)
Holds(w, m) ==
    /\ pc[w] \in Piping /\ job[w].id = m
    /\ row[m] # NoRow /\ tx[w] \in Records
    /\ tx[w].kind = job[w].kind /\ row[m].kind = job[w].kind
    /\ Good(tx[w]) /\ Whole(tx[w])
    /\ pc[w] = "commit" => tx[w].status # "processing"

(* How far an image has come.                                              *)
Stage(w) == job[w].kind = "image" =>
    /\ pc[w] \notin {"probe", "frame"}
    /\ pc[w] \in {"mark", "convert", "put_proc"} => job[w].parts = {}
    /\ pc[w] = "put_thumb" => job[w].parts = {"proc"}
    /\ pc[w] = "ready" => job[w].parts = {"proc", "thumb"}

WorkerOK(w) ==
    /\ pc[w] # "idle" => job[w].id \in Ids
    /\ pc[w] \in Uploading \cup Piping => job[w].id \in used /\ job[w].kind \in Kinds
    /\ pc[w] \in Uploading => row[job[w].id] = NoRow
    /\ pc[w] = "save" => Resolves(Original(job[w].id))
    /\ \A part \in job[w].parts : Resolves(File(job[w].id, part, job[w].run))
    /\ pc[w] \in Piping /\ row[job[w].id] # NoRow => row[job[w].id].kind = job[w].kind
    /\ Stage(w)
    /\ \A m \in Ids : lock[m] = w => Holds(w, m)
    /\ pc[w] = "send" => job[w].last < FileSize /\ job[w].at <= job[w].last + 1

(* An upload is the only one that works on its id.                         *)
FreshOK == \A v, w \in Workers :
    v # w /\ pc[w] \in Uploading /\ pc[v] \in Uploading \cup Piping => job[v].id # job[w].id

RowOK(m) == row[m] # NoRow =>
    m \in used /\ Good(row[m]) /\ Whole(row[m]) /\ row[m].status # "processing"

Inv ==
    /\ TypeOK
    /\ \A w \in Workers : WorkerOK(w)
    /\ FreshOK
    /\ \A m \in Ids : RowOK(m)

-----------------------------------------------------------------------------
LEMMA NoRowIsNone == NoRow \notin Records
BY DEF NoRow, Records, None

LEMMA FileTyped ==
    ASSUME NEW m \in Ids, NEW part \in {"orig", "proc", "thumb", "post"}, NEW run \in 0..MaxRuns
    PROVE  File(m, part, run) \in Files
BY SizesAssumption DEF File, Files

LEMMA FileIsNotNone ==
    ASSUME NEW f \in Files PROVE f # NoFile
BY NamesAssumption DEF Files, NoFile, None

LEMMA JobsTyped == TypeOK => job \in [Workers -> Jobs]
BY DEF TypeOK, Jobs

LEMMA NoJobTyped == NoJob \in Jobs
BY SizesAssumption DEF NoJob, Job, Jobs

(* Files once stored or taken stay so.                                     *)
Grows == backend' = backend /\ store \cup taken \subseteq store' \cup taken' /\ used \subseteq used'

(* What a step of w must leave alone for the others.                       *)
Apart(w) == \A v \in Workers \ {w} :
    /\ pc'[v] = pc[v] /\ job'[v] = job[v] /\ tx'[v] = tx[v]
    /\ \A m \in Ids : lock'[m] = v => lock[m] = v

RowFor(v) == LET m == job[v].id IN
    \/ row'[m] = row[m]
    \/ row[m] # NoRow /\ row'[m] # NoRow /\ row'[m].kind = row[m].kind
    \/ row'[m] = NoRow /\ lock[m] # v

LEMMA FilesKept ==
    ASSUME Grows, NEW f, Resolves(f) PROVE Resolves(f)'
BY DEF Grows, Resolves

LEMMA GoodKept ==
    ASSUME Grows, NEW r, NEW q, q = r, Good(r) PROVE \A f \in {q.orig, q.proc, q.thumb} : f = NoFile \/ f \in store' \cup taken'
BY DEF Grows, Good, Resolves

LEMMA OthersOK ==
    ASSUME Inv, NEW w, Grows, Apart(w),
           \A v \in Workers \ {w} : pc[v] \in Uploading \cup Piping => RowFor(v),
           NEW v \in Workers \ {w}
    PROVE  WorkerOK(v)'
<1>0. WorkerOK(v) /\ v \in Workers
    BY DEF Inv
<1>1. /\ pc'[v] = pc[v] /\ job'[v] = job[v] /\ tx'[v] = tx[v]
      /\ \A m \in Ids : lock'[m] = v => lock[m] = v
    BY DEF Apart
<1>2. ASSUME pc[v] \in Uploading PROVE row'[job[v].id] = NoRow
    BY <1>0, <1>2 DEF WorkerOK, RowFor
<1>3. pc[v] = "save" => Resolves(Original(job[v].id))'
    BY <1>0, <1>1 DEF WorkerOK, Grows, Resolves, Original, File
<1>4. \A part \in job[v].parts : Resolves(File(job[v].id, part, job[v].run))'
    BY <1>0, <1>1 DEF WorkerOK, Grows, Resolves, File
<1>5. pc[v] \in Piping /\ row'[job[v].id] # NoRow => row'[job[v].id].kind = job[v].kind
    BY <1>0, <1>1 DEF WorkerOK, RowFor
<1>6. Stage(v)'
    BY <1>0, <1>1 DEF WorkerOK, Stage
<1>7. ASSUME NEW m \in Ids, lock'[m] = v PROVE Holds(v, m)'
    <2>1. lock[m] = v /\ Holds(v, m)
        BY <1>0, <1>1, <1>7 DEF WorkerOK
    <2>2. row'[m] # NoRow /\ row'[m].kind = job[v].kind
        BY <2>1 DEF Holds, RowFor
    <2>3. Good(tx[v])'
        BY <1>1, <2>1, GoodKept DEF Holds, Good, Resolves
    <2>. QED BY <1>1, <2>1, <2>2, <2>3 DEF Holds, Whole
<1>8. /\ pc[v] # "idle" => job[v].id \in Ids
      /\ pc[v] \in Uploading \cup Piping => job[v].id \in used' /\ job[v].kind \in Kinds
      /\ pc[v] = "send" => job[v].last < FileSize /\ job[v].at <= job[v].last + 1
    BY <1>0 DEF WorkerOK, Grows
<1>. QED BY <1>1, <1>2, <1>3, <1>4, <1>5, <1>6, <1>7, <1>8 DEF WorkerOK

-----------------------------------------------------------------------------
(* A step of one worker keeps the invariant if it keeps its own part.      *)
LEMMA StepOK ==
    ASSUME Inv, NEW w \in Workers, Grows, Apart(w), TypeOK', WorkerOK(w)',
           \A v \in Workers \ {w} : pc[v] \in Uploading \cup Piping => RowFor(v),
           pc'[w] \in Uploading => pc[w] \in Uploading /\ job'[w].id = job[w].id,
           pc'[w] \in Piping => pc[w] \in Piping /\ job'[w].id = job[w].id,
           \A m \in Ids : row'[m] = row[m] \/ RowOK(m)'
    PROVE  Inv'
<1>1. \A v \in Workers : WorkerOK(v)'
    BY OthersOK
<1>2. FreshOK'
    BY DEF Inv, FreshOK, Apart
<1>3. ASSUME NEW m \in Ids PROVE RowOK(m)'
    <2>1. CASE row'[m] = row[m]
        BY <2>1, GoodKept DEF Inv, RowOK, Grows, Good, Resolves, Whole
    <2>. QED BY <2>1
<1>. QED BY <1>1, <1>2, <1>3 DEF Inv

(* Steps that leave the table alone.                                       *)
LEMMA QuietStep ==
    ASSUME Inv, NEW w \in Workers, Grows, UNCHANGED table, TypeOK',
           \A v \in Workers \ {w} : pc'[v] = pc[v] /\ job'[v] = job[v],
           WorkerOK(w)',
           pc'[w] \in Uploading => pc[w] \in Uploading /\ job'[w].id = job[w].id,
           pc'[w] \in Piping => pc[w] \in Piping /\ job'[w].id = job[w].id
    PROVE  Inv'
<1>1. Apart(w) /\ row' = row
    BY DEF Apart, table
<1>2. \A v \in Workers \ {w} : RowFor(v)
    BY <1>1 DEF RowFor
<1>. QED BY <1>1, <1>2, StepOK

(* The parts of TypeOK that a step of a worker changes.                    *)
LEMMA QuietType ==
    ASSUME TypeOK, UNCHANGED <<table, ids, backend>>, store' \subseteq Files, taken' \subseteq Files,
           pc' \in [Workers -> Labels], job' \in [Workers -> Jobs]
    PROVE  TypeOK'
BY DEF TypeOK, Jobs, table, ids

LEMMA GotoType ==
    ASSUME TypeOK, NEW w \in Workers, NEW l \in Labels, Goto(w, l)
    PROVE  /\ pc' \in [Workers -> Labels] /\ job' \in [Workers -> Jobs]
           /\ pc'[w] = l /\ job' = job
           /\ \A v \in Workers \ {w} : pc'[v] = pc[v] /\ job'[v] = job[v]
BY JobsTyped DEF TypeOK, Goto

LEMMA EndType ==
    ASSUME TypeOK, NEW w \in Workers, End(w)
    PROVE  /\ pc' \in [Workers -> Labels] /\ job' \in [Workers -> Jobs]
           /\ pc'[w] = "idle" /\ job'[w] = NoJob
           /\ \A v \in Workers \ {w} : pc'[v] = pc[v] /\ job'[v] = job[v]
BY JobsTyped, NoJobTyped DEF TypeOK, End, Labels

(* A worker without a job has nothing to keep.                             *)
LEMMA IdleOK ==
    ASSUME NEW w \in Workers, pc'[w] = "idle", job'[w] = NoJob, \A m \in Ids : lock'[m] # w
    PROVE  WorkerOK(w)'
BY DEF WorkerOK, NoJob, Job, Uploading, Piping, Stage, None

LEMMA PutGrows ==
    ASSUME TypeOK, NEW f \in Files, Put(f) \/ PutFails(f), used' = used
    PROVE  Grows /\ store' \subseteq Files /\ taken' \subseteq Files /\ backend' = backend
           /\ (Put(f) => f \in store')
BY DEF TypeOK, Put, PutFails, Grows

LEMMA RemoveGrows ==
    ASSUME TypeOK, NEW f \in Files, Remove(f) \/ (taken' = taken \cup {f} /\ UNCHANGED <<backend, store>>), used' = used
    PROVE  Grows /\ store' \subseteq Files /\ taken' \subseteq Files /\ backend' = backend
BY DEF TypeOK, Remove, Grows

-----------------------------------------------------------------------------
(* One lemma per action, or per kind of actions. *)

LEMMA PutOriginalKeeps ==
    ASSUME Inv, NEW w \in Workers, PutOriginal(w) PROVE Inv'
<1>0. TypeOK /\ WorkerOK(w) /\ pc[w] = "put" /\ UNCHANGED <<table, ids>>
    BY DEF Inv, PutOriginal
<1>1. job[w].id \in Ids /\ Original(job[w].id) \in Files
    BY <1>0, FileTyped, SizesAssumption DEF WorkerOK, Original
<1>2. Put(Original(job[w].id)) \/ PutFails(Original(job[w].id))
    BY DEF PutOriginal
<1>3. Grows /\ store' \subseteq Files /\ taken' \subseteq Files /\ backend' = backend
      /\ (Put(Original(job[w].id)) => Original(job[w].id) \in store')
    BY <1>0, <1>1, <1>2, PutGrows DEF ids
<1>4. \A m \in Ids : lock'[m] # w
    BY <1>0 DEF WorkerOK, Holds, Piping, table
<1>5. CASE Put(Original(job[w].id)) /\ Goto(w, "save")
    <2>1. /\ pc' \in [Workers -> Labels] /\ job' \in [Workers -> Jobs]
          /\ pc'[w] = "save" /\ job' = job
          /\ \A v \in Workers \ {w} : pc'[v] = pc[v] /\ job'[v] = job[v]
        BY <1>0, <1>5, GotoType DEF Labels
    <2>2. TypeOK'
        BY <1>0, <1>3, <2>1, QuietType
    <2>3. Original(job[w].id)' = Original(job[w].id)
        BY <1>3, <2>1 DEF Original, File
    <2>4. \A part \in job[w].parts : Resolves(File(job[w].id, part, job[w].run))'
        BY <1>0, <1>3, <2>1 DEF WorkerOK, Grows, Resolves, File
    <2>5. WorkerOK(w)'
        BY <1>0, <1>1, <1>3, <1>4, <1>5, <2>1, <2>3, <2>4
        DEF WorkerOK, Grows, Resolves, Stage, Uploading, Piping, table, ids
    <2>. QED BY <1>0, <1>3, <2>1, <2>2, <2>5, QuietStep DEF Uploading, Piping
<1>6. CASE End(w)
    <2>1. /\ pc' \in [Workers -> Labels] /\ job' \in [Workers -> Jobs]
          /\ pc'[w] = "idle" /\ job'[w] = NoJob
          /\ \A v \in Workers \ {w} : pc'[v] = pc[v] /\ job'[v] = job[v]
        BY <1>0, <1>6, EndType
    <2>2. TypeOK'
        BY <1>0, <1>3, <2>1, QuietType
    <2>. QED BY <1>0, <1>3, <1>4, <2>1, <2>2, IdleOK, QuietStep DEF Uploading, Piping
<1>. QED BY <1>5, <1>6 DEF PutOriginal

(* Steps that end a worker and change no row of another one.               *)
LEMMA EndKeeps ==
    ASSUME Inv, NEW w \in Workers, End(w), UNCHANGED <<storage, ids>>,
           row' \in [Ids -> Records \cup {NoRow}],
           \/ UNCHANGED <<lock, tx>> /\ \A m \in Ids : lock[m] # w
           \/ job[w].id \in Ids /\ Release(w),
           \A v \in Workers \ {w} : pc[v] \in Uploading \cup Piping => RowFor(v),
           \A m \in Ids : row'[m] = row[m] \/ RowOK(m)'
    PROVE  Inv'
<1>0. TypeOK /\ WorkerOK(w) /\ w # None
    BY NamesAssumption DEF Inv, None
<1>1. /\ pc' \in [Workers -> Labels] /\ job' \in [Workers -> Jobs]
      /\ pc'[w] = "idle" /\ job'[w] = NoJob
      /\ \A v \in Workers \ {w} : pc'[v] = pc[v] /\ job'[v] = job[v]
    BY <1>0, EndType
<1>2. /\ lock' \in [Ids -> Workers \cup {None}] /\ tx' \in [Workers -> Records \cup {NoRow}]
      /\ \A v \in Workers \ {w} : tx'[v] = tx[v] /\ \A m \in Ids : lock'[m] = v => lock[m] = v
      /\ \A m \in Ids : lock'[m] # w
    <2>1. CASE UNCHANGED <<lock, tx>> /\ \A m \in Ids : lock[m] # w
        BY <1>0, <2>1 DEF TypeOK
    <2>2. CASE job[w].id \in Ids /\ Release(w)
        <3>1. \A m \in Ids : lock[m] = w => m = job[w].id
            BY <1>0 DEF WorkerOK, Holds
        <3>2. \A m \in Ids : lock'[m] = IF m = job[w].id /\ lock[m] = w THEN None ELSE lock[m]
            BY <1>0, <2>2 DEF TypeOK, Release
        <3>3. lock' \in [Ids -> Workers \cup {None}] /\ tx' \in [Workers -> Records \cup {NoRow}]
            BY <1>0, <2>2 DEF TypeOK, Release
        <3>4. \A v \in Workers \ {w} : tx'[v] = tx[v]
            BY <1>0, <2>2 DEF TypeOK, Release
        <3>5. \A v \in Workers : v # None
            BY NamesAssumption DEF None
        <3>. QED BY <1>0, <3>1, <3>2, <3>3, <3>4, <3>5
    <2>. QED BY <2>1, <2>2
<1>3. TypeOK'
    BY <1>0, <1>1, <1>2 DEF TypeOK, Jobs, storage, ids
<1>4. Grows /\ Apart(w)
    BY <1>1, <1>2 DEF Grows, Apart, storage, ids
<1>. QED BY <1>1, <1>2, <1>3, <1>4, IdleOK, StepOK DEF Uploading, Piping

LEMMA SaveRowKeeps ==
    ASSUME Inv, NEW w \in Workers, SaveRow(w) PROVE Inv'
<1>0. /\ TypeOK /\ WorkerOK(w) /\ FreshOK
      /\ pc[w] = "save" /\ End(w) /\ UNCHANGED <<storage, lock, tx, ids>>
    BY DEF Inv, SaveRow
<1> DEFINE m == job[w].id
           r == Create(m, job[w].kind)
<1>1. m \in Ids /\ m \in used /\ job[w].kind \in Kinds /\ Resolves(Original(m)) /\ Original(m) \in Files
    BY <1>0, FileTyped, SizesAssumption DEF WorkerOK, Uploading, Original
<1>2. r \in Records /\ r.orig = Original(m) /\ r.proc = NoFile /\ r.thumb = NoFile /\ r.status = "pending"
    BY <1>1 DEF Create, Records
<1>3. row' = [row EXCEPT ![m] = r] /\ row' \in [Ids -> Records \cup {NoRow}]
      /\ row'[m] = r /\ \A n \in Ids \ {m} : row'[n] = row[n]
    BY <1>0, <1>1, <1>2 DEF SaveRow, TypeOK
<1>4. \A n \in Ids : lock[n] # w
    BY <1>0 DEF WorkerOK, Holds, Piping
<1>5. ASSUME NEW v \in Workers \ {w}, pc[v] \in Uploading \cup Piping PROVE RowFor(v)
    <2>1. job[v].id # m
        BY <1>0, <1>5 DEF FreshOK, Uploading
    <2>2. job[v].id \in Ids
        BY <1>5 DEF Inv, WorkerOK, Uploading, Piping
    <2>. QED BY <1>3, <2>1, <2>2 DEF RowFor
<1>6. ASSUME NEW n \in Ids, n = m PROVE RowOK(n)'
    <2>1. row'[n] = r /\ n \in used' /\ Original(m) \in store' \cup taken'
        BY <1>0, <1>1, <1>3, <1>6 DEF ids, storage, Resolves
    <2>2. \A f \in {r.orig, r.proc, r.thumb} : f = NoFile \/ f \in store' \cup taken'
        BY <1>2, <2>1
    <2>. QED BY <1>2, <2>1, <2>2 DEF RowOK, Good, Whole, Resolves
<1>7. \A n \in Ids : row'[n] = row[n] \/ RowOK(n)'
    BY <1>3, <1>6
<1> HIDE DEF m, r
<1>. QED BY <1>0, <1>3, <1>4, <1>5, <1>7, EndKeeps

LEMMA DropKeeps ==
    ASSUME Inv, NEW w \in Workers, Drop(w) PROVE Inv'
<1>0. /\ TypeOK /\ WorkerOK(w)
      /\ pc[w] = "drop" /\ End(w) /\ UNCHANGED <<storage, lock, tx, ids>> /\ lock[job[w].id] = None
    BY DEF Inv, Drop
<1>1. job[w].id \in Ids
    BY <1>0 DEF WorkerOK
<1>2. /\ row' \in [Ids -> Records \cup {NoRow}]
      /\ row'[job[w].id] = NoRow /\ \A n \in Ids \ {job[w].id} : row'[n] = row[n]
    BY <1>0, <1>1 DEF Drop, TypeOK
<1>3. \A n \in Ids : lock[n] # w
    BY <1>0 DEF WorkerOK, Holds, Piping
<1>4. ASSUME NEW v \in Workers \ {w}, pc[v] \in Uploading \cup Piping PROVE RowFor(v)
    <2>1. v # None /\ job[v].id \in Ids
        BY <1>4, NamesAssumption DEF None, Inv, WorkerOK, Uploading, Piping
    <2>. QED BY <1>0, <1>2, <2>1 DEF RowFor
<1>5. \A n \in Ids : row'[n] = row[n] \/ RowOK(n)'
    BY <1>2 DEF RowOK
<1>. QED BY <1>0, <1>2, <1>3, <1>4, <1>5, EndKeeps

LEMMA RollbackKeeps ==
    ASSUME Inv, NEW w \in Workers, DatabaseFails(w) PROVE Inv'
<1>1. job[w].id \in Ids /\ row' = row /\ Release(w) /\ End(w) /\ UNCHANGED <<storage, ids>>
    BY DEF Inv, WorkerOK, DatabaseFails, Rollback
<1>2. \A v \in Workers \ {w} : RowFor(v)
    BY <1>1 DEF RowFor
<1>. QED BY <1>1, <1>2, EndKeeps DEF Inv, TypeOK

LEMMA CommitKeeps ==
    ASSUME Inv, NEW w \in Workers, Commit(w) PROVE Inv'
<1>0. /\ TypeOK /\ WorkerOK(w) /\ FreshOK /\ pc[w] = "commit"
      /\ Release(w) /\ End(w) /\ UNCHANGED <<storage, ids>>
    BY DEF Inv, Commit
<1>1. job[w].id \in Ids /\ job[w].id \in used
    BY <1>0 DEF WorkerOK, Piping
<1>2. CASE lock[job[w].id] # w
    <2>1. row' = row
        BY <1>0, <1>1, <1>2 DEF Commit, Seen, TypeOK
    <2>2. \A v \in Workers \ {w} : RowFor(v)
        BY <2>1 DEF RowFor
    <2>. QED BY <1>0, <1>1, <2>1, <2>2, EndKeeps DEF TypeOK
<1>3. CASE lock[job[w].id] = w
    <2>1. Holds(w, job[w].id)
        BY <1>0, <1>1, <1>3 DEF WorkerOK
    <2>2. /\ row' \in [Ids -> Records \cup {NoRow}]
          /\ row'[job[w].id] = tx[w] /\ \A n \in Ids \ {job[w].id} : row'[n] = row[n]
        BY <1>0, <1>1, <1>3, <2>1 DEF Commit, Seen, TypeOK, Holds
    <2>3. tx[w] # NoRow /\ row[job[w].id] # NoRow /\ tx[w].kind = row[job[w].id].kind
        BY <2>1, NoRowIsNone DEF Holds
    <2>4. ASSUME NEW v \in Workers \ {w}, pc[v] \in Uploading \cup Piping PROVE RowFor(v)
        <3>1. job[v].id \in Ids
            BY <2>4 DEF Inv, WorkerOK, Uploading, Piping
        <3>. QED BY <2>2, <2>3, <3>1 DEF RowFor
    <2>5. \A n \in Ids : n = job[w].id => RowOK(n)'
        BY <1>0, <1>1, <2>1, <2>2 DEF RowOK, Holds, Good, Whole, Resolves, ids, storage
    <2>6. \A n \in Ids : row'[n] = row[n] \/ RowOK(n)'
        BY <2>2, <2>5
    <2>. QED BY <1>0, <1>1, <2>2, <2>4, <2>6, EndKeeps
<1>. QED BY <1>2, <1>3

(* A worker goes to another place, the table stays as it is.               *)
LEMMA MoveKeeps ==
    ASSUME Inv, NEW w \in Workers, NEW l \in Labels, UNCHANGED <<table, ids, backend>>,
           store' \subseteq Files, taken' \subseteq Files, Grows,
           pc' = [pc EXCEPT ![w] = l], job' \in [Workers -> Jobs],
           \A v \in Workers \ {w} : job'[v] = job[v],
           /\ job'[w].id = job[w].id /\ job'[w].kind = job[w].kind /\ job'[w].run = job[w].run
           /\ job'[w].at = job[w].at /\ job'[w].last = job[w].last,
           \A part \in job'[w].parts : part \in job[w].parts \/ File(job[w].id, part, job[w].run) \in store',
           pc[w] # "idle", l \notin Uploading \cup {"send"}, l \in Piping <=> pc[w] \in Piping, l # "commit",
           Stage(w)'
    PROVE  Inv'
<1>0. TypeOK /\ WorkerOK(w)
    BY DEF Inv
<1>1. pc' \in [Workers -> Labels] /\ pc'[w] = l /\ \A v \in Workers \ {w} : pc'[v] = pc[v]
    BY <1>0 DEF TypeOK
<1>2. TypeOK'
    BY <1>0, <1>1, QuietType
<1>3. \A part \in job'[w].parts : Resolves(File(job[w].id, part, job[w].run))'
    <2>1. ASSUME NEW part \in job'[w].parts PROVE File(job[w].id, part, job[w].run)' \in store' \cup taken'
        <3>1. File(job[w].id, part, job[w].run)' = File(job[w].id, part, job[w].run)
            BY DEF File
        <3>. QED BY <1>0, <2>1, <3>1 DEF WorkerOK, Resolves, Grows
    <2>. QED BY <2>1 DEF Resolves
<1>4. ASSUME NEW m \in Ids, lock'[m] = w PROVE Holds(w, m)'
    <2>1. Holds(w, m) /\ row' = row /\ tx' = tx
        BY <1>0, <1>4 DEF WorkerOK, table
    <2>2. Good(tx[w])'
        BY <2>1, GoodKept DEF Holds, Good, Resolves
    <2>. QED BY <1>1, <2>1, <2>2 DEF Holds, Whole
<1>5. WorkerOK(w)'
    BY <1>0, <1>1, <1>3, <1>4 DEF WorkerOK, Uploading, table, ids
<1>. QED BY <1>1, <1>2, <1>5, QuietStep

LEMMA UnlinkKeeps ==
    ASSUME Inv, NEW w \in Workers, Unlink(w) PROVE Inv'
<1>0. TypeOK /\ WorkerOK(w) /\ pc[w] = "unlink" /\ UNCHANGED <<table, ids>> /\ Goto(w, "drop")
    BY DEF Inv, Unlink
<1>1. Original(job[w].id) \in Files
    BY <1>0, FileTyped, SizesAssumption DEF WorkerOK, Original
<1>2. Grows /\ store' \subseteq Files /\ taken' \subseteq Files /\ backend' = backend
    BY <1>0, <1>1, RemoveGrows DEF Unlink, ids
<1>3. "drop" \in Labels /\ "drop" \notin Uploading \cup Piping \cup {"send", "commit"} /\ "unlink" \notin Piping
    BY DEF Labels, Uploading, Piping
<1>4. job' = job /\ job' \in [Workers -> Jobs] /\ pc' = [pc EXCEPT ![w] = "drop"] /\ pc'[w] = "drop"
    BY <1>0, JobsTyped DEF Goto, TypeOK
<1>5. Stage(w)'
    BY <1>4 DEF Stage
<1>. QED BY <1>0, <1>2, <1>3, <1>4, <1>5, MoveKeeps

LEMMA ConvertKeeps ==
    ASSUME Inv, NEW w \in Workers, Convert(w) \/ Probe(w) \/ Frame(w) PROVE Inv'
<1>0. TypeOK /\ WorkerOK(w) /\ UNCHANGED <<storage, table, ids>>
    BY DEF Inv, Convert, Probe, Frame
<1>1. PICK l : /\ Goto(w, l)
               /\ \/ pc[w] = "convert" /\ l \in {"put_proc", "fail"}
                  \/ pc[w] = "probe" /\ l = "frame"
                  \/ pc[w] = "frame" /\ l \in {"put_thumb", "ready"}
    BY DEF Convert, Probe, Frame
<1>2. /\ l \in Labels /\ l \notin Uploading \cup {"send", "commit"} /\ l \in Piping
      /\ pc[w] \in Piping /\ pc[w] # "idle"
    BY <1>1 DEF Labels, Uploading, Piping
<1>3. job' = job /\ job' \in [Workers -> Jobs] /\ pc' = [pc EXCEPT ![w] = l] /\ pc'[w] = l
    BY <1>0, <1>1, JobsTyped DEF Goto, TypeOK
<1>4. Stage(w)'
    BY <1>0, <1>1, <1>3 DEF Stage, WorkerOK
<1>5. Grows /\ store' \subseteq Files /\ taken' \subseteq Files /\ backend' = backend
    BY <1>0 DEF Grows, TypeOK, storage, ids
<1>. QED BY <1>0, <1>2, <1>3, <1>4, <1>5, MoveKeeps

LEMMA PutPartKeeps ==
    ASSUME Inv, NEW w \in Workers, PutProcessed(w) \/ PutThumb(w) PROVE Inv'
<1>0. TypeOK /\ WorkerOK(w) /\ UNCHANGED <<table, ids>> /\ job \in [Workers -> Jobs]
    BY JobsTyped DEF Inv, PutProcessed, PutThumb, PutPart
<1>1. PICK part \in {"proc", "thumb"}, next \in {"put_thumb", "ready"} :
          /\ PutPart(w, part, next)
          /\ \/ pc[w] = "put_proc" /\ part = "proc" /\ next = "put_thumb"
             \/ pc[w] = "put_thumb" /\ part = "thumb" /\ next = "ready"
    BY DEF PutProcessed, PutThumb
<1> DEFINE f == File(job[w].id, part, job[w].run)
<1>2. job[w].id \in Ids /\ job[w].run \in 0..MaxRuns /\ f \in Files
    BY <1>0, <1>1, FileTyped DEF WorkerOK, Jobs
<1>3. Grows /\ store' \subseteq Files /\ taken' \subseteq Files /\ backend' = backend
      /\ (Put(f) => f \in store')
    BY <1>0, <1>1, <1>2, PutGrows DEF PutPart, ids
<1>4. /\ {"put_thumb", "ready", "fail"} \subseteq Labels \ (Uploading \cup {"send", "commit"})
      /\ {"put_thumb", "ready", "fail"} \subseteq Piping /\ pc[w] \in Piping /\ pc[w] # "idle"
    BY <1>1 DEF Labels, Uploading, Piping
<1>5. CASE Put(f) /\ pc' = [pc EXCEPT ![w] = next] /\ job' = [job EXCEPT ![w].parts = @ \cup {part}]
    <2>1. /\ job' \in [Workers -> Jobs] /\ \A v \in Workers \ {w} : job'[v] = job[v]
          /\ job'[w].id = job[w].id /\ job'[w].kind = job[w].kind /\ job'[w].run = job[w].run
          /\ job'[w].at = job[w].at /\ job'[w].last = job[w].last
          /\ job'[w].parts = job[w].parts \cup {part}
        BY <1>0, <1>5 DEF Jobs
    <2>2. pc'[w] = next
        BY <1>0, <1>5 DEF TypeOK
    <2>3. Stage(w)'
        BY <1>0, <1>1, <2>1, <2>2 DEF WorkerOK, Stage
    <2>4. \A p \in job'[w].parts : p \in job[w].parts \/ File(job[w].id, p, job[w].run) \in store'
        BY <1>3, <1>5, <2>1
    <2>. QED BY <1>0, <1>1, <1>3, <1>4, <1>5, <2>1, <2>3, <2>4, MoveKeeps
<1>6. CASE Goto(w, "fail")
    <2>1. job' = job /\ pc' = [pc EXCEPT ![w] = "fail"] /\ pc'[w] = "fail"
        BY <1>0, <1>6 DEF Goto, TypeOK
    <2>2. Stage(w)'
        BY <2>1 DEF Stage
    <2>. QED BY <1>0, <1>3, <1>4, <2>1, <2>2, MoveKeeps
<1>. QED BY <1>1, <1>5, <1>6 DEF PutPart

(* update_status and the step to the next place.                           *)
LEMMA StatusKeeps ==
    ASSUME Inv, NEW w \in Workers, NEW status \in {"processing", "ready", "failed"}, NEW l \in Piping,
           NEW p \in Files \cup {NoFile}, NEW t \in Files \cup {NoFile},
           p = NoFile \/ Resolves(p), t = NoFile \/ Resolves(t),
           job[w].kind = "image" => (p = NoFile <=> t = NoFile),
           UpdateStatus(w, status, p, t), Goto(w, l), UNCHANGED <<storage, ids>>,
           pc[w] \in Piping \ {"commit"}, l = "commit" => status # "processing",
           Stage(w)'
    PROVE  Inv'
<1>0. TypeOK /\ WorkerOK(w) /\ row' = row /\ w # None
    BY NamesAssumption DEF Inv, UpdateStatus, None
<1>1. /\ l \in Labels /\ job' = job /\ pc' \in [Workers -> Labels] /\ job' \in [Workers -> Jobs]
      /\ pc'[w] = l /\ \A v \in Workers \ {w} : pc'[v] = pc[v] /\ job'[v] = job[v]
    BY <1>0, GotoType DEF Labels, Piping
<1>2. job[w].id \in Ids /\ job[w].id \in used /\ job[w].kind \in Kinds
    BY <1>0 DEF WorkerOK, Piping
<1>3. Grows
    BY DEF Grows, storage, ids
<1> DEFINE m == job[w].id
           q == [Seen(w) EXCEPT !.status = status, !.proc = Kept(p, @), !.thumb = Kept(t, @)]
<1>4. CASE Seen(w) = NoRow /\ UNCHANGED <<lock, tx>>
    <2>1. TypeOK'
        BY <1>0, <1>1, <1>4, QuietType DEF TypeOK, table, storage
    <2>2. \A n \in Ids : lock[n] # w
        <3>1. ASSUME NEW n \in Ids, lock[n] = w PROVE FALSE
            <4>1. Holds(w, n)
                BY <1>0, <3>1 DEF WorkerOK
            <4>. QED BY <1>4, <3>1, <4>1, NoRowIsNone DEF Seen, Holds
        <3>. QED BY <3>1
    <2>3. \A part \in job'[w].parts : Resolves(File(job[w].id, part, job[w].run))'
        BY <1>0, <1>1, <1>3 DEF WorkerOK, Resolves, Grows, File
    <2>4. WorkerOK(w)'
        BY <1>0, <1>1, <1>2, <1>4, <2>2, <2>3 DEF WorkerOK, Uploading, Piping, ids
    <2>. QED BY <1>0, <1>1, <1>3, <1>4, <2>1, <2>4, QuietStep DEF table, Uploading, Piping
<1>5. CASE /\ Seen(w) # NoRow /\ tx' = [tx EXCEPT ![w] = q] /\ lock' = [lock EXCEPT ![m] = w]
           /\ lock[m] \in {None, w}
    <2>1. /\ Seen(w) \in Records /\ Seen(w).kind = job[w].kind /\ Good(Seen(w)) /\ Whole(Seen(w))
          /\ row[m] # NoRow /\ row[m].kind = job[w].kind
        <3>1. CASE lock[m] = w
            BY <1>0, <1>2, <3>1 DEF Seen, WorkerOK, Holds
        <3>2. CASE lock[m] = None
            <4>1. Seen(w) = row[m] /\ row[m] \in Records
                BY <1>0, <1>2, <1>5, <3>2 DEF Seen, TypeOK
            <4>. QED BY <1>0, <1>2, <1>5, <4>1 DEF Inv, RowOK, WorkerOK
        <3>. QED BY <1>5, <3>1, <3>2
    <2>2. /\ q \in Records /\ q.status = status /\ q.kind = Seen(w).kind /\ q.orig = Seen(w).orig
          /\ q.proc = Kept(p, Seen(w).proc) /\ q.thumb = Kept(t, Seen(w).thumb)
        <3>1. status \in {"pending", "processing", "ready", "failed"}
            OBVIOUS
        <3>2. q = [Seen(w) EXCEPT !.status = status, !.proc = Kept(p, @), !.thumb = Kept(t, @)]
            OBVIOUS
        <3> HIDE DEF q
        <3>. QED BY <2>1, <3>1, <3>2 DEF Records, Kept
    <2>3. Good(q) /\ Whole(q)
        BY <2>1, <2>2 DEF Good, Whole, Kept
    <2> HIDE DEF q
    <2>4. /\ tx' \in [Workers -> Records \cup {NoRow}] /\ lock' \in [Ids -> Workers \cup {None}]
          /\ tx'[w] = q /\ \A v \in Workers \ {w} : tx'[v] = tx[v]
          /\ \A n \in Ids : lock'[n] = IF n = m THEN w ELSE lock[n]
        BY <1>0, <1>2, <1>5, <2>2 DEF TypeOK
    <2>5. TypeOK'
        BY <1>0, <1>1, <2>4 DEF TypeOK, Jobs, storage, ids
    <2>6. ASSUME NEW n \in Ids, lock'[n] = w PROVE Holds(w, n)'
        <3>1. n = m
            BY <1>0, <2>4, <2>6 DEF WorkerOK, Holds
        <3>2. \A g \in {q.orig, q.proc, q.thumb} : g = NoFile \/ g \in store' \cup taken'
            BY <1>3, <2>3 DEF Good, Resolves, Grows
        <3>3. Good(tx[w])' /\ Whole(tx[w])'
            BY <2>3, <2>4, <3>2 DEF Good, Whole, Resolves
        <3>. QED BY <1>0, <1>1, <2>1, <2>2, <2>4, <3>1, <3>3 DEF Holds
    <2>7. \A part \in job'[w].parts : Resolves(File(job[w].id, part, job[w].run))'
        BY <1>0, <1>1, <1>3 DEF WorkerOK, Resolves, Grows, File
    <2>8. WorkerOK(w)'
        BY <1>0, <1>1, <1>2, <2>1, <2>6, <2>7 DEF WorkerOK, Uploading, Piping, ids
    <2>9. Apart(w)
        BY <1>1, <2>4 DEF Apart
    <2>10. \A v \in Workers \ {w} : RowFor(v)
        BY <1>0 DEF RowFor
    <2>. QED BY <1>0, <1>1, <1>3, <2>5, <2>8, <2>9, <2>10, StepOK DEF Uploading, Piping
<1>. QED BY <1>4, <1>5 DEF UpdateStatus

LEMMA MarkKeeps ==
    ASSUME Inv, NEW w \in Workers, Mark(w) PROVE Inv'
<1>0. TypeOK /\ WorkerOK(w) /\ pc[w] = "mark" /\ UNCHANGED <<storage, ids>>
    BY DEF Inv, Mark
<1>1. PICK status \in {"processing", "ready"}, l \in Piping :
          /\ UpdateStatus(w, status, NoFile, NoFile) /\ Goto(w, l)
          /\ l = "commit" => status # "processing"
          /\ l = "commit" \/ (IF job[w].kind = "image" THEN l = "convert" ELSE l = "probe")
    BY DEF Mark, Piping
<1>2. pc'[w] = l /\ job' = job
    BY <1>0, <1>1 DEF Goto, TypeOK
<1>3. Stage(w)'
    BY <1>0, <1>1, <1>2 DEF Stage, WorkerOK
<1>. QED BY <1>0, <1>1, <1>3, StatusKeeps DEF Piping

LEMMA ReadyKeeps ==
    ASSUME Inv, NEW w \in Workers, Ready(w) PROVE Inv'
<1>0. TypeOK /\ WorkerOK(w) /\ pc[w] = "ready" /\ UNCHANGED <<storage, ids>> /\ job \in [Workers -> Jobs]
    BY JobsTyped DEF Inv, Ready
<1>1. job[w].id \in Ids /\ job[w].run \in 0..MaxRuns /\ job[w].parts \subseteq {"proc", "thumb"}
    BY <1>0 DEF WorkerOK, Jobs
<1>2. \A part \in {"proc", "thumb"} :
          /\ Url(w, part) \in Files \cup {NoFile}
          /\ Url(w, part) = NoFile \/ Resolves(Url(w, part))
          /\ part \in job[w].parts => Url(w, part) # NoFile
    BY <1>0, <1>1, FileTyped, FileIsNotNone DEF Url, WorkerOK
<1>3. job[w].kind = "image" => (Url(w, "proc") = NoFile <=> Url(w, "thumb") = NoFile)
    BY <1>0, <1>2 DEF WorkerOK, Stage
<1>4. pc'[w] = "commit" /\ job' = job /\ Goto(w, "commit")
    BY <1>0 DEF Ready, Goto, TypeOK
<1>5. Stage(w)'
    BY <1>4 DEF Stage
<1>6. UpdateStatus(w, "ready", Url(w, "proc"), Url(w, "thumb"))
    BY DEF Ready
<1>7. "ready" \in Piping \ {"commit"} /\ "commit" \in Piping
    BY DEF Piping
<1>. QED BY <1>0, <1>2, <1>3, <1>4, <1>5, <1>6, <1>7, StatusKeeps

LEMMA FailKeeps ==
    ASSUME Inv, NEW w \in Workers, Fail(w) PROVE Inv'
<1>0. TypeOK /\ pc[w] = "fail" /\ UNCHANGED <<storage, ids>>
    BY DEF Inv, Fail
<1>1. pc'[w] = "commit" /\ job' = job
    BY <1>0 DEF Fail, Goto, TypeOK
<1>2. Stage(w)'
    BY <1>1 DEF Stage
<1>. QED BY <1>0, <1>2, StatusKeeps DEF Fail, Piping

LEMMA SendKeeps ==
    ASSUME Inv, NEW w \in Workers, Send(w) PROVE Inv'
<1>0. TypeOK /\ WorkerOK(w) /\ pc[w] = "send" /\ UNCHANGED <<storage, table, ids>> /\ job \in [Workers -> Jobs]
    BY JobsTyped DEF Inv, Send
<1>1. Grows /\ store' \subseteq Files /\ taken' \subseteq Files /\ backend' = backend
    BY <1>0 DEF Grows, TypeOK, storage, ids
<1>2. CASE pc' = [pc EXCEPT ![w] = "sent"] /\ job' = job
    <2>1. "sent" \in Labels /\ "sent" \notin Uploading \cup Piping \cup {"send", "commit"} /\ "send" \notin Piping
        BY DEF Labels, Uploading, Piping
    <2>2. pc'[w] = "sent"
        BY <1>0, <1>2 DEF TypeOK
    <2>3. Stage(w)'
        BY <2>2 DEF Stage
    <2>. QED BY <1>0, <1>1, <1>2, <2>1, <2>3, MoveKeeps
<1>3. CASE /\ job[w].last - job[w].at + 1 > 0
           /\ job' = [job EXCEPT ![w].at = @ + Min(Chunk, job[w].last - job[w].at + 1)] /\ pc' = pc
    <2>1. job[w].at \in Nat /\ job[w].last \in Nat /\ job[w].last < FileSize /\ job[w].at <= job[w].last + 1
        BY <1>0, SizesAssumption DEF Jobs, WorkerOK
    <2>2. /\ job[w].at + Min(Chunk, job[w].last - job[w].at + 1) \in 0..FileSize
          /\ job[w].at + Min(Chunk, job[w].last - job[w].at + 1) <= job[w].last + 1
        BY <1>3, <2>1, SizesAssumption DEF Min
    <2>3. /\ job' \in [Workers -> Jobs] /\ \A v \in Workers \ {w} : job'[v] = job[v]
          /\ job'[w].id = job[w].id /\ job'[w].kind = job[w].kind /\ job'[w].run = job[w].run
          /\ job'[w].parts = job[w].parts /\ job'[w].last = job[w].last
          /\ job'[w].at = job[w].at + Min(Chunk, job[w].last - job[w].at + 1)
        BY <1>0, <1>3, <2>2 DEF Jobs
    <2>4. TypeOK'
        BY <1>0, <1>1, <1>3, <2>3, QuietType DEF TypeOK
    <2>5. \A part \in job'[w].parts : Resolves(File(job[w].id, part, job[w].run))'
        BY <1>0, <1>1, <2>3 DEF WorkerOK, Resolves, Grows, File
    <2>6. WorkerOK(w)'
        BY <1>0, <1>3, <2>2, <2>3, <2>5 DEF WorkerOK, Holds, Stage, Uploading, Piping, table
    <2>. QED BY <1>0, <1>1, <1>3, <2>3, <2>4, <2>6, QuietStep
<1>. QED BY <1>2, <1>3 DEF Send

LEMMA SentKeeps ==
    ASSUME Inv, NEW w \in Workers, Sent(w) PROVE Inv'
<1>1. /\ pc[w] = "sent" /\ End(w) /\ UNCHANGED <<storage, table, ids>>
      /\ \A m \in Ids : lock[m] # w
    BY DEF Sent, Inv, WorkerOK, Holds, Piping
<1>2. \A v \in Workers \ {w} : RowFor(v)
    BY <1>1 DEF RowFor, table
<1>. QED BY <1>1, <1>2, EndKeeps DEF Inv, TypeOK, table

-----------------------------------------------------------------------------
(* A worker begins a request or a pipeline.                                *)
LEMMA BeginKeeps ==
    ASSUME Inv, NEW w \in Workers, NEW l \in Labels, NEW j \in Jobs, NEW m \in Ids,
           Begin(w, l, j), UNCHANGED <<storage, table>>, Grows,
           used' \subseteq Ids, runs' \in [Ids -> 0..MaxRuns],
           j.id = m, j.parts = {}, l \notin {"save", "probe", "frame", "put_thumb", "ready"},
           l \in Uploading => l = "put" /\ m \notin used /\ m \in used' /\ j.kind \in Kinds,
           l \in Piping => row[m] # NoRow /\ j.kind = row[m].kind,
           l = "send" => j.last < FileSize /\ j.at <= j.last + 1
    PROVE  Inv'
<1>0. TypeOK /\ WorkerOK(w) /\ FreshOK /\ pc[w] = "idle" /\ row' = row /\ lock' = lock /\ tx' = tx
    BY DEF Inv, Begin, table
<1>1. /\ pc' \in [Workers -> Labels] /\ job' \in [Workers -> Jobs]
      /\ pc'[w] = l /\ job'[w] = j
      /\ \A v \in Workers \ {w} : pc'[v] = pc[v] /\ job'[v] = job[v]
    BY <1>0, JobsTyped DEF TypeOK, Begin
<1>2. TypeOK'
    BY <1>0, <1>1 DEF TypeOK, Jobs, storage
<1>3. Apart(w) /\ \A v \in Workers \ {w} : RowFor(v)
    BY <1>0, <1>1 DEF Apart, RowFor
<1>4. \A v \in Workers \ {w} : WorkerOK(v)'
    BY <1>3, OthersOK
<1>5. WorkerOK(w)'
    <2>1. \A n \in Ids : lock'[n] # w
        BY <1>0 DEF WorkerOK, Holds, Piping
    <2>2. ASSUME l \in Piping PROVE m \in used' /\ row[m] # NoRow /\ j.kind = row[m].kind /\ j.kind \in Kinds
        <3>1. row[m] \in Records
            BY <1>0, <2>2 DEF TypeOK
        <3>. QED BY <2>2, <3>1 DEF Inv, RowOK, Grows, Records
    <2>3. ASSUME l \in Uploading PROVE row[m] = NoRow
        BY <2>3 DEF Inv, RowOK
    <2>4. Stage(w)'
        BY <1>1 DEF Stage
    <2>. QED BY <1>0, <1>1, <2>1, <2>2, <2>3, <2>4 DEF WorkerOK, Uploading
<1>6. FreshOK'
    <2>1. \A v \in Workers \ {w} : pc[v] \in Uploading \cup Piping => job[v].id \in used
        BY DEF Inv, WorkerOK
    <2>2. \A v \in Workers \ {w} : pc[v] \in Uploading => row[job[v].id] = NoRow
        BY DEF Inv, WorkerOK
    <2>3. Uploading \cap Piping = {}
        BY DEF Uploading, Piping
    <2>. QED BY <1>0, <1>1, <2>1, <2>2, <2>3 DEF FreshOK
<1>7. \A n \in Ids : RowOK(n)'
    BY <1>0, GoodKept DEF Inv, RowOK, Grows, Good, Resolves, Whole
<1>. QED BY <1>2, <1>4, <1>5, <1>6, <1>7 DEF Inv

LEMMA BeginsKeep ==
    ASSUME Inv, NEW w \in Workers, NEW m \in Ids,
           Upload(w, m) \/ Delete(w, m) \/ Process(w, m) \/ Stream(w, m)
    PROVE  Inv'
<1>0. /\ TypeOK /\ {"put", "unlink", "mark", "send"} \subseteq Labels
      /\ "mark" \in Piping /\ "put" \in Uploading
      /\ {"unlink", "mark", "send"} \cap Uploading = {} /\ {"put", "unlink", "send"} \cap Piping = {}
    BY DEF Inv, Labels, Uploading, Piping
<1>1. ASSUME NEW k \in Kinds \cup {None}, NEW n \in 0..MaxRuns, NEW a \in 0..FileSize, NEW b \in 0..FileSize,
             NEW j, j = [id |-> m, kind |-> k, run |-> n, parts |-> {}, at |-> a, last |-> b]
      PROVE  j \in Jobs
    BY <1>1 DEF Jobs
<1>2. 0 \in 0..MaxRuns /\ 0 \in 0..FileSize /\ None \in Kinds \cup {None}
    BY SizesAssumption
<1>3. CASE Upload(w, m)
    <2>1. PICK k \in Kinds : Begin(w, "put", Job(m, k, 0, 0, 0))
        BY <1>3 DEF Upload
    <2>2. PICK j : j = [id |-> m, kind |-> k, run |-> 0, parts |-> {}, at |-> 0, last |-> 0]
        OBVIOUS
    <2>3. Begin(w, "put", j) /\ j \in Jobs /\ j.id = m /\ j.parts = {} /\ j.kind = k
        <3>1. j = Job(m, k, 0, 0, 0)
            BY <2>2 DEF Job
        <3>2. Begin(w, "put", j)
            BY <2>1, <3>1
        <3>3. j \in Jobs
            BY <1>1, <1>2, <2>1, <2>2
        <3>. QED BY <2>2, <3>2, <3>3
    <2>4. /\ UNCHANGED <<storage, table>> /\ m \notin used /\ used' = used \cup {m} /\ runs' = runs
          /\ Grows
        BY <1>3 DEF Upload, Grows, storage
    <2>. QED BY <1>0, <2>3, <2>4, BeginKeeps DEF TypeOK
<1>4. CASE Delete(w, m)
    <2>2. PICK j : j = [id |-> m, kind |-> None, run |-> 0, parts |-> {}, at |-> 0, last |-> 0]
        OBVIOUS
    <2>3. Begin(w, "unlink", j) /\ j \in Jobs /\ j.id = m /\ j.parts = {}
        BY <1>1, <1>2, <1>4, <2>2 DEF Job, Delete
    <2>4. UNCHANGED <<storage, table>> /\ used' = used /\ runs' = runs /\ Grows
        BY <1>4 DEF Delete, Grows, storage, ids
    <2>. QED BY <1>0, <2>3, <2>4, BeginKeeps DEF TypeOK
<1>5. CASE Process(w, m)
    <2>1. /\ row[m] # NoRow /\ row[m] \in Records /\ row[m].kind \in Kinds
          /\ runs[m] \in 0..MaxRuns /\ runs[m] + 1 \in 0..MaxRuns
        BY <1>0, <1>5, SizesAssumption DEF Process, TypeOK, Records
    <2>2. PICK j : j = [id |-> m, kind |-> row[m].kind, run |-> runs[m] + 1, parts |-> {}, at |-> 0, last |-> 0]
        OBVIOUS
    <2>3. Begin(w, "mark", j) /\ j \in Jobs /\ j.id = m /\ j.parts = {} /\ j.kind = row[m].kind
        <3>1. j = Job(m, row[m].kind, runs[m] + 1, 0, 0)
            BY <2>2 DEF Job
        <3>2. Begin(w, "mark", j)
            BY <1>5, <3>1 DEF Process
        <3>3. j \in Jobs
            BY <1>1, <1>2, <2>1, <2>2
        <3>. QED BY <2>2, <3>2, <3>3
    <2>4. /\ UNCHANGED <<storage, table>> /\ used' = used /\ Grows
          /\ runs' \in [Ids -> 0..MaxRuns]
        BY <1>0, <1>5, <2>1 DEF Process, Grows, storage, TypeOK
    <2>. QED BY <1>0, <2>1, <2>3, <2>4, BeginKeeps DEF TypeOK
<1>6. CASE Stream(w, m)
    <2>1. PICK first \in 0..FileSize, last \in 0..FileSize :
              /\ Satisfiable(first, last)
              /\ Begin(w, "send", Job(m, None, 0, first, last))
        BY <1>6 DEF Stream
    <2>2. PICK j : j = [id |-> m, kind |-> None, run |-> 0, parts |-> {}, at |-> first, last |-> last]
        OBVIOUS
    <2>3. Begin(w, "send", j) /\ j \in Jobs /\ j.id = m /\ j.parts = {} /\ j.at = first /\ j.last = last
        <3>1. j = Job(m, None, 0, first, last)
            BY <2>2 DEF Job
        <3>2. Begin(w, "send", j)
            BY <2>1, <3>1
        <3>3. j \in Jobs
            BY <1>1, <1>2, <2>1, <2>2
        <3>. QED BY <2>2, <3>2, <3>3
    <2>4. last < FileSize /\ first <= last + 1
        BY <2>1, SizesAssumption DEF Satisfiable
    <2>5. UNCHANGED <<storage, table>> /\ used' = used /\ runs' = runs /\ Grows
        BY <1>6 DEF Stream, Grows, storage, ids
    <2>. QED BY <1>0, <2>3, <2>4, <2>5, BeginKeeps DEF TypeOK
<1>. QED BY <1>3, <1>4, <1>5, <1>6

LEMMA PostKeeps ==
    ASSUME Inv, PostDelete \/ \E m \in Ids : PostUpload(m) PROVE Inv'
<1>0. TypeOK /\ UNCHANGED <<table, runs, pc, job>>
    BY DEF Inv, PostDelete, PostUpload, ids
<1>1. /\ Grows /\ store' \subseteq Files /\ taken' \subseteq Files /\ used' \subseteq Ids
    <2>1. ASSUME PostDelete PROVE Grows /\ store' \subseteq Files /\ taken' \subseteq Files /\ used' \subseteq Ids
        BY <1>0, <2>1 DEF PostDelete, Remove, Grows, TypeOK, ids
    <2>2. ASSUME NEW m \in Ids, PostUpload(m)
          PROVE  Grows /\ store' \subseteq Files /\ taken' \subseteq Files /\ used' \subseteq Ids
        <3>1. File(m, "post", 0) \in Files
            BY FileTyped, SizesAssumption
        <3>. QED BY <1>0, <2>2, <3>1 DEF PostUpload, Put, Grows, TypeOK
    <2>. QED BY <2>1, <2>2
<1>2. TypeOK'
    BY <1>0, <1>1 DEF TypeOK, table, Grows
<1>3. Apart(None) /\ \A v \in Workers : RowFor(v)
    BY <1>0 DEF Apart, RowFor, table
<1>4. \A v \in Workers : v # None
    BY NamesAssumption DEF None
<1>5. \A v \in Workers : WorkerOK(v)'
    BY <1>1, <1>3, <1>4, OthersOK
<1>6. FreshOK'
    BY <1>0 DEF Inv, FreshOK
<1>7. \A n \in Ids : RowOK(n)'
    BY <1>0, <1>1, GoodKept DEF Inv, RowOK, Grows, Good, Resolves, Whole, table
<1>. QED BY <1>2, <1>5, <1>6, <1>7 DEF Inv

LEMMA CrashKeeps ==
    ASSUME Inv, Crash PROVE Inv'
<1>1. "idle" \in Labels /\ \A w \in Workers : w # None
    BY NamesAssumption DEF Labels, None
<1>2. TypeOK'
    BY <1>1, NoJobTyped DEF Inv, TypeOK, Jobs, Crash, storage, ids
<1>3. \A w \in Workers : WorkerOK(w)'
    BY <1>1, IdleOK DEF Crash
<1>4. FreshOK'
    BY DEF Crash, FreshOK, Uploading
<1>5. \A n \in Ids : RowOK(n)'
    BY DEF Inv, Crash, RowOK, Good, Resolves, Whole, storage, ids
<1>. QED BY <1>2, <1>3, <1>4, <1>5 DEF Inv

-----------------------------------------------------------------------------
LEMMA InvInit == Init => Inv
<1>. SUFFICES ASSUME Init PROVE Inv
    OBVIOUS
<1>1. "idle" \in Labels /\ 0 \in 0..MaxRuns /\ \A w \in Workers : w # None
    BY SizesAssumption, NamesAssumption DEF Labels, None
<1>2. TypeOK
    BY <1>1, NoJobTyped DEF Init, TypeOK, Jobs
<1>3. \A w \in Workers : WorkerOK(w)
    BY <1>1 DEF Init, WorkerOK, NoJob, Job, Uploading, Piping, Stage, None
<1>4. FreshOK /\ \A m \in Ids : RowOK(m)
    BY DEF Init, FreshOK, RowOK, Uploading
<1>. QED BY <1>2, <1>3, <1>4 DEF Inv

LEMMA InvHolds == Spec => []Inv
<1>1. ASSUME Inv, Next PROVE Inv'
    BY <1>1, PutOriginalKeeps, SaveRowKeeps, UnlinkKeeps, DropKeeps, MarkKeeps, ConvertKeeps, PutPartKeeps,
       ReadyKeeps, FailKeeps, CommitKeeps, SendKeeps, SentKeeps, RollbackKeeps, BeginsKeep, PostKeeps, CrashKeeps
    DEF Next, Step
<1>2. ASSUME Inv, UNCHANGED vars PROVE Inv'
    BY <1>2 DEF Inv, vars, TypeOK, WorkerOK, FreshOK, RowOK, Holds, Stage, Good, Whole, Resolves, Original, File
<1>3. Inv /\ [Next]_vars => Inv'
    BY <1>1, <1>2
<1>. QED BY InvInit, <1>3, PTL DEF Spec

(* Storage, table and jobs keep their types; a stream never reads past the *)
(* end of its range.                                                       *)
THEOREM Typing == Spec => []TypeOK
<1>1. Inv => TypeOK BY DEF Inv
<1>. QED BY InvHolds, <1>1, PTL

(* Every address in a committed record resolves, for any number of         *)
(* uploads, pipelines and deletes at a time.                               *)
THEOREM AddressesResolve == Spec => []UrlsResolve
<1>1. Inv => UrlsResolve
    BY DEF Inv, RowOK, UrlsResolve, Good, Resolves
<1>. QED BY InvHolds, <1>1, PTL

(* No record shows a half-done conversion, for any number of runs.         *)
THEOREM ConversionsAreWhole == Spec => []HalfDoneHidden
<1>1. Inv => HalfDoneHidden
    BY DEF Inv, RowOK, HalfDoneHidden, Whole
<1>. QED BY InvHolds, <1>1, PTL
=============================================================================
