------------------------------- MODULE Media -------------------------------
(***************************************************************************)
(* Media files: the upload, delete, stream and post-media requests, and    *)
(* the background pipeline that converts an uploaded file.  A request      *)
(* writes to two stores without a common transaction, the file storage     *)
(* (S3 or a local directory) and the media table.  The pipeline runs all   *)
(* its statements in one database transaction of its own, across several   *)
(* uploads.  No route of the repository calls schedule_image_processing    *)
(* or schedule_video_processing; Process stands for a caller that does so  *)
(* after an upload.                                                        *)
(***************************************************************************)
EXTENDS Integers

CONSTANTS
    Ids,            \* media ids (and ids of files attached to posts)
    Workers,        \* requests and pipelines in flight at a time
    MaxRuns,        \* bound: pipelines started per media id
    FileSize,       \* bytes of a stored video
    Chunk           \* bytes per read of a stream (65536)

ASSUME SizesAssumption == MaxRuns \in Nat /\ FileSize \in Nat \ {0} /\ Chunk \in Nat \ {0}
ASSUME NamesAssumption == "none" \notin Ids \cup Workers

VARIABLES
    backend,    \* "s3"; "local": a directory with its subfolders; "bare": without them
    store,      \* the files in the storage
    row,        \* row[m]: the committed record of m, or NoRow
    used, runs, \* ids given out; runs[m]: pipelines started for m
    lock, tx,   \* lock[m]: the transaction that holds the row lock, tx[w]: its new version
    pc, job,    \* a worker: its place; media id, kind, run, parts uploaded, bytes to send
    taken       \* history: files for which a delete was sent to the storage

vars == <<backend, store, row, used, runs, lock, tx, pc, job, taken>>

None == "none"
NoRow == [status |-> None]
Kinds == {"image", "video"}
Files == [id : Ids, part : {"orig", "proc", "thumb", "post"}, run : 0..MaxRuns]
NoFile == [id |-> None, part |-> None, run |-> 0]
Records == [status : {"pending", "processing", "ready", "failed"}, kind : Kinds, orig : Files,
            proc : Files \cup {NoFile}, thumb : Files \cup {NoFile}]
Job(m, k, run, at, last) == [id |-> m, kind |-> k, run |-> run, parts |-> {}, at |-> at, last |-> last]
NoJob == Job(None, None, 0, 0, 0)
Labels == {"idle", "put", "save", "unlink", "drop", "mark", "convert", "probe", "frame",
           "put_proc", "put_thumb", "ready", "fail", "commit", "send", "sent"}

TypeOK ==
    /\ backend \in {"s3", "local", "bare"}
    /\ store \subseteq Files
    /\ row \in [Ids -> Records \cup {NoRow}]
    /\ used \subseteq Ids
    /\ runs \in [Ids -> 0..MaxRuns]
    /\ lock \in [Ids -> Workers \cup {None}]
    /\ tx \in [Workers -> Records \cup {NoRow}]
    /\ pc \in [Workers -> Labels]
    /\ job \in [Workers -> [id : Ids \cup {None}, kind : Kinds \cup {None}, run : 0..MaxRuns,
                            parts : SUBSET {"proc", "thumb"}, at : 0..FileSize, last : 0..FileSize]]
    /\ taken \subseteq Files

Init ==
    /\ backend \in {"s3", "local", "bare"}
    /\ store = {} /\ row = [m \in Ids |-> NoRow]
    /\ used = {} /\ runs = [m \in Ids |-> 0]
    /\ lock = [m \in Ids |-> None] /\ tx = [w \in Workers |-> NoRow]
    /\ pc = [w \in Workers |-> "idle"] /\ job = [w \in Workers |-> NoJob]
    /\ taken = {}

storage == <<backend, store, taken>>
table == <<row, lock, tx>>
ids == <<used, runs>>

Goto(w, l) == pc' = [pc EXCEPT ![w] = l] /\ job' = job
Begin(w, l, j) ==
    /\ pc[w] = "idle"
    /\ pc' = [pc EXCEPT ![w] = l]
    /\ job' = [job EXCEPT ![w] = j]
End(w) ==
    /\ pc' = [pc EXCEPT ![w] = "idle"]
    /\ job' = [job EXCEPT ![w] = NoJob]

-----------------------------------------------------------------------------
(* The storage.  S3 keys are fresh for every upload; the local name of a   *)
(* processed file is made of the media id, so that a second run overwrites *)
(* it.  Local files of media lie in a subfolder, files of posts do not.    *)
File(m, part, run) == [id |-> m, part |-> part, run |-> IF backend = "s3" THEN run ELSE 0]
Writable(f) == backend # "bare" \/ f.part = "post"

(* upload: an error may come after the object was stored (S3).             *)
Put(f) == Writable(f) /\ store' = store \cup {f} /\ UNCHANGED <<backend, taken>>
PutFails(f) ==
    /\ store' \in {store} \cup (IF backend = "s3" THEN {store \cup {f}} ELSE {})
    /\ UNCHANGED <<backend, taken>>

(* delete goes by the last component of the URL: on a local disk it finds  *)
(* only files directly under upload_dir.                                   *)
Reachable(f) == backend = "s3" \/ f.part = "post"
Remove(f) ==
    /\ store' = IF Reachable(f) THEN store \ {f} ELSE store
    /\ taken' = taken \cup {f}
    /\ backend' = backend

-----------------------------------------------------------------------------
(* POST /media/upload: type and size are checked before anything else; the *)
(* refused requests leave no trace and are left out.                       *)
Upload(w, m) ==
    /\ m \notin used
    /\ used' = used \cup {m}
    /\ \E k \in Kinds : Begin(w, "put", Job(m, k, 0, 0, 0))
    /\ UNCHANGED <<storage, table, runs>>

Original(m) == File(m, "orig", 0)

(* Mutant of PutOriginal: an error of the storage is swallowed.            *)
PutOriginalSwallow(w) ==
    /\ pc[w] = "put"
    /\ \/ Put(Original(job[w].id)) /\ Goto(w, "save")
       \/ PutFails(Original(job[w].id)) /\ Goto(w, "save")
    /\ UNCHANGED <<table, ids>>

PutOriginal(w) ==
    /\ pc[w] = "put"
    /\ \/ Put(Original(job[w].id)) /\ Goto(w, "save")
       \/ PutFails(Original(job[w].id)) /\ End(w)
    /\ UNCHANGED <<table, ids>>

(* Media.create, merge and commit.                                         *)
Create(m, k) == [status |-> "pending", kind |-> k, orig |-> Original(m), proc |-> NoFile, thumb |-> NoFile]

SaveRow(w) ==
    /\ pc[w] = "save"
    /\ row' = [row EXCEPT ![job[w].id] = Create(job[w].id, job[w].kind)]
    /\ End(w)
    /\ UNCHANGED <<storage, lock, tx, ids>>

(* DELETE /media/{id} by the owner of an existing record.                  *)
Delete(w, m) ==
    /\ row[m] # NoRow
    /\ Begin(w, "unlink", Job(m, None, 0, 0, 0))
    /\ UNCHANGED <<storage, table, ids>>

(* The original goes first, errors are swallowed; thumbnail and processed  *)
(* file stay.                                                              *)
Unlink(w) ==
    /\ pc[w] = "unlink"
    /\ \/ Remove(Original(job[w].id))
       \/ taken' = taken \cup {Original(job[w].id)} /\ UNCHANGED <<backend, store>>
    /\ Goto(w, "drop")
    /\ UNCHANGED <<table, ids>>

(* The DELETE waits for a pipeline that has updated the row.               *)
Drop(w) ==
    /\ pc[w] = "drop"
    /\ lock[job[w].id] = None
    /\ row' = [row EXCEPT ![job[w].id] = NoRow]
    /\ End(w)
    /\ UNCHANGED <<storage, lock, tx, ids>>

(* POST /posts/{id}/media keeps no record; DELETE takes the name of a file *)
(* as it comes.                                                            *)
PostUpload(m) ==
    /\ m \notin used
    /\ used' = used \cup {m}
    /\ Put(File(m, "post", 0))
    /\ UNCHANGED <<table, runs, pc, job>>

PostDelete ==
    /\ \E f \in store : Reachable(f) /\ Remove(f)
    /\ UNCHANGED <<table, ids, pc, job>>

-----------------------------------------------------------------------------
(* The pipeline. *)

(* What the worker's transaction sees of its row.                          *)
Seen(w) == IF lock[job[w].id] = w THEN tx[w] ELSE row[job[w].id]

(* update_status: arguments that are None leave their column alone; no row *)
(* matches when the record is gone.                                        *)
Kept(new, old) == IF new = NoFile THEN old ELSE new
UpdateStatus(w, status, proc, thumb) ==
    LET m == job[w].id r == Seen(w) IN
    /\ lock[m] \in {None, w}
    /\ \/ r = NoRow /\ UNCHANGED <<lock, tx>>
       \/ /\ r # NoRow
          /\ tx' = [tx EXCEPT ![w] = [r EXCEPT !.status = status, !.proc = Kept(proc, @), !.thumb = Kept(thumb, @)]]
          /\ lock' = [lock EXCEPT ![m] = w]
    /\ row' = row

Release(w) ==
    /\ lock' = [lock EXCEPT ![job[w].id] = IF @ = w THEN None ELSE @]
    /\ tx' = [tx EXCEPT ![w] = NoRow]

(* Mutant of Rollback: the session is not closed.                          *)
RollbackKeepsLock(w) == UNCHANGED table /\ End(w)

Rollback(w) == row' = row /\ Release(w) /\ End(w)

(* trigger_image_processing and trigger_video_processing.                  *)
Process(w, m) ==
    /\ row[m] # NoRow /\ runs[m] < MaxRuns
    /\ runs' = [runs EXCEPT ![m] = @ + 1]
    /\ Begin(w, "mark", Job(m, row[m].kind, runs[m] + 1, 0, 0))
    /\ UNCHANGED <<storage, table, used>>

(* Without Pillow or ffmpeg the record becomes READY as it is.             *)
Mark(w) ==
    /\ pc[w] = "mark"
    /\ \/ UpdateStatus(w, "ready", NoFile, NoFile) /\ Goto(w, "commit")
       \/ UpdateStatus(w, "processing", NoFile, NoFile) /\ Goto(w, IF job[w].kind = "image" THEN "convert" ELSE "probe")
    /\ UNCHANGED <<storage, ids>>

(* ImageProcessor.process and generate_thumbnail; they raise on a file     *)
(* that Pillow cannot read.                                                *)
Convert(w) ==
    /\ pc[w] = "convert"
    /\ Goto(w, "put_proc") \/ Goto(w, "fail")
    /\ UNCHANGED <<storage, table, ids>>

(* VideoProcessor.get_metadata: None on any error, it never raises ...     *)
Probe(w) ==
    /\ pc[w] = "probe"
    /\ Goto(w, "frame")
    /\ UNCHANGED <<storage, table, ids>>

(* ... and neither does extract_thumbnail: a frame to upload, or None.     *)
Frame(w) ==
    /\ pc[w] = "frame"
    /\ Goto(w, "put_thumb") \/ Goto(w, "ready")
    /\ UNCHANGED <<storage, table, ids>>

PutPart(w, part, next) ==
    LET f == File(job[w].id, part, job[w].run) IN
    /\ \/ /\ Put(f)
          /\ pc' = [pc EXCEPT ![w] = next]
          /\ job' = [job EXCEPT ![w].parts = @ \cup {part}]
       \/ PutFails(f) /\ Goto(w, "fail")
    /\ UNCHANGED <<table, ids>>

PutProcessed(w) == pc[w] = "put_proc" /\ PutPart(w, "proc", "put_thumb")
PutThumb(w) == pc[w] = "put_thumb" /\ PutPart(w, "thumb", "ready")

Url(w, part) == IF part \in job[w].parts THEN File(job[w].id, part, job[w].run) ELSE NoFile

Ready(w) ==
    /\ pc[w] = "ready"
    /\ UpdateStatus(w, "ready", Url(w, "proc"), Url(w, "thumb"))
    /\ Goto(w, "commit")
    /\ UNCHANGED <<storage, ids>>

(* Mutant of Fail: what was uploaded so far is recorded.                   *)
FailPartly(w) ==
    /\ pc[w] = "fail"
    /\ UpdateStatus(w, "failed", Url(w, "proc"), Url(w, "thumb"))
    /\ Goto(w, "commit")
    /\ UNCHANGED <<storage, ids>>

Fail(w) ==
    /\ pc[w] = "fail"
    /\ UpdateStatus(w, "failed", NoFile, NoFile)
    /\ Goto(w, "commit")
    /\ UNCHANGED <<storage, ids>>

Commit(w) ==
    /\ pc[w] = "commit"
    /\ row' = [row EXCEPT ![job[w].id] = Seen(w)]
    /\ Release(w) /\ End(w)
    /\ UNCHANGED <<storage, ids>>

(* The database refuses a statement, or command_timeout ends a wait for a  *)
(* lock.  In the pipeline the transaction is then aborted, so that the     *)
(* UPDATE to FAILED in the except block fails too: everything is rolled    *)
(* back, files stay.                                                       *)
DatabaseFails(w) ==
    /\ pc[w] \in {"save", "drop", "mark", "ready", "fail", "commit"}
    /\ Rollback(w)
    /\ UNCHANGED <<storage, ids>>

-----------------------------------------------------------------------------
(* GET /media/{id}/stream of a video on a local disk (S3: a redirect).  A  *)
(* Range has to lie inside the file; without one it is the whole file.     *)
Satisfiable(first, last) == ~(first >= FileSize \/ last >= FileSize \/ first > last)

Stream(w, m) ==
    /\ row[m] # NoRow /\ backend # "s3"
    /\ row[m].kind = "video" /\ row[m].status # "failed"
    /\ row[m].orig \in store
    /\ \E first, last \in 0..FileSize :
          /\ Satisfiable(first, last)
          /\ Begin(w, "send", Job(m, None, 0, first, last))
    /\ UNCHANGED <<storage, table, ids>>

Min(a, b) == IF a < b THEN a ELSE b

(* remaining -= len(data), until nothing remains.                          *)
Send(w) ==
    /\ pc[w] = "send"
    /\ LET remaining == job[w].last - job[w].at + 1 IN
          \/ remaining > 0 /\ job' = [job EXCEPT ![w].at = @ + Min(Chunk, remaining)] /\ pc' = pc
          \/ remaining = 0 /\ pc' = [pc EXCEPT ![w] = "sent"] /\ job' = job
    /\ UNCHANGED <<storage, table, ids>>

Sent(w) ==
    /\ pc[w] = "sent"
    /\ End(w)
    /\ UNCHANGED <<storage, table, ids>>

(* The process ends: PostgreSQL rolls back what it had begun.              *)
Crash ==
    /\ \E w \in Workers : pc[w] # "idle"
    /\ pc' = [w \in Workers |-> "idle"] /\ job' = [w \in Workers |-> NoJob]
    /\ lock' = [m \in Ids |-> None] /\ tx' = [w \in Workers |-> NoRow]
    /\ UNCHANGED <<storage, row, ids>>

Step(w) ==
    \/ PutOriginal(w) \/ SaveRow(w) \/ Unlink(w) \/ Drop(w)
    \/ Mark(w) \/ Convert(w) \/ Probe(w) \/ Frame(w)
    \/ PutProcessed(w) \/ PutThumb(w) \/ Ready(w) \/ Fail(w) \/ Commit(w)
    \/ Send(w) \/ Sent(w)

Next ==
    \/ \E w \in Workers : Step(w) \/ DatabaseFails(w)
    \/ \E w \in Workers, m \in Ids : Upload(w, m) \/ Delete(w, m) \/ Process(w, m) \/ Stream(w, m)
    \/ \E m \in Ids : PostUpload(m)
    \/ PostDelete
    \/ Crash

(* The event loop resumes requests and tasks, and the storage and the      *)
(* database answer.                                                        *)
Spec == Init /\ [][Next]_vars
FairSpec == Spec /\ \A w \in Workers : WF_vars(Step(w))

-----------------------------------------------------------------------------
(* Properties. *)

(* Every address in a committed record is that of a file in the storage,   *)
(* as long as no delete was sent for that file: records are written after  *)
(* the files they name, whatever fails, crashes or runs twice.             *)
UrlsResolve == \A m \in Ids : row[m] # NoRow =>
    {row[m].orig, row[m].proc, row[m].thumb} \ {NoFile} \subseteq store \cup taken

(* Nobody sees a half-done conversion: PROCESSING is never committed, and  *)
(* a record of an image has both converted files or neither.               *)
HalfDoneHidden == \A m \in Ids : row[m] # NoRow =>
    /\ row[m].status # "processing"
    /\ row[m].kind = "image" => (row[m].proc = NoFile <=> row[m].thumb = NoFile)

(* The lock that a pipeline keeps across its uploads blocks a delete and a *)
(* second pipeline of the same record, but nobody waits for ever, even if  *)
(* no timeout ends the wait.                                               *)
RequestsEnd == \A w \in Workers : pc[w] # "idle" ~> pc[w] = "idle"
=============================================================================
