----------------------------- MODULE StoredFiles -----------------------------
(***************************************************************************)
(* The life of an uploaded file: its stored_files row in Postgres, its     *)
(* immutable object in the bucket, and the verification job in BullMQ.     *)
(* Four kinds of process work on them without a lock, through status       *)
(* compare-and-sets only: confirm and multipart requests of the API        *)
(* (libs/modules/upload), verification workers (apps/worker) and the three *)
(* sweeps of the scheduler (apps/scheduler).  Every awaited database,      *)
(* storage or queue call is a step; any of them may fail, and a failure    *)
(* spends one of MaxFaults.                                                *)
(*                                                                         *)
(* A file is named after the request that may create it: a confirm (all of *)
(* them confirm the same presigned source key) or a part of one multipart  *)
(* request.  An object's content stands for its ETag as well.              *)
(***************************************************************************)
EXTENDS Integers, FiniteSets

CONSTANTS
  Confirms,   \* confirm requests for one source key
  Batch,      \* the files of one multipart request
  Workloads,  \* the sets of files whose requests may arrive together
  Workers,    \* verification job slots
  Sweeps,     \* the scheduler's sweeps, of "cleanup", "orphan" and "purge"
  Contents,   \* what clients upload, a subset of AllContents
  None,       \* no object
  MaxFaults   \* bound on failed calls and crashes

Files  == Confirms \cup Batch

\* "banned" breaks the size or MIME policy, "forged" the magic bytes, "infected"
\* only the scanner sees, "huge" the scanner cannot take.
AllContents == {"clean", "huge", "infected", "forged", "banned"}

ASSUME ConstantsAssumption ==
  /\ Confirms \cap Batch = {}
  /\ \A load \in Workloads : load \subseteq Files /\ load \cap Batch \in {{}, Batch}
  /\ Sweeps \subseteq {"cleanup", "orphan", "purge"}
  /\ Contents \subseteq AllContents
  /\ None \notin AllContents \cup Files
  /\ Workers \cap {"none", "queued", "completed", "failed"} = {}
  /\ MaxFaults \in Nat

VARIABLES
  row,     \* row[f]: the stored_files row; ver stands for updatedAt
  obj,     \* obj[f]: the object under f's final key
  staged,  \* the object under the presigned source key
  job,     \* job[f]: the verification job of f's key
  api,     \* api[c]: where confirm c is
  bt,      \* where the multipart request is
  wk,      \* wk[w]: where worker slot w is
  sw,      \* sw[k]: where sweep k is, with the row it read
  orphaned,\* the owning user or organization was hard-deleted
  scanOn,  \* MALWARE_SCANNER_ENABLED
  lost,    \* history: files whose copy landed although the call failed
  faults

vars == <<row, obj, staged, job, api, bt, wk, sw, orphaned, scanOn, lost, faults>>

Statuses == {"none", "FINALIZING", "VERIFYING", "READY", "REJECTED"}
Started(c) == [pc |-> "find", meta |-> None, target |-> c]
Idle      == [pc |-> "idle", file |-> None]
IdleSweep == [pc |-> "idle", file |-> None, ver |-> 0]
NoRow == [status |-> "none", deleted |-> FALSE, scan |-> "none", ver |-> 0]

RowType == [status : Statuses, deleted : BOOLEAN,
            scan : {"none", "CLEAN", "SKIPPED_TOO_LARGE"}, ver : Nat]
ConfirmPlaces == {"find", "head", "discard", "create", "refind", "copy", "unstage", "undo",
                  "rehead", "inspect", "condemn", "wipe", "transition", "reread", "publish",
                  "done"}
ConfirmType == [pc : ConfirmPlaces, meta : Contents \cup {None}, target : Confirms]
BatchType   == [pc : {"create", "upload", "wipe", "drop", "publish", "dispatch", "done"},
                left : SUBSET Batch]
WorkerType  == [pc : {"idle", "inspect", "flip", "reject", "recheck", "wipe"},
                file : Files \cup {None}]
SweepType   == [pc : {"idle", "head", "claim", "wipe", "drop"},
                file : Files \cup {None}, ver : Nat]

TypeOK ==
  /\ row \in [Files -> RowType]
  /\ obj \in [Files -> Contents \cup {None}]
  /\ staged \in Contents \cup {None}
  /\ job \in [Files -> {"none", "queued", "completed", "failed"} \cup Workers]
  /\ api \in [Confirms -> ConfirmType]
  /\ bt \in BatchType
  /\ wk \in [Workers -> WorkerType]
  /\ sw \in [Sweeps -> SweepType]
  /\ orphaned \in BOOLEAN /\ scanOn \in BOOLEAN
  /\ lost \subseteq Confirms
  /\ faults \in 0..MaxFaults

Init ==
  /\ row = [f \in Files |-> NoRow]
  /\ obj = [f \in Files |-> None]
  /\ staged = None
  /\ job = [f \in Files |-> "none"]
  /\ \E load \in Workloads :
       /\ api = [c \in Confirms |-> [Started(c) EXCEPT !.pc = IF c \in load THEN @ ELSE "done"]]
       /\ bt = [pc |-> IF Batch \subseteq load THEN "create" ELSE "done", left |-> Batch]
  /\ wk = [w \in Workers |-> Idle]
  /\ sw = [k \in Sweeps |-> IdleSweep]
  /\ orphaned = FALSE /\ scanOn \in BOOLEAN
  /\ lost = {} /\ faults = 0

----------------------------------------------------------------------------
(* Repository operations: each is one atomic statement on the rows.        *)

Exists(f)  == row[f].status # "none"
Visible(f) == Exists(f) /\ ~row[f].deleted          \* findOne

\* Without the status in the CAS.
MatchesAnyStatus(f, from, to) == Exists(f) /\ ~row[f].deleted

\* setStatus: a CAS on the status.  A quarantine also reaches soft-deleted rows.
Matches(f, from, to) ==
  /\ row[f].status = from
  /\ ~row[f].deleted \/ (to = "REJECTED" /\ from \in {"FINALIZING", "VERIFYING"})

\* Every statement that writes a row sets its updatedAt.
Touched(f)     == [row[f] EXCEPT !.ver = @ + 1]
Written(f, to) == [Touched(f) EXCEPT !.status = to]
SetStatus(f, to) == row' = [row EXCEPT ![f] = Written(f, to)]
DropRow(f)       == row' = [row EXCEPT ![f] = NoRow]
\* deleteIfStatus(FINALIZING)
DropUnfinished(f) == IF row[f].status = "FINALIZING" THEN DropRow(f) ELSE UNCHANGED row

Wipe(f) == obj' = [obj EXCEPT ![f] = None]

\* enqueueUploadVerification: an existing job is only revived when it ended.
Ended == {"none", "completed", "failed"}
Enqueue(f) == job' = [job EXCEPT ![f] = IF @ \in Ended THEN "queued" ELSE @]

Fault == faults < MaxFaults /\ faults' = faults + 1

----------------------------------------------------------------------------
(* Clients, and the deletion of the owner (no foreign key protects a row). *)

\* Staging again once every confirm has ended changes nothing they see.
Stage(x) ==
  /\ \E c \in Confirms : api[c].pc # "done"
  /\ staged' = x
  /\ UNCHANGED <<row, obj, job, api, bt, wk, sw, orphaned, scanOn, lost, faults>>

SoftDelete(f) ==
  /\ Visible(f)
  /\ row' = [row EXCEPT ![f] = [Touched(f) EXCEPT !.deleted = TRUE]]
  /\ UNCHANGED <<obj, staged, job, api, bt, wk, sw, orphaned, scanOn, lost, faults>>

OwnerGone ==
  /\ ~orphaned /\ orphaned' = TRUE
  /\ UNCHANGED <<row, obj, staged, job, api, bt, wk, sw, scanOn, lost, faults>>

----------------------------------------------------------------------------
(* ConfirmUploadHandler.                                                   *)

Goto(c, pc) ==
  api' = [api EXCEPT ![c] = IF pc = "done" THEN [Started(c) EXCEPT !.pc = pc]
                                           ELSE [@ EXCEPT !.pc = pc]]
Recover(c, e, pc) == api' = [api EXCEPT ![c].pc = pc, ![c].target = e]
\* publication.result of a row in this status: only VERIFYING is enqueued.
Result(status) == IF status = "VERIFYING" THEN "publish" ELSE "done"
SkipInspection == IF scanOn THEN "transition" ELSE "inspect"
ApiEnv == <<bt, wk, sw, orphaned, scanOn>>

\* findBySourceKey, first in execute and again after a duplicate create.
ConfirmFind(c) ==
  /\ api[c].pc \in {"find", "refind"}
  /\ \/ /\ \A e \in Confirms : ~Visible(e)
        /\ Goto(c, IF api[c].pc = "find" THEN "head" ELSE "done")
     \/ \E e \in Confirms :
          /\ Visible(e)
          /\ Recover(c, e, CASE row[e].status = "REJECTED"   -> "done"
                             [] row[e].status = "FINALIZING" -> "rehead"
                             [] OTHER                        -> Result(row[e].status))
  /\ UNCHANGED <<row, obj, staged, job, lost, faults, ApiEnv>>

ConfirmHead(c) ==
  /\ api[c].pc = "head"
  /\ api' = [api EXCEPT ![c].meta = staged,
               ![c].pc = CASE staged = None     -> "done"
                           [] staged = "banned" -> "discard"
                           [] OTHER             -> "create"]
  /\ UNCHANGED <<row, obj, staged, job, lost, faults, ApiEnv>>

\* safeDelete of a staged object that breaks policy.
ConfirmDiscard(c) ==
  /\ api[c].pc = "discard"
  /\ staged' = None
  /\ Goto(c, "done")
  /\ UNCHANGED <<row, obj, job, lost, faults, ApiEnv>>

\* The unique constraint on sourceKey counts soft-deleted rows too.
ConfirmCreate(c) ==
  /\ api[c].pc = "create"
  /\ \/ /\ \E e \in Confirms : Exists(e)
        /\ Goto(c, "refind")
        /\ UNCHANGED row
     \/ /\ \A e \in Confirms : ~Exists(e)
        /\ row' = [row EXCEPT ![c] = [NoRow EXCEPT !.status = "FINALIZING"]]
        /\ Goto(c, "copy")
  /\ UNCHANGED <<obj, staged, job, lost, faults, ApiEnv>>

\* CopyObject with CopySourceIfMatch.  It may also fail with the copy done.
\* The copy without its ETag precondition.
CopyAnyVersion(c) == staged # None

CopyAllowed(c) == staged # None /\ staged = api[c].meta

ConfirmCopy(c) ==
  /\ api[c].pc = "copy"
  /\ \/ /\ CopyAllowed(c)
        /\ obj' = [obj EXCEPT ![c] = staged]
        /\ Goto(c, "unstage")
        /\ UNCHANGED <<lost, faults>>
     \/ /\ ~CopyAllowed(c)
        /\ Goto(c, "undo")
        /\ UNCHANGED <<obj, lost, faults>>
     \/ /\ CopyAllowed(c) /\ Fault
        /\ obj' = [obj EXCEPT ![c] = staged]
        /\ lost' = lost \cup {c}
        /\ Goto(c, "undo")
     \/ /\ Fault
        /\ Goto(c, "undo")
        /\ UNCHANGED <<obj, lost>>
  /\ UNCHANGED <<row, staged, job, ApiEnv>>

\* finalize ends by deleting the source; its failure is only logged.
ConfirmUnstage(c) ==
  /\ api[c].pc = "unstage"
  /\ \/ staged' = None /\ UNCHANGED faults
     \/ Fault /\ UNCHANGED staged
  /\ Goto(c, SkipInspection)
  /\ UNCHANGED <<row, obj, job, lost, ApiEnv>>

ConfirmUndo(c) ==
  /\ api[c].pc = "undo"
  /\ DropUnfinished(c)
  /\ Goto(c, "done")
  /\ UNCHANGED <<obj, staged, job, lost, faults, ApiEnv>>

\* recoverExisting of a FINALIZING row: 409 while the final object is absent.
ConfirmRehead(c) ==
  /\ api[c].pc = "rehead"
  /\ Goto(c, IF obj[api[c].target] = None THEN "done" ELSE SkipInspection)
  /\ UNCHANGED <<row, obj, staged, job, lost, faults, ApiEnv>>

\* completeFinalizing without a scanner: magic bytes are checked here.
ConfirmInspect(c) ==
  /\ api[c].pc = "inspect"
  /\ Goto(c, CASE obj[api[c].target] = None     -> "done"
               [] obj[api[c].target] = "forged" -> "condemn"
               [] OTHER                         -> "transition")
  /\ UNCHANGED <<row, obj, staged, job, lost, faults, ApiEnv>>

ConfirmCondemn(c) ==
  LET f == api[c].target IN
  /\ api[c].pc = "condemn"
  /\ \/ /\ Matches(f, "FINALIZING", "REJECTED")
        /\ SetStatus(f, "REJECTED")
        /\ Goto(c, "wipe")
     \/ /\ ~Matches(f, "FINALIZING", "REJECTED")
        /\ Goto(c, "done")
        /\ UNCHANGED row
  /\ UNCHANGED <<obj, staged, job, lost, faults, ApiEnv>>

ConfirmWipe(c) ==
  /\ api[c].pc = "wipe"
  /\ Wipe(api[c].target)
  /\ Goto(c, "done")
  /\ UNCHANGED <<row, staged, job, lost, faults, ApiEnv>>

PublishedStatus == IF scanOn THEN "VERIFYING" ELSE "READY"

ConfirmTransition(c) ==
  LET f == api[c].target IN
  /\ api[c].pc = "transition"
  /\ \/ /\ Matches(f, "FINALIZING", PublishedStatus)
        /\ SetStatus(f, PublishedStatus)
        /\ Goto(c, Result(PublishedStatus))
     \/ /\ ~Matches(f, "FINALIZING", PublishedStatus)
        /\ Goto(c, "reread")
        /\ UNCHANGED row
  /\ UNCHANGED <<obj, staged, job, lost, faults, ApiEnv>>

ConfirmReread(c) ==
  LET f == api[c].target IN
  /\ api[c].pc = "reread"
  /\ Goto(c, IF Visible(f) THEN Result(row[f].status) ELSE "done")
  /\ UNCHANGED <<row, obj, staged, job, lost, faults, ApiEnv>>

\* publication.result of a VERIFYING snapshot, by now perhaps out of date.
ConfirmPublish(c) ==
  /\ api[c].pc = "publish"
  /\ Enqueue(api[c].target)
  /\ Goto(c, "done")
  /\ UNCHANGED <<row, obj, staged, lost, faults, ApiEnv>>

\* A database, storage or queue call fails, or the API process dies.
ConfirmFails(c) ==
  /\ api[c].pc \notin {"find", "done"}
  /\ Fault
  /\ Goto(c, "done")
  /\ UNCHANGED <<row, obj, staged, job, lost, ApiEnv>>

ConfirmStep(c) ==
  \/ ConfirmFind(c) \/ ConfirmHead(c) \/ ConfirmDiscard(c) \/ ConfirmCreate(c)
  \/ ConfirmCopy(c) \/ ConfirmUnstage(c) \/ ConfirmUndo(c) \/ ConfirmRehead(c)
  \/ ConfirmInspect(c) \/ ConfirmCondemn(c) \/ ConfirmWipe(c)
  \/ ConfirmTransition(c) \/ ConfirmReread(c) \/ ConfirmPublish(c)

----------------------------------------------------------------------------
(* UploadFilesHandler: all rows first, the objects one by one, one publish. *)

AtBatch(pc) == bt.pc = pc
BatchTo(pc) == bt' = [pc |-> pc, left |-> Batch]
BatchEnv == <<staged, api, wk, sw, orphaned, scanOn, lost>>

BatchCreate ==
  /\ AtBatch("create") /\ Batch # {}
  /\ row' = [f \in Files |-> IF f \in Batch THEN [NoRow EXCEPT !.status = "FINALIZING"]
                                            ELSE row[f]]
  /\ BatchTo("upload")
  /\ UNCHANGED <<obj, job, faults, BatchEnv>>

\* uploadStream of one part; saveFile has checked its magic bytes and size.
BatchUpload(f, x) ==
  /\ AtBatch("upload") /\ f \in bt.left
  /\ x \in Contents \ {"forged", "banned"}
  /\ \/ /\ obj' = [obj EXCEPT ![f] = x]
        /\ bt' = IF bt.left = {f} THEN [pc |-> "publish", left |-> Batch]
                                  ELSE [bt EXCEPT !.left = @ \ {f}]
        /\ UNCHANGED faults
     \/ /\ Fault       \* aborted or failed, before or after the object landed
        /\ obj' \in {obj, [obj EXCEPT ![f] = x]}
        /\ BatchTo("wipe")
  /\ UNCHANGED <<row, job, BatchEnv>>

\* cleanup: object first, then the row; a failure goes on with the next file.
BatchNext(f) == bt' = IF bt.left = {f} THEN [pc |-> "done", left |-> Batch]
                                       ELSE [pc |-> "wipe", left |-> bt.left \ {f}]
BatchWipe(f) ==
  /\ AtBatch("wipe") /\ f = (CHOOSE g \in bt.left : TRUE)
  /\ \/ /\ Wipe(f)
        /\ bt' = [bt EXCEPT !.pc = "drop"]
        /\ UNCHANGED faults
     \/ Fault /\ BatchNext(f) /\ UNCHANGED obj
  /\ UNCHANGED <<row, job, BatchEnv>>

BatchDrop(f) ==
  /\ AtBatch("drop") /\ f = (CHOOSE g \in bt.left : TRUE)
  /\ \/ DropUnfinished(f) /\ UNCHANGED faults
     \/ Fault /\ UNCHANGED row
  /\ BatchNext(f)
  /\ UNCHANGED <<obj, job, BatchEnv>>

\* publishBatch: the transaction rolls back unless every row still matches.
Publishable(f) == Matches(f, "FINALIZING", PublishedStatus)
\* updateMany without the check of its count.
PublishWhatMatches ==
  /\ AtBatch("publish")
  /\ row' = [f \in Files |-> IF f \in Batch /\ Publishable(f)
                                THEN Written(f, PublishedStatus) ELSE row[f]]
  /\ BatchTo("done")
  /\ UNCHANGED <<obj, job, faults, BatchEnv>>

BatchPublish ==
  /\ AtBatch("publish")
  /\ \/ /\ \A f \in Batch : Publishable(f)
        /\ row' = [f \in Files |-> IF f \in Batch THEN Written(f, PublishedStatus) ELSE row[f]]
        /\ BatchTo(IF scanOn THEN "dispatch" ELSE "done")
     \/ /\ \E f \in Batch : ~Publishable(f)
        /\ BatchTo("done")
        /\ UNCHANGED row
  /\ UNCHANGED <<obj, job, faults, BatchEnv>>

BatchDispatch(f) ==
  /\ AtBatch("dispatch") /\ f \in bt.left
  /\ \/ Enqueue(f) /\ UNCHANGED faults
     \/ Fault /\ UNCHANGED job
  /\ bt' = IF bt.left = {f} THEN [pc |-> "done", left |-> Batch]
                            ELSE [bt EXCEPT !.left = @ \ {f}]
  /\ UNCHANGED <<row, obj, BatchEnv>>

\* publishBatch throws outside the try block, or the API process dies.
BatchFails ==
  /\ bt.pc \notin {"create", "done"}
  /\ Fault
  /\ BatchTo("done")
  /\ UNCHANGED <<row, obj, job, BatchEnv>>

BatchStep ==
  \/ BatchCreate \/ BatchPublish
  \/ \E f \in Batch : \/ \E x \in Contents : BatchUpload(f, x)
                      \/ BatchWipe(f) \/ BatchDrop(f) \/ BatchDispatch(f)

----------------------------------------------------------------------------
(* Verification: the recovery cron and a status poll re-enqueue, BullMQ    *)
(* hands the job to a worker slot, VerifyUploadHandler runs in it.         *)

Redispatch(f) ==
  /\ Visible(f) /\ row[f].status = "VERIFYING"
  /\ job[f] \in Ended
  /\ Enqueue(f)
  /\ UNCHANGED <<row, obj, staged, api, bt, wk, sw, orphaned, scanOn, lost, faults>>

WorkerEnv == <<staged, api, bt, sw, orphaned, scanOn, lost>>
WorkerTo(w, pc) == wk' = [wk EXCEPT ![w].pc = pc]

\* The slot is free again; the job moves only if the slot still owns it.
JobEnds(w, result) ==
  /\ wk' = [wk EXCEPT ![w] = Idle]
  /\ job' = [f \in Files |-> IF job[f] = w THEN result ELSE job[f]]

Take(w, f) ==
  /\ wk[w].pc = "idle" /\ job[f] = "queued"
  /\ wk' = [wk EXCEPT ![w] = [pc |-> "inspect", file |-> f]]
  /\ job' = [job EXCEPT ![f] = w]
  /\ UNCHANGED <<row, obj, faults, WorkerEnv>>

\* Magic bytes, then the scanner's verdict.  An absent object makes the read
\* throw: the attempt fails and is retried until the attempts are used up.
Inspect(w) ==
  LET x == obj[wk[w].file] IN
  /\ wk[w].pc = "inspect"
  /\ \/ x = None /\ \E result \in {"queued", "failed"} : JobEnds(w, result)
     \/ x \in {"forged", "infected"} /\ WorkerTo(w, "reject") /\ UNCHANGED job
     \/ x \in {"clean", "huge", "banned"} /\ WorkerTo(w, "flip") /\ UNCHANGED job
  /\ UNCHANGED <<row, obj, faults, WorkerEnv>>

\* The scanner's word instead of the recorded outcome.
RawVerdict(x) == IF x = "huge" THEN "unscannable" ELSE "clean"

Verdict(x) == IF x = "huge" THEN "SKIPPED_TOO_LARGE" ELSE "CLEAN"

Flip(w) ==
  LET f == wk[w].file IN
  /\ wk[w].pc = "flip"
  /\ row' = IF Matches(f, "VERIFYING", "READY")
              THEN [row EXCEPT ![f] = [Written(f, "READY") EXCEPT !.scan = Verdict(obj[f])]]
              ELSE row
  /\ JobEnds(w, "completed")
  /\ UNCHANGED <<obj, faults, WorkerEnv>>

Reject(w) ==
  LET f == wk[w].file IN
  /\ wk[w].pc = "reject"
  /\ \/ /\ Matches(f, "VERIFYING", "REJECTED")
        /\ SetStatus(f, "REJECTED")
        /\ WorkerTo(w, "wipe")
     \/ /\ ~Matches(f, "VERIFYING", "REJECTED")
        /\ WorkerTo(w, "recheck")
        /\ UNCHANGED row
  /\ UNCHANGED <<obj, job, faults, WorkerEnv>>

\* The claim failed: a row rejected before still gets its object deleted.
Recheck(w) ==
  LET f == wk[w].file IN
  /\ wk[w].pc = "recheck"
  /\ IF Visible(f) /\ row[f].status = "REJECTED"
       THEN WorkerTo(w, "wipe") /\ UNCHANGED job
       ELSE JobEnds(w, "completed")
  /\ UNCHANGED <<row, obj, faults, WorkerEnv>>

WorkerWipe(w) ==
  /\ wk[w].pc = "wipe"
  /\ Wipe(wk[w].file)
  /\ JobEnds(w, "completed")
  /\ UNCHANGED <<row, faults, WorkerEnv>>

\* A database, storage or scanner call throws.
WorkerFails(w) ==
  /\ wk[w].pc # "idle" /\ Fault
  /\ \E result \in {"queued", "failed"} : JobEnds(w, result)
  /\ UNCHANGED <<row, obj, WorkerEnv>>

\* The job's lock expires: another slot may take it, while w is dead or runs on.
Stall(w) ==
  /\ wk[w].pc # "idle" /\ Fault
  /\ job' = [f \in Files |-> IF job[f] = w THEN "queued" ELSE job[f]]
  /\ wk' \in {wk, [wk EXCEPT ![w] = Idle]}
  /\ UNCHANGED <<row, obj, WorkerEnv>>

WorkerStep(w) ==
  \/ Inspect(w) \/ Flip(w) \/ Reject(w) \/ Recheck(w) \/ WorkerWipe(w)
  \/ \E f \in Files : Take(w, f)

----------------------------------------------------------------------------
(* StoredFileCleanupTask.  The age conditions appear as what they promise: *)
(* a FINALIZING, orphaned or deleted row waits until its creator has ended.*)

SweepEnv == <<staged, job, api, bt, wk, orphaned, scanOn, lost>>
SweepTo(k, pc) == sw' = [sw EXCEPT ![k].pc = pc]
SweepEnds(k)   == sw' = [sw EXCEPT ![k] = IdleSweep]

\* No grace period.
NeverInFlight(f) == FALSE

InFlight(f) == IF f \in Batch THEN bt.pc \notin {"create", "done"}
                              ELSE api[f].pc \notin {"find", "done"}
\* No scan for stale FINALIZING rows.
StaleButFinalizing(k, f) ==
  \/ k = "cleanup" /\ row[f].status \in {"REJECTED", "VERIFYING"}
  \/ k = "orphan"  /\ orphaned /\ Exists(f) /\ ~InFlight(f)
  \/ k = "purge"   /\ row[f].deleted /\ ~InFlight(f)

Stale(k, f) ==
  \/ k = "cleanup" /\ row[f].status \in {"REJECTED", "VERIFYING"}
  \/ k = "cleanup" /\ row[f].status = "FINALIZING" /\ ~InFlight(f)
  \/ k = "orphan"  /\ orphaned /\ Exists(f) /\ ~InFlight(f)
  \/ k = "purge"   /\ row[f].deleted /\ ~InFlight(f)

\* The scan; the purge goes straight to the object, the others claim the row,
\* and look for the object of an unverified one before.
Scan(k, f) ==
  /\ sw[k].pc = "idle" /\ Stale(k, f)
  /\ sw' = [sw EXCEPT ![k] =
              [file |-> f, ver |-> row[f].ver,
               pc |-> CASE k = "purge" -> "wipe"
                        [] k # "purge" /\ row[f].status \in {"FINALIZING", "VERIFYING"} -> "head"
                        [] OTHER -> "claim"]]
  /\ UNCHANGED <<row, obj, faults, SweepEnv>>

\* confirmUnverifiedObject: present or absent, the claim follows; only an error
\* (SweepFails) spares the row.
SweepHead(k) ==
  /\ sw[k].pc = "head"
  /\ SweepTo(k, "claim")
  /\ UNCHANGED <<row, obj, faults, SweepEnv>>

\* A claim by id only.
StillThere(k) == Exists(sw[k].file)

\* The claim is a CAS on the status and updatedAt that the scan read.
Unchanged(k) == Exists(sw[k].file) /\ row[sw[k].file].ver = sw[k].ver

Claim(k) ==
  /\ sw[k].pc = "claim"
  /\ \/ /\ Unchanged(k)
        /\ SetStatus(sw[k].file, "REJECTED")
        /\ SweepTo(k, "wipe")
     \/ /\ ~Unchanged(k)
        /\ SweepEnds(k)
        /\ UNCHANGED row
  /\ UNCHANGED <<obj, faults, SweepEnv>>

SweepWipe(k) ==
  /\ sw[k].pc = "wipe"
  /\ Wipe(sw[k].file)
  /\ SweepTo(k, "drop")
  /\ UNCHANGED <<row, faults, SweepEnv>>

SweepDrop(k) ==
  /\ sw[k].pc = "drop"
  /\ DropRow(sw[k].file)
  /\ SweepEnds(k)
  /\ UNCHANGED <<obj, faults, SweepEnv>>

SweepFails(k) ==
  /\ sw[k].pc # "idle" /\ Fault
  /\ SweepEnds(k)
  /\ UNCHANGED <<row, obj, SweepEnv>>

SweepStep(k) == SweepHead(k) \/ Claim(k) \/ SweepWipe(k) \/ SweepDrop(k)

----------------------------------------------------------------------------
Next ==
  \/ \E x \in Contents : Stage(x)
  \/ OwnerGone
  \/ \E c \in Confirms : ConfirmStep(c) \/ ConfirmFails(c)
  \/ BatchStep \/ BatchFails
  \/ \E f \in Files : SoftDelete(f) \/ Redispatch(f)
  \/ \E w \in Workers : WorkerStep(w) \/ WorkerFails(w) \/ Stall(w)
  \/ \E k \in Sweeps : SweepStep(k) \/ SweepFails(k) \/ \E f \in Files : Scan(k, f)

Spec == Init /\ [][Next]_vars

\* The event loop goes on with every request that began, workers and crons keep
\* running.  Failures are finitely many (MaxFaults), and clients owe nothing.
Fairness ==
  /\ \A c \in Confirms : WF_vars(api[c].pc # "find" /\ ConfirmStep(c))
  /\ WF_vars(bt.pc # "create" /\ BatchStep)
  /\ \A w \in Workers : WF_vars(WorkerStep(w))
  /\ \A k \in Sweeps : WF_vars(SweepStep(k))
  /\ \A f \in Files : WF_vars(Redispatch(f))
  /\ \A k \in Sweeps \ {"orphan"}, f \in Files : WF_vars(Scan(k, f))

FairSpec == Spec /\ Fairness

----------------------------------------------------------------------------
(* A file has one writer, the request that creates its row and stores its  *)
(* object: before it creates the row, while it writes the object, after.   *)

Unborn(f) ==
  IF f \in Batch THEN bt.pc = "create"
  ELSE api[f].pc \in {"find", "head", "discard", "create", "refind", "rehead"}
Writing(f) == IF f \in Batch THEN bt.pc = "upload" ELSE api[f].pc = "copy"
WriterOver(f) == ~Unborn(f) /\ ~Writing(f)

----------------------------------------------------------------------------
(* Properties.                                                             *)

\* A READY row that is not deleted always has its object, and the object passed
\* the policy, the magic bytes and (with a scanner) the scan recorded in the row,
\* however confirms, duplicate jobs and sweeps interleave
\* (verify-upload.handler.ts, confirm-upload.handler.ts, stored-file-cleanup.task.ts).
ServedFilesPassedTheChecks ==
  \A f \in Files : Visible(f) /\ row[f].status = "READY" =>
    /\ obj[f] \notin {None, "forged", "banned"}
    /\ scanOn => obj[f] # "infected" /\ row[f].scan = Verdict(obj[f])

\* An object outlives its row only after a copy whose reply was lost: every other
\* path deletes the object first and the row second (stored-file-cleanup.task.ts,
\* "the reverse order would drop the only pointer to the object").
OrphansOnlyAfterLostCopy ==
  \A f \in Files : obj[f] # None /\ ~Exists(f) => f \in lost

\* No step skips VERIFYING when the scanner is on, and nothing leaves REJECTED but
\* the deletion of the row ("can never skip a step or resurrect a rejected object",
\* stored-file.entity.ts).
LegalMoves ==
  {<<"FINALIZING", PublishedStatus>>, <<"VERIFYING", "READY">>} \cup
  ((Statuses \ {"none"}) \X {"REJECTED"})

StatusOnlyAdvances ==
  [][\A f \in Files :
       Exists(f) /\ row'[f].status \notin {"none", row[f].status} =>
         <<row[f].status, row'[f].status>> \in LegalMoves]_vars

\* A file that was READY stays READY until its user deletes it or its owner is gone:
\* a sweep or a late job that read an older row never takes it back
\* (reclaimCandidate's CAS on updatedAt, stored-file-cleanup.task.ts).
ReadyFileIsKept ==
  [][\A f \in Files :
       row[f].status = "READY" /\ ~row[f].deleted /\ ~orphaned
         => row'[f].status = "READY"]_vars

\* A multipart request publishes all of its files or none: no client ever finds one
\* part past FINALIZING and another still in it, whichever of them was soft-deleted
\* or failed meanwhile (publishBatch, prisma-stored-file.repository.ts).
BatchIsAllOrNothing ==
  \A f, g \in Batch :
    row[f].status \in {"VERIFYING", "READY"} => row[g].status # "FINALIZING"

\* All that confirms, workers and sweeps do to a file amounts to what its users are
\* promised (UploadPromise): the files of a request are published together, only what
\* passed the checks is served, and its content never changes under a reader, however
\* the compare-and-sets of these processes race (transition, publishBatch).
UserStatus(f) ==
  CASE Unborn(f)                                  -> "absent"
    [] ~Unborn(f) /\ ~Visible(f)                  -> "gone"
    [] Visible(f) /\ row[f].status = "FINALIZING" -> "arriving"
    [] Visible(f) /\ row[f].status = "VERIFYING"  -> "verifying"
    [] Visible(f) /\ row[f].status = "READY"      -> "served"
    [] Visible(f) /\ row[f].status = "REJECTED"   -> "refused"

Shown(f) == IF UserStatus(f) = "served"
            THEN {<<obj[f], IF scanOn THEN row[f].scan ELSE "none">>} ELSE {}

Promise == INSTANCE UploadPromise WITH
             Requests <- {{c} : c \in Confirms} \cup {Batch},
             Checked  <- (Contents \ {"forged", "banned"}) \X {"none"},
             Scanned  <- {<<x, Verdict(x)>> : x \in Contents \ {"forged", "banned", "infected"}},
             status   <- [f \in Files |-> UserStatus(f)],
             content  <- [f \in Files |-> Shown(f)]
PublishesAsPromised == Promise!Spec

\* No upload stays unverified and no rejected or deleted row stays behind, whatever
\* fails on the way: retries, the recovery cron and the sweeps finish it.
EveryFileSettles ==
  \A f \in Files : (Exists(f) /\ (row[f].status # "READY" \/ row[f].deleted))
                     ~> (~Exists(f) \/ (row[f].status = "READY" /\ ~row[f].deleted))

----------------------------------------------------------------------------
(* The inductive invariant of StoredFiles_proofs.                         *)

\* Nothing publishes the row any more, and whoever wipes its object saw to that.
Condemned(f) == row[f].deleted \/ row[f].status \in {"none", "REJECTED"}

Stored(f) == f \in Batch /\ bt.pc = "upload" /\ f \notin bt.left

\* A row exists from the writer's create on, an object from its copy or upload; a
\* verified or published one is there for as long as the row may be served.
FileInv(f) ==
  /\ Unborn(f) => row[f] = NoRow
  /\ Writing(f) => row[f].status = "FINALIZING"
  /\ ~WriterOver(f) => (obj[f] # None <=> Stored(f))
  /\ job[f] # "none" => WriterOver(f)
  /\ obj[f] # "banned" /\ (f \in Batch => obj[f] # "forged")
  /\ row[f].status \in {"VERIFYING", "READY"} /\ ~row[f].deleted => obj[f] # None

\* A confirm works on its own file until it recovers another's, whose writer is
\* over by then.  What it saw of the object still holds, or its CAS will fail.
ConfirmInv(c) ==
  /\ api[c].pc \in {"find", "head", "discard", "create", "refind", "copy", "unstage", "undo"}
       => api[c].target = c
  /\ api[c].pc \in {"create", "copy"} => api[c].meta \notin {None, "banned"}
  /\ api[c].pc \in {"inspect", "condemn", "wipe", "transition", "reread", "publish"}
       => WriterOver(api[c].target)
  /\ api[c].pc = "undo" => obj[c] = None \/ c \in lost
  /\ api[c].pc = "wipe" => Condemned(api[c].target)
  /\ api[c].pc \in {"unstage", "transition"}
       => obj[api[c].target] # None \/ Condemned(api[c].target)
  /\ api[c].pc = "transition" /\ ~scanOn => obj[api[c].target] # "forged"

BatchInv ==
  \A f \in Batch :
    /\ bt.pc \in {"publish", "wipe", "drop"} => row[f].status \notin {"VERIFYING", "READY"}
    /\ bt.pc = "publish" => obj[f] # None \/ Condemned(f)
    /\ bt.pc = "drop" /\ f = (CHOOSE g \in bt.left : TRUE) => obj[f] = None

WorkerInv(w) == wk[w].pc # "idle" =>
  /\ wk[w].file \in Files /\ WriterOver(wk[w].file)
  /\ wk[w].pc = "flip" => obj[wk[w].file] \notin {"forged", "infected"}
  /\ wk[w].pc = "wipe" => Condemned(wk[w].file)

\* A claim matches only the row that was scanned, and a scan passes over READY rows
\* unless their owner is gone; the object goes before the row.
SweepInv(k) == sw[k].pc # "idle" =>
  /\ sw[k].file \in Files /\ WriterOver(sw[k].file)
  /\ sw[k].pc \in {"head", "claim"} /\ Exists(sw[k].file) =>
       /\ sw[k].ver <= row[sw[k].file].ver
       /\ sw[k].ver = row[sw[k].file].ver => row[sw[k].file].status # "READY" \/ orphaned
  /\ sw[k].pc \in {"wipe", "drop"} => Condemned(sw[k].file)
  /\ sw[k].pc = "drop" => obj[sw[k].file] = None

IInv ==
  /\ TypeOK
  /\ \A f \in Files : FileInv(f)
  /\ \A c \in Confirms : ConfirmInv(c)
  /\ BatchInv
  /\ \A w \in Workers : WorkerInv(w)
  /\ \A k \in Sweeps : SweepInv(k)
  /\ ServedFilesPassedTheChecks /\ OrphansOnlyAfterLostCopy /\ BatchIsAllOrNothing
=============================================================================
