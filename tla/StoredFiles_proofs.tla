-------------------------- MODULE StoredFiles_proofs --------------------------
(***************************************************************************)
(* Proofs about StoredFiles for any confirms, batch, workers, sweeps and   *)
(* number of faults.  Every step is first reduced to what it does to one   *)
(* file: to its row (RowMoves), its object (ObjectMoves) and its writer    *)
(* (WriterMoves).  What other processes rely on is stable under these      *)
(* moves, so that a step's own process is all that is left to look at.     *)
(***************************************************************************)
EXTENDS StoredFiles, TLAPS

USE DEF Files

(***************************************************************************)
(* Types.                                                                  *)
(***************************************************************************)

\* The initial state is well typed.
LEMMA InitTyped == Init => TypeOK
<1> SUFFICES ASSUME Init PROVE TypeOK
  OBVIOUS
<1>1. row \in [Files -> RowType]
  BY DEF Init, NoRow, RowType, Statuses
<1>2. PICK load \in Workloads :
        /\ api = [c \in Confirms |-> [Started(c) EXCEPT !.pc = IF c \in load THEN @ ELSE "done"]]
        /\ bt = [pc |-> IF Batch \subseteq load THEN "create" ELSE "done", left |-> Batch]
  BY DEF Init
<1>3. api \in [Confirms -> ConfirmType]
  BY <1>2 DEF Started, ConfirmType, ConfirmPlaces
<1>4. bt \in BatchType
  BY <1>2 DEF BatchType
<1>5. wk \in [Workers -> WorkerType]
  BY DEF Init, WorkerType, Idle
<1>6. sw \in [Sweeps -> SweepType]
  BY DEF Init, SweepType, IdleSweep
<1>7. /\ obj \in [Files -> Contents \cup {None}] /\ staged \in Contents \cup {None}
      /\ job \in [Files -> {"none", "queued", "completed", "failed"} \cup Workers]
      /\ orphaned \in BOOLEAN /\ scanOn \in BOOLEAN /\ lost \subseteq Confirms
  BY DEF Init
<1>8. faults \in 0..MaxFaults
  BY ConstantsAssumption DEF Init, ConstantsAssumption
<1> QED
  BY <1>1, <1>3, <1>4, <1>5, <1>6, <1>7, <1>8 DEF TypeOK

Fresh      == [NoRow EXCEPT !.status = "FINALIZING"]
Deleted(f) == [Touched(f) EXCEPT !.deleted = TRUE]
Flipped(f) == [Written(f, "READY") EXCEPT !.scan = Verdict(obj[f])]

\* What a statement leaves in a row, field by field.
LEMMA RowFields ==
  ASSUME TypeOK, NEW f \in Files, NEW to \in Statuses
  PROVE  /\ row[f] \in RowType /\ NoRow \in RowType /\ Fresh \in RowType
         /\ NoRow.status = "none" /\ ~NoRow.deleted
         /\ Fresh.status = "FINALIZING" /\ ~Fresh.deleted
         /\ Written(f, to) \in RowType
         /\ Written(f, to).status = to /\ Written(f, to).deleted = row[f].deleted
         /\ Written(f, to).scan = row[f].scan /\ Written(f, to).ver = row[f].ver + 1
         /\ Deleted(f) \in RowType
         /\ Deleted(f).status = row[f].status /\ Deleted(f).deleted
         /\ Deleted(f).ver = row[f].ver + 1
         /\ Flipped(f) \in RowType
         /\ Flipped(f).status = "READY" /\ Flipped(f).deleted = row[f].deleted
         /\ Flipped(f).scan = Verdict(obj[f]) /\ Flipped(f).ver = row[f].ver + 1
<1>1. row[f] \in RowType
  BY DEF TypeOK
<1>2. /\ NoRow \in RowType /\ Fresh \in RowType
      /\ NoRow.status = "none" /\ ~NoRow.deleted
      /\ Fresh.status = "FINALIZING" /\ ~Fresh.deleted
  BY DEF RowType, NoRow, Statuses, Fresh
<1>3. /\ Touched(f) \in RowType /\ Touched(f).status = row[f].status
      /\ Touched(f).deleted = row[f].deleted /\ Touched(f).scan = row[f].scan
      /\ Touched(f).ver = row[f].ver + 1
  BY <1>1 DEF RowType, Touched
<1>4. ASSUME NEW s \in Statuses
      PROVE  /\ Written(f, s) \in RowType
             /\ Written(f, s).status = s /\ Written(f, s).deleted = row[f].deleted
             /\ Written(f, s).scan = row[f].scan /\ Written(f, s).ver = row[f].ver + 1
  BY <1>3 DEF RowType, Written
<1>5. /\ Deleted(f) \in RowType
      /\ Deleted(f).status = row[f].status /\ Deleted(f).deleted
      /\ Deleted(f).ver = row[f].ver + 1
  BY <1>3 DEF RowType, Deleted
<1>6. "READY" \in Statuses
  BY DEF Statuses
<1>7. Written(f, "READY") \in RowType
  BY <1>4, <1>6
<1>8. /\ Flipped(f) \in RowType
      /\ Flipped(f).status = Written(f, "READY").status
      /\ Flipped(f).deleted = Written(f, "READY").deleted
      /\ Flipped(f).scan = Verdict(obj[f])
      /\ Flipped(f).ver = Written(f, "READY").ver
  BY <1>7 DEF RowType, Flipped, Verdict
<1> QED
  BY <1>1, <1>2, <1>3, <1>4, <1>5, <1>6, <1>8

\* A statement keeps the table of rows well typed, whatever it is about.
LEMMA RowTyped ==
  ASSUME TypeOK, NEW f \in Files \cup {None}, NEW to \in Statuses
  PROVE  /\ SetStatus(f, to) => row' \in [Files -> RowType]
         /\ DropRow(f) => row' \in [Files -> RowType]
         /\ DropUnfinished(f) => row' \in [Files -> RowType]
<1>1. row \in [Files -> RowType]
  BY DEF TypeOK
<1>2. None \notin Files
  BY ConstantsAssumption DEF ConstantsAssumption
<1> QED
  BY <1>1, <1>2, RowFields DEF SetStatus, DropRow, DropUnfinished

\* A fault is counted up to its bound.
LEMMA FaultTyped == TypeOK /\ Fault => faults' \in 0..MaxFaults
  BY ConstantsAssumption DEF ConstantsAssumption, TypeOK, Fault

\* What a process points at is a file, or none.
LEMMA FilesTyped ==
  ASSUME TypeOK
  PROVE  /\ \A c \in Confirms : api[c] \in ConfirmType /\ api[c].target \in Confirms
         /\ \A w \in Workers : wk[w] \in WorkerType /\ wk[w].file \in Files \cup {None}
         /\ \A k \in Sweeps : sw[k] \in SweepType /\ sw[k].file \in Files \cup {None}
                              /\ sw[k].ver \in Nat
         /\ bt.left \subseteq Batch
  BY DEF TypeOK, ConfirmType, WorkerType, SweepType, BatchType

\* Where a confirm goes is a place it can be in.
LEMMA GotoTyped ==
  ASSUME TypeOK, NEW c \in Confirms, NEW pc \in ConfirmPlaces, Goto(c, pc)
  PROVE  api' \in [Confirms -> ConfirmType]
  BY DEF TypeOK, Goto, Started, ConfirmType

\* What a confirm notes of itself on the way.
LEMMA ConfirmNotes ==
  ASSUME TypeOK, NEW c \in Confirms, NEW pc \in ConfirmPlaces
  PROVE  /\ \A e \in Confirms : [api[c] EXCEPT !.pc = pc, !.target = e] \in ConfirmType
         /\ [api[c] EXCEPT !.meta = staged, !.pc = pc] \in ConfirmType
<1>1. api[c] \in ConfirmType /\ staged \in Contents \cup {None}
  BY DEF TypeOK
<1>2. \A e \in Confirms : [api[c] EXCEPT !.pc = pc, !.target = e] \in ConfirmType
  BY <1>1 DEF ConfirmType
<1>3. [api[c] EXCEPT !.meta = staged, !.pc = pc] \in ConfirmType
  BY <1>1 DEF ConfirmType
<1> QED BY <1>2, <1>3

\* A confirm keeps the types.
LEMMA ConfirmTyped ==
  ASSUME TypeOK, NEW c \in Confirms, ConfirmStep(c) \/ ConfirmFails(c)
  PROVE  TypeOK'
<1> USE DEF ApiEnv, ConfirmPlaces
<1>1. CASE ConfirmFind(c)
  <2>1. CASE \E pc \in ConfirmPlaces : Goto(c, pc)
    <3>1. api' \in [Confirms -> ConfirmType]  BY <2>1, GotoTyped
    <3>2. UNCHANGED <<row, obj, staged, job, lost, faults, ApiEnv>>
      BY <1>1 DEF ConfirmFind
    <3> QED  BY <3>1, <3>2 DEF TypeOK
  <2>2. ASSUME NEW e \in Confirms, NEW pc \in ConfirmPlaces, Recover(c, e, pc)
        PROVE  api' \in [Confirms -> ConfirmType]
    <3>1. [api[c] EXCEPT !.pc = pc, !.target = e] \in ConfirmType
      BY ConfirmNotes
    <3>2. /\ DOMAIN api' = Confirms /\ api' = [d \in Confirms |-> api'[d]]
          /\ \A d \in Confirms \ {c} : api'[d] = api[d]
      BY <2>2 DEF TypeOK, Recover
    <3>3. api'[c] = [api[c] EXCEPT !.pc = pc, !.target = e]
      BY <2>2 DEF TypeOK, Recover
    <3> QED BY <3>1, <3>2, <3>3 DEF TypeOK
  <2> QED
    BY <1>1, <2>1, <2>2 DEF TypeOK, ConfirmFind, Result
<1>2. CASE ConfirmHead(c)
  <2> DEFINE next == CASE staged = None     -> "done"
                       [] staged = "banned" -> "discard"
                       [] OTHER             -> "create"
  <2>1. api' = [api EXCEPT ![c].meta = staged, ![c].pc = next]
    BY <1>2 DEF ConfirmHead
  <2>2. next \in ConfirmPlaces
    OBVIOUS
  <2> HIDE DEF next
  <2>3. api' \in [Confirms -> ConfirmType]
    <3>1. [api[c] EXCEPT !.meta = staged, !.pc = next] \in ConfirmType
      BY <2>2, ConfirmNotes
    <3>2. /\ DOMAIN api' = Confirms /\ api' = [d \in Confirms |-> api'[d]]
          /\ \A d \in Confirms \ {c} : api'[d] = api[d]
      BY <2>1 DEF TypeOK
    <3>3. api'[c] = [api[c] EXCEPT !.meta = staged, !.pc = next]
      BY <2>1 DEF TypeOK
    <3> QED BY <3>1, <3>2, <3>3 DEF TypeOK
  <2> QED
    BY <1>2, <2>3 DEF TypeOK, ConfirmHead
<1>3. CASE ConfirmDiscard(c)
  BY <1>3, GotoTyped, FaultTyped, FilesTyped DEF TypeOK, ConfirmDiscard
<1>4. CASE ConfirmCreate(c)
  <2>1. Fresh \in RowType
    BY DEF Fresh, NoRow, RowType, Statuses
  <2>2. row' = row \/ row' = [row EXCEPT ![c] = Fresh]
    BY <1>4 DEF ConfirmCreate, Fresh
  <2>3. row' \in [Files -> RowType]
    BY <2>1, <2>2 DEF TypeOK
  <2>4. api' \in [Confirms -> ConfirmType]
    BY <1>4, GotoTyped DEF ConfirmCreate
  <2> QED
    BY <1>4, <2>3, <2>4 DEF TypeOK, ConfirmCreate
<1>5. CASE ConfirmCopy(c)
  BY <1>5, GotoTyped, FaultTyped, FilesTyped DEF TypeOK, ConfirmCopy
<1>6. CASE ConfirmUnstage(c)
  BY <1>6, GotoTyped, FaultTyped, FilesTyped DEF TypeOK, ConfirmUnstage, SkipInspection
<1>7. CASE ConfirmUndo(c)
  BY <1>7, GotoTyped, FaultTyped, FilesTyped, RowTyped DEF TypeOK, ConfirmUndo, Statuses
<1>8. CASE ConfirmRehead(c)
  BY <1>8, GotoTyped, FaultTyped, FilesTyped DEF TypeOK, ConfirmRehead, SkipInspection
<1>9. CASE ConfirmInspect(c)
  BY <1>9, GotoTyped, FaultTyped, FilesTyped DEF TypeOK, ConfirmInspect
<1>10. CASE ConfirmCondemn(c)
  BY <1>10, GotoTyped, FaultTyped, FilesTyped, RowTyped DEF TypeOK, ConfirmCondemn, Statuses
<1>11. CASE ConfirmWipe(c)
  BY <1>11, GotoTyped, FaultTyped, FilesTyped DEF TypeOK, ConfirmWipe, Wipe
<1>12. CASE ConfirmTransition(c)
  BY <1>12, GotoTyped, FaultTyped, FilesTyped, RowTyped
     DEF TypeOK, ConfirmTransition, Statuses, PublishedStatus, Result
<1>13. CASE ConfirmReread(c)
  BY <1>13, GotoTyped, FaultTyped, FilesTyped DEF TypeOK, ConfirmReread, Result
<1>14. CASE ConfirmPublish(c)
  BY <1>14, GotoTyped, FaultTyped, FilesTyped DEF TypeOK, ConfirmPublish, Enqueue
<1>15. CASE ConfirmFails(c)
  BY <1>15, GotoTyped, FaultTyped, FilesTyped DEF TypeOK, ConfirmFails
<1> QED
  BY <1>1, <1>2, <1>3, <1>4, <1>5, <1>6, <1>7, <1>8, <1>9, <1>10, <1>11, <1>12, <1>13, <1>14,
     <1>15 DEF ConfirmStep

\* The multipart request keeps the types.
LEMMA BatchTyped ==
  ASSUME TypeOK, BatchStep \/ BatchFails
  PROVE  TypeOK'
<1> USE DEF BatchEnv
<1>0. /\ \A pc \in {"upload", "done", "dispatch"} : BatchTo(pc) => bt' \in BatchType
      /\ BatchTo("wipe") => bt' \in BatchType
      /\ \A f \in Batch : BatchNext(f) => bt' \in BatchType
      /\ bt \in BatchType /\ bt.left \subseteq Batch
  BY DEF TypeOK, BatchType, BatchTo, BatchNext
<1>1. CASE BatchCreate
  BY <1>0, <1>1, RowFields DEF TypeOK, BatchCreate, Fresh, Statuses
<1>2. ASSUME NEW f \in Batch, NEW x \in Contents, BatchUpload(f, x) PROVE TypeOK'
  <2>1. bt' \in BatchType
    BY <1>0, <1>2 DEF BatchUpload, BatchType
  <2> QED
    BY <1>2, <2>1, FaultTyped DEF TypeOK, BatchUpload
<1>3. ASSUME NEW f \in Batch, BatchWipe(f) PROVE TypeOK'
  <2>1. bt' \in BatchType
    BY <1>0, <1>3 DEF BatchWipe, BatchType
  <2> QED
    BY <1>3, <2>1, FaultTyped DEF TypeOK, BatchWipe, Wipe
<1>4. ASSUME NEW f \in Batch, BatchDrop(f) PROVE TypeOK'
  BY <1>0, <1>4, RowTyped, FaultTyped DEF TypeOK, BatchDrop, Statuses
<1>5. CASE BatchPublish
  BY <1>0, <1>5, RowFields DEF TypeOK, BatchPublish, PublishedStatus, Statuses
<1>6. ASSUME NEW f \in Batch, BatchDispatch(f) PROVE TypeOK'
  <2>1. bt' \in BatchType
    BY <1>0, <1>6 DEF BatchDispatch, BatchType
  <2> QED
    BY <1>6, <2>1, FaultTyped DEF TypeOK, BatchDispatch, Enqueue
<1>7. CASE BatchFails
  BY <1>0, <1>7, FaultTyped DEF TypeOK, BatchFails
<1> QED
  BY <1>1, <1>2, <1>3, <1>4, <1>5, <1>6, <1>7 DEF BatchStep

\* A worker slot keeps the types.
LEMMA WorkerTyped ==
  ASSUME TypeOK, NEW w \in Workers, WorkerStep(w) \/ WorkerFails(w) \/ Stall(w)
  PROVE  TypeOK'
<1> USE DEF WorkerEnv, JobEnds, WorkerTo, Idle, WorkerType
<1>1. CASE Inspect(w)
  BY <1>1 DEF TypeOK, Inspect
<1>2. CASE Flip(w)
  <2>1. None \notin Files /\ wk[w].file \in Files \cup {None}
    BY ConstantsAssumption, FilesTyped DEF ConstantsAssumption
  <2>2. row' \in [Files -> RowType]
    BY <1>2, <2>1, RowFields DEF TypeOK, Flip, Flipped, Statuses
  <2> QED
    BY <1>2, <2>2 DEF TypeOK, Flip
<1>3. CASE Reject(w)
  BY <1>3, RowTyped, FilesTyped DEF TypeOK, Reject, Statuses
<1>4. CASE Recheck(w)
  BY <1>4 DEF TypeOK, Recheck
<1>5. CASE WorkerWipe(w)
  BY <1>5 DEF TypeOK, WorkerWipe, Wipe
<1>6. ASSUME NEW f \in Files, Take(w, f) PROVE TypeOK'
  BY <1>6 DEF TypeOK, Take
<1>7. CASE WorkerFails(w)
  BY <1>7, FaultTyped DEF TypeOK, WorkerFails
<1>8. CASE Stall(w)
  BY <1>8, FaultTyped DEF TypeOK, Stall
<1> QED
  BY <1>1, <1>2, <1>3, <1>4, <1>5, <1>6, <1>7, <1>8 DEF WorkerStep

\* A sweep keeps the types.
LEMMA SweepTyped ==
  ASSUME TypeOK, NEW k \in Sweeps,
         SweepStep(k) \/ SweepFails(k) \/ \E f \in Files : Scan(k, f)
  PROVE  TypeOK'
<1> USE DEF SweepEnv, SweepTo, SweepEnds, IdleSweep, SweepType
<1>1. CASE SweepHead(k)
  BY <1>1 DEF TypeOK, SweepHead
<1>2. CASE Claim(k)
  BY <1>2, RowTyped, FilesTyped DEF TypeOK, Claim, Statuses
<1>3. CASE SweepWipe(k)
  BY <1>3 DEF TypeOK, SweepWipe, Wipe
<1>4. CASE SweepDrop(k)
  BY <1>4, RowTyped, FilesTyped DEF TypeOK, SweepDrop, Statuses
<1>5. CASE SweepFails(k)
  BY <1>5, FaultTyped DEF TypeOK, SweepFails
<1>6. ASSUME NEW f \in Files, Scan(k, f) PROVE TypeOK'
  BY <1>6 DEF TypeOK, Scan, RowType
<1> QED
  BY <1>1, <1>2, <1>3, <1>4, <1>5, <1>6 DEF SweepStep

\* Every step keeps the types.
LEMMA NextTyped == TypeOK /\ [Next]_vars => TypeOK'
<1> SUFFICES ASSUME TypeOK, [Next]_vars PROVE TypeOK'
  OBVIOUS
<1>1. ASSUME NEW x \in Contents, Stage(x) PROVE TypeOK'
  BY <1>1 DEF TypeOK, Stage
<1>2. CASE OwnerGone
  BY <1>2 DEF TypeOK, OwnerGone
<1>3. ASSUME NEW f \in Files, SoftDelete(f) PROVE TypeOK'
  BY <1>3, RowFields DEF TypeOK, SoftDelete, Deleted, Visible, Exists, Statuses
<1>4. ASSUME NEW f \in Files, Redispatch(f) PROVE TypeOK'
  BY <1>4 DEF TypeOK, Redispatch, Enqueue
<1>5. CASE UNCHANGED vars
  BY <1>5 DEF TypeOK, vars
<1> QED
  BY <1>1, <1>2, <1>3, <1>4, <1>5, ConfirmTyped, BatchTyped, WorkerTyped, SweepTyped DEF Next

(***************************************************************************)
(* What a step does to a file.                                             *)
(***************************************************************************)

Creates(f) == Unborn(f) /\ Writing(f)' /\ row'[f] = Fresh
Drops(f) ==
  /\ WriterOver(f) /\ row'[f] = NoRow
  /\ Condemned(f) \/ row[f].status = "FINALIZING"
  /\ obj[f] = None \/ f \in lost
Deletes(f) == Visible(f) /\ row'[f] = Deleted(f)
Rejects(f) ==
  /\ WriterOver(f) /\ Exists(f) /\ row'[f] = Written(f, "REJECTED")
  /\ row[f].status = "READY" /\ ~row[f].deleted => orphaned
Publishes(f) ==
  /\ WriterOver(f) /\ row[f].status = "FINALIZING" /\ ~row[f].deleted
  /\ obj[f] # None /\ (~scanOn => obj[f] # "forged")
  /\ f \in Batch => /\ bt.pc = "publish" /\ bt'.pc \in {"dispatch", "done"}
                    /\ \A g \in Batch : row'[g].status = PublishedStatus
  /\ row'[f] = Written(f, PublishedStatus)
Flips(f) ==
  /\ WriterOver(f) /\ row[f].status = "VERIFYING" /\ ~row[f].deleted
  /\ obj[f] \notin {None, "forged", "infected"}
  /\ row'[f] = Flipped(f)

RowMoves(f) ==
  \/ row'[f] = row[f]
  \/ Creates(f) \/ Drops(f) \/ Deletes(f) \/ Rejects(f) \/ Publishes(f) \/ Flips(f)

ObjectMoves(f) ==
  \/ obj'[f] = obj[f]
  \/ /\ WriterOver(f) /\ obj'[f] = None
     /\ Condemned(f) \/ (f \in Batch /\ bt.pc = "wipe")
  \/ /\ Writing(f) /\ obj'[f] \in Contents \ {"banned"}
     /\ f \in Batch => obj'[f] # "forged"

WriterMoves(f) ==
  /\ WriterOver(f) => WriterOver(f)'
  /\ Unborn(f)' => Unborn(f)
  /\ Unborn(f) /\ Writing(f)' => row'[f] = Fresh
  /\ ~WriterOver(f)' => \/ obj'[f] = obj[f] /\ (Stored(f)' <=> Stored(f))
                        \/ obj'[f] # None /\ Stored(f)'

Moves ==
  /\ \A f \in Files : RowMoves(f) /\ ObjectMoves(f) /\ WriterMoves(f)
  /\ lost \subseteq lost' /\ scanOn' = scanOn /\ (orphaned => orphaned')

\* A writer that takes no step stays where it is.
LEMMA WriterStays ==
  ASSUME NEW f \in Files, f \in Batch => bt' = bt, f \notin Batch => api'[f] = api[f],
         obj'[f] = obj[f] \/ WriterOver(f)
  PROVE  WriterMoves(f)
<1>1. (Unborn(f)' <=> Unborn(f)) /\ (Writing(f)' <=> Writing(f)) /\ (Stored(f)' <=> Stored(f))
  BY DEF Unborn, Writing, Stored
<1>2. ~(Unborn(f) /\ Writing(f))
  BY DEF Unborn, Writing
<1>3. WriterOver(f)' <=> WriterOver(f)
  BY <1>1 DEF WriterOver
<1> QED
  BY <1>1, <1>2, <1>3 DEF WriterMoves

\* Most steps leave rows, objects and writers alone.
LEMMA QuietMoves ==
  ASSUME UNCHANGED <<row, obj, api, bt, lost, scanOn>>, orphaned => orphaned'
  PROVE  Moves
  BY WriterStays DEF Moves, RowMoves, ObjectMoves

\* The path of a confirm: its row appears when it goes to copy, and it never
\* comes back to a place before that.
LEMMA ConfirmPath ==
  ASSUME TypeOK, NEW c \in Confirms, ConfirmStep(c) \/ ConfirmFails(c)
  PROVE  /\ \A d \in Confirms \ {c} : api'[d] = api[d]
         /\ bt' = bt /\ scanOn' = scanOn /\ orphaned' = orphaned /\ lost \subseteq lost'
         /\ wk' = wk /\ sw' = sw
         /\ api'[c].pc \in {"find", "head", "discard", "create", "refind", "rehead"}
              => /\ api[c].pc \in {"find", "head", "discard", "create", "refind", "rehead"}
                 /\ obj' = obj
         /\ api'[c].pc = "copy"
              => api[c].pc = "create" /\ obj' = obj /\ row'[c] = Fresh
<1> USE DEF ApiEnv
<1>0. /\ \A pc \in ConfirmPlaces : Goto(c, pc) =>
             (\A d \in Confirms \ {c} : api'[d] = api[d]) /\ api'[c].pc = pc
      /\ \A pc \in ConfirmPlaces, e \in Confirms : Recover(c, e, pc) =>
             (\A d \in Confirms \ {c} : api'[d] = api[d]) /\ api'[c].pc = pc
  BY DEF TypeOK, Goto, Recover, Started, ConfirmType
<1> USE DEF ConfirmPlaces
<1>1. CASE ConfirmFind(c)
  BY <1>0, <1>1 DEF ConfirmFind, Result
<1>2. CASE ConfirmHead(c)
  BY <1>2 DEF ConfirmHead, TypeOK, ConfirmType
<1>3. CASE ConfirmDiscard(c)
  BY <1>0, <1>3 DEF ConfirmDiscard
<1>4. CASE ConfirmCreate(c)
  BY <1>0, <1>4 DEF ConfirmCreate, TypeOK, Fresh
<1>5. CASE ConfirmCopy(c)
  BY <1>0, <1>5 DEF ConfirmCopy
<1>6. CASE ConfirmUnstage(c)
  BY <1>0, <1>6 DEF ConfirmUnstage, SkipInspection
<1>7. CASE ConfirmUndo(c)
  BY <1>0, <1>7 DEF ConfirmUndo
<1>8. CASE ConfirmRehead(c)
  BY <1>0, <1>8 DEF ConfirmRehead, SkipInspection
<1>9. CASE ConfirmInspect(c)
  BY <1>0, <1>9 DEF ConfirmInspect
<1>10. CASE ConfirmCondemn(c)
  BY <1>0, <1>10 DEF ConfirmCondemn
<1>11. CASE ConfirmWipe(c)
  BY <1>0, <1>11 DEF ConfirmWipe
<1>12. CASE ConfirmTransition(c)
  BY <1>0, <1>12 DEF ConfirmTransition, Result
<1>13. CASE ConfirmReread(c)
  BY <1>0, <1>13 DEF ConfirmReread, Result
<1>14. CASE ConfirmPublish(c)
  BY <1>0, <1>14 DEF ConfirmPublish
<1>15. CASE ConfirmFails(c)
  BY <1>0, <1>15 DEF ConfirmFails
<1> QED
  BY <1>1, <1>2, <1>3, <1>4, <1>5, <1>6, <1>7, <1>8, <1>9, <1>10, <1>11, <1>12, <1>13, <1>14,
     <1>15 DEF ConfirmStep

\* A file whose object or row a confirm may touch has no other writer at work.
LEMMA ConfirmWriters ==
  ASSUME TypeOK, NEW c \in Confirms, ConfirmStep(c) \/ ConfirmFails(c),
         \A f \in Files : f # c => obj'[f] = obj[f] \/ WriterOver(f)
  PROVE  \A f \in Files : WriterMoves(f)
<1> SUFFICES ASSUME NEW f \in Files PROVE WriterMoves(f)
  OBVIOUS
<1>1. CASE f # c
  BY <1>1, ConfirmPath, WriterStays
<1>2. CASE f = c
  <2>1. f \notin Batch
    BY <1>2, ConstantsAssumption DEF ConstantsAssumption
  <2> QED
    BY <1>2, <2>1, ConfirmPath DEF WriterMoves, WriterOver, Unborn, Writing, Stored
<1> QED
  BY <1>1, <1>2

\* What a confirm does to a row or an object.
LEMMA ConfirmMoves ==
  ASSUME IInv, NEW c \in Confirms, ConfirmStep(c) \/ ConfirmFails(c)
  PROVE  Moves
<1> USE DEF ApiEnv
<1> DEFINE t == api[c].target
<1>1. TypeOK /\ ConfirmInv(c) /\ FileInv(c) /\ t \in Confirms /\ t \in Files /\ c \in Files
  BY FilesTyped DEF IInv
<1>2. lost \subseteq lost' /\ scanOn' = scanOn /\ (orphaned => orphaned')
  BY <1>1, ConfirmPath
<1>3. c \notin Batch /\ t \notin Batch
  BY <1>1, ConstantsAssumption DEF ConstantsAssumption
<1>4. SUFFICES /\ \A f \in Files : RowMoves(f) /\ ObjectMoves(f)
               /\ \A f \in Files : f # c => obj'[f] = obj[f] \/ WriterOver(f)
  BY <1>1, <1>2, ConfirmWriters DEF Moves
<1>5. CASE UNCHANGED <<row, obj>>
  BY <1>5 DEF RowMoves, ObjectMoves
<1>6. CASE ConfirmCreate(c) /\ ~UNCHANGED row
  <2>1. row' = [row EXCEPT ![c] = Fresh] /\ Goto(c, "copy") /\ api[c].pc = "create" /\ obj' = obj
    BY <1>6 DEF ConfirmCreate, Fresh
  <2>2. api'[c].pc = "copy"
    BY <1>1, <2>1 DEF Goto, TypeOK, ConfirmType
  <2>3. Creates(c)
    BY <1>1, <1>3, <2>1, <2>2 DEF Creates, Unborn, Writing, TypeOK
  <2> QED
    BY <1>1, <2>1, <2>3 DEF TypeOK, RowMoves, ObjectMoves
<1>7. CASE ConfirmCopy(c)
  <2>1. row' = row /\ Writing(c) /\ api[c].meta \in Contents \ {"banned"}
    BY <1>1, <1>3, <1>7, FilesTyped DEF ConfirmCopy, Writing, ConfirmInv, ConfirmType
  <2>2. obj' = obj \/ obj' = [obj EXCEPT ![c] = api[c].meta]
    BY <1>7 DEF ConfirmCopy, CopyAllowed
  <2> QED
    BY <1>1, <1>3, <2>1, <2>2 DEF TypeOK, RowMoves, ObjectMoves
<1>8. CASE ConfirmUndo(c) /\ ~UNCHANGED row
  <2>1. /\ row[c].status = "FINALIZING" /\ row' = [row EXCEPT ![c] = NoRow] /\ obj' = obj
        /\ api[c].pc = "undo"
    BY <1>8 DEF ConfirmUndo, DropUnfinished, DropRow
  <2>2. Drops(c)
    BY <1>1, <1>3, <2>1 DEF TypeOK, Drops, ConfirmInv, WriterOver, Unborn, Writing
  <2> QED
    BY <1>1, <2>1, <2>2 DEF TypeOK, RowMoves, ObjectMoves
<1>9. CASE ConfirmCondemn(c) /\ ~UNCHANGED row
  <2>1. /\ row[t].status = "FINALIZING" /\ row' = [row EXCEPT ![t] = Written(t, "REJECTED")]
        /\ obj' = obj /\ api[c].pc = "condemn"
    BY <1>9 DEF ConfirmCondemn, Matches, SetStatus
  <2>2. Rejects(t)
    BY <1>1, <2>1 DEF TypeOK, Rejects, ConfirmInv, Exists
  <2> QED
    BY <1>1, <2>1, <2>2 DEF TypeOK, RowMoves, ObjectMoves
<1>10. CASE ConfirmWipe(c)
  <2>1. row' = row /\ obj' = [obj EXCEPT ![t] = None] /\ WriterOver(t) /\ Condemned(t)
    BY <1>1, <1>10 DEF ConfirmWipe, Wipe, ConfirmInv
  <2> QED
    BY <1>1, <2>1 DEF TypeOK, RowMoves, ObjectMoves
<1>11. CASE ConfirmTransition(c) /\ ~UNCHANGED row
  <2>1. /\ row[t].status = "FINALIZING" /\ ~row[t].deleted /\ api[c].pc = "transition"
        /\ row' = [row EXCEPT ![t] = Written(t, PublishedStatus)] /\ obj' = obj
    BY <1>11 DEF ConfirmTransition, Matches, SetStatus, PublishedStatus
  <2>2. ~Condemned(t)
    BY <2>1 DEF Condemned
  <2>3. Publishes(t)
    BY <1>1, <1>3, <2>1, <2>2 DEF TypeOK, Publishes, ConfirmInv
  <2> QED
    BY <1>1, <2>1, <2>3 DEF TypeOK, RowMoves, ObjectMoves
<1>12. ConfirmCopy(c) \/ ConfirmWipe(c) \/ UNCHANGED obj
  BY DEF ConfirmStep, ConfirmFind, ConfirmHead, ConfirmDiscard, ConfirmCreate, ConfirmUnstage,
     ConfirmUndo, ConfirmRehead, ConfirmInspect, ConfirmCondemn, ConfirmTransition,
     ConfirmReread, ConfirmPublish, ConfirmFails
<1>13. \/ ConfirmCreate(c) \/ ConfirmUndo(c) \/ ConfirmCondemn(c) \/ ConfirmTransition(c)
       \/ UNCHANGED row
  BY DEF ConfirmStep, ConfirmFind, ConfirmHead, ConfirmDiscard, ConfirmCopy, ConfirmUnstage,
     ConfirmRehead, ConfirmInspect, ConfirmWipe, ConfirmReread, ConfirmPublish, ConfirmFails
<1> QED
  BY <1>5, <1>6, <1>7, <1>8, <1>9, <1>10, <1>11, <1>12, <1>13

\* What the multipart request does to a row, an object or itself.
LEMMA BatchMoves ==
  ASSUME IInv, BatchStep \/ BatchFails
  PROVE  Moves
<1> USE DEF BatchEnv, AtBatch
<1>1. TypeOK /\ BatchInv /\ (\A f \in Files : FileInv(f)) /\ bt.left \subseteq Batch /\ bt \in BatchType
  BY FilesTyped DEF IInv, TypeOK
<1>2. lost' = lost /\ scanOn' = scanOn /\ orphaned' = orphaned /\ api' = api
  BY DEF BatchStep, BatchCreate, BatchUpload, BatchWipe, BatchDrop, BatchPublish, BatchDispatch,
     BatchFails
<1>3. SUFFICES ASSUME NEW f \in Files PROVE RowMoves(f) /\ ObjectMoves(f) /\ WriterMoves(f)
  BY <1>2 DEF Moves
<1>4. CASE f \notin Batch
  <2>1. row'[f] = row[f] /\ obj'[f] = obj[f]
    BY <1>1, <1>4 DEF BatchStep, BatchCreate, BatchUpload, BatchWipe, BatchDrop, BatchPublish,
       BatchDispatch, BatchFails, TypeOK, Wipe, DropUnfinished, DropRow
  <2> QED
    BY <1>2, <1>4, <2>1, WriterStays DEF RowMoves, ObjectMoves
<1> SUFFICES ASSUME f \in Batch PROVE RowMoves(f) /\ ObjectMoves(f) /\ WriterMoves(f)
  BY <1>4
<1>5. CASE BatchCreate
  <2>1. row'[f] = Fresh /\ obj' = obj /\ bt.pc = "create" /\ bt' = [pc |-> "upload", left |-> Batch]
    BY <1>1, <1>5 DEF BatchCreate, TypeOK, Fresh, BatchTo
  <2> QED
    BY <2>1 DEF RowMoves, ObjectMoves, WriterMoves, Creates, WriterOver, Unborn, Writing, Stored
<1>6. ASSUME NEW g \in Batch, NEW x \in Contents, BatchUpload(g, x)
      PROVE  RowMoves(f) /\ ObjectMoves(f) /\ WriterMoves(f)
  <2>1. row' = row /\ bt.pc = "upload" /\ g \in bt.left /\ x \notin {"forged", "banned", None}
    BY <1>6, ConstantsAssumption DEF BatchUpload, ConstantsAssumption
  <2>2. obj' = obj \/ obj' = [obj EXCEPT ![g] = x]
    BY <1>6 DEF BatchUpload
  <2>3. obj'[f] = obj[f] \/ (f = g /\ obj'[f] = x)
    BY <1>1, <2>2 DEF TypeOK
  <2>4. RowMoves(f) /\ ObjectMoves(f)
    BY <2>1, <2>3 DEF RowMoves, ObjectMoves, Writing
  <2>5. \/ bt'.pc \in {"publish", "wipe"}
        \/ obj' = [obj EXCEPT ![g] = x] /\ bt' = [bt EXCEPT !.left = @ \ {g}]
    BY <1>6 DEF BatchUpload, BatchTo
  <2>6. CASE bt'.pc \in {"publish", "wipe"}
    <3>1. WriterOver(f)' /\ ~Unborn(f)' /\ ~Unborn(f)
      BY <2>1, <2>6 DEF WriterOver, Unborn, Writing
    <3> QED
      BY <2>4, <3>1 DEF WriterMoves
  <2>7. CASE obj' = [obj EXCEPT ![g] = x] /\ bt' = [bt EXCEPT !.left = @ \ {g}]
    <3>1. bt'.pc = "upload" /\ bt'.left = bt.left \ {g}
      BY <1>1, <2>1, <2>7 DEF BatchType
    <3>2. Writing(f) /\ Writing(f)' /\ ~Unborn(f) /\ ~Unborn(f)'
      BY <2>1, <3>1 DEF Unborn, Writing
    <3>3. \/ obj'[f] = obj[f] /\ (Stored(f)' <=> Stored(f))
          \/ obj'[f] # None /\ Stored(f)'
      BY <1>1, <2>1, <2>7, <3>1 DEF Stored, TypeOK
    <3> QED
      BY <2>4, <3>2, <3>3 DEF WriterMoves, WriterOver
  <2> QED
    BY <2>5, <2>6, <2>7
<1>7. ASSUME bt.pc \in {"wipe", "drop", "publish", "dispatch", "done"},
             bt'.pc \notin {"create", "upload"}
      PROVE  WriterOver(f) /\ WriterMoves(f)
  BY <1>7 DEF WriterMoves, WriterOver, Unborn, Writing, Stored
<1>8. ASSUME NEW g \in Batch, BatchWipe(g) PROVE RowMoves(f) /\ ObjectMoves(f) /\ WriterMoves(f)
  <2>1. row' = row /\ bt.pc = "wipe" /\ (obj' = obj \/ obj' = [obj EXCEPT ![g] = None])
    BY <1>8 DEF BatchWipe, Wipe
  <2>2. bt'.pc \notin {"create", "upload"}
    BY <1>1, <1>8 DEF BatchWipe, BatchNext, BatchType
  <2> QED
    BY <1>1, <1>7, <2>1, <2>2 DEF TypeOK, RowMoves, ObjectMoves
<1>9. ASSUME NEW g \in Batch, BatchDrop(g) PROVE RowMoves(f) /\ ObjectMoves(f) /\ WriterMoves(f)
  <2>1. /\ obj' = obj /\ bt.pc = "drop" /\ g = (CHOOSE h \in bt.left : TRUE)
        /\ \/ row' = row
           \/ row[g].status = "FINALIZING" /\ row' = [row EXCEPT ![g] = NoRow]
    BY <1>9 DEF BatchDrop, DropUnfinished, DropRow
  <2>2. bt'.pc \notin {"create", "upload"}
    BY <1>9 DEF BatchDrop, BatchNext
  <2>3. obj[g] = None /\ WriterOver(f)
    BY <1>1, <1>7, <2>1, <2>2 DEF BatchInv
  <2> QED
    BY <1>1, <1>7, <2>1, <2>2, <2>3 DEF TypeOK, RowMoves, ObjectMoves, Drops
<1>10. CASE BatchPublish
  <2>1. bt.pc = "publish" /\ obj' = obj /\ bt'.pc \in {"dispatch", "done"}
    BY <1>10 DEF BatchPublish, BatchTo
  <2>2. WriterOver(f) /\ WriterMoves(f)
    BY <1>7, <2>1
  <2>3. CASE row' = row
    BY <2>1, <2>2, <2>3 DEF RowMoves, ObjectMoves
  <2>4. CASE ~(row' = row)
    <3>1. \A g \in Batch : /\ row[g].status = "FINALIZING" /\ ~row[g].deleted
                           /\ row'[g] = Written(g, PublishedStatus)
      BY <1>10, <2>4 DEF BatchPublish, Publishable, Matches, PublishedStatus
    <3>2. \A g \in Batch : row'[g].status = PublishedStatus
      BY <1>1, <3>1, RowFields DEF PublishedStatus, Statuses
    <3>3. obj[f] # None /\ obj[f] # "forged"
      BY <1>1, <2>1, <3>1 DEF BatchInv, Condemned, FileInv
    <3> QED
      BY <2>1, <2>2, <3>1, <3>2, <3>3 DEF RowMoves, ObjectMoves, Publishes
  <2> QED
    BY <2>3, <2>4
<1>11. ASSUME NEW g \in Batch, BatchDispatch(g)
       PROVE  RowMoves(f) /\ ObjectMoves(f) /\ WriterMoves(f)
  <2>1. bt.pc = "dispatch" /\ bt'.pc \in {"dispatch", "done"} /\ UNCHANGED <<row, obj>>
    BY <1>1, <1>11 DEF BatchDispatch, BatchType
  <2> QED
    BY <1>7, <2>1 DEF RowMoves, ObjectMoves
<1>12. CASE BatchFails
  <2>1. bt.pc # "create" /\ bt'.pc = "done" /\ UNCHANGED <<row, obj>>
    BY <1>12 DEF BatchFails, BatchTo
  <2> QED
    BY <2>1 DEF RowMoves, ObjectMoves, WriterMoves, WriterOver, Unborn, Writing
<1> QED
  BY <1>5, <1>6, <1>8, <1>9, <1>10, <1>11, <1>12 DEF BatchStep

\* What a worker slot does to a row or an object.
LEMMA WorkerMoves ==
  ASSUME IInv, NEW w \in Workers, WorkerStep(w) \/ WorkerFails(w) \/ Stall(w)
  PROVE  Moves
<1> USE DEF WorkerEnv
<1> DEFINE t == wk[w].file
<1>1. TypeOK /\ WorkerInv(w) /\ (\A f \in Files : FileInv(f))
  BY DEF IInv
<1>2. /\ UNCHANGED <<staged, api, bt, sw, orphaned, scanOn, lost>>
      /\ Flip(w) \/ Reject(w) \/ UNCHANGED row
      /\ WorkerWipe(w) \/ UNCHANGED obj
  BY DEF WorkerStep, Inspect, Flip, Reject, Recheck, WorkerWipe, Take, WorkerFails, Stall
<1>3. CASE Flip(w) /\ ~UNCHANGED row
  <2>1. /\ wk[w].pc = "flip" /\ row[t].status = "VERIFYING" /\ ~row[t].deleted
        /\ row' = [row EXCEPT ![t] = Flipped(t)] /\ obj' = obj
    BY <1>3 DEF Flip, Matches, Flipped
  <2>2. Flips(t) /\ t \in Files
    BY <1>1, <2>1 DEF TypeOK, Flips, WorkerInv, FileInv
  <2>3. \A f \in Files : RowMoves(f) /\ ObjectMoves(f)
    BY <1>1, <2>1, <2>2 DEF TypeOK, RowMoves, ObjectMoves
  <2> QED
    BY <1>2, <2>1, <2>3, WriterStays DEF Moves
<1>4. CASE Reject(w) /\ ~UNCHANGED row
  <2>1. /\ wk[w].pc = "reject" /\ row[t].status = "VERIFYING"
        /\ row' = [row EXCEPT ![t] = Written(t, "REJECTED")] /\ obj' = obj
    BY <1>4 DEF Reject, Matches, SetStatus
  <2>2. Rejects(t) /\ t \in Files
    BY <1>1, <2>1 DEF TypeOK, Rejects, WorkerInv, Exists
  <2>3. \A f \in Files : RowMoves(f) /\ ObjectMoves(f)
    BY <1>1, <2>1, <2>2 DEF TypeOK, RowMoves, ObjectMoves
  <2> QED
    BY <1>2, <2>1, <2>3, WriterStays DEF Moves
<1>5. CASE WorkerWipe(w)
  <2>1. row' = row /\ obj' = [obj EXCEPT ![t] = None] /\ t \in Files /\ WriterOver(t) /\ Condemned(t)
    BY <1>1, <1>5 DEF WorkerWipe, Wipe, WorkerInv
  <2>2. \A f \in Files : RowMoves(f) /\ ObjectMoves(f) /\ (obj'[f] = obj[f] \/ WriterOver(f))
    BY <1>1, <2>1 DEF TypeOK, RowMoves, ObjectMoves
  <2> QED
    BY <1>2, <2>2, WriterStays DEF Moves
<1> QED
  BY <1>2, <1>3, <1>4, <1>5, QuietMoves

\* What a sweep does to a row or an object.
LEMMA SweepMoves ==
  ASSUME IInv, NEW k \in Sweeps,
         SweepStep(k) \/ SweepFails(k) \/ \E f \in Files : Scan(k, f)
  PROVE  Moves
<1> USE DEF SweepEnv
<1> DEFINE t == sw[k].file
<1>1. TypeOK /\ SweepInv(k) /\ (\A f \in Files : FileInv(f)) /\ sw[k].ver \in Nat
  BY FilesTyped DEF IInv
<1>2. /\ UNCHANGED <<staged, job, api, bt, wk, orphaned, scanOn, lost>>
      /\ Claim(k) \/ SweepDrop(k) \/ UNCHANGED row
      /\ SweepWipe(k) \/ UNCHANGED obj
  BY DEF SweepStep, SweepHead, Claim, SweepWipe, SweepDrop, SweepFails, Scan
<1>3. CASE Claim(k) /\ ~UNCHANGED row
  <2>1. /\ sw[k].pc = "claim" /\ Exists(t) /\ row[t].ver = sw[k].ver
        /\ row' = [row EXCEPT ![t] = Written(t, "REJECTED")] /\ obj' = obj
    BY <1>3 DEF Claim, Unchanged, SetStatus
  <2>2. Rejects(t) /\ t \in Files
    BY <1>1, <2>1 DEF TypeOK, Rejects, SweepInv
  <2>3. \A f \in Files : RowMoves(f) /\ ObjectMoves(f)
    BY <1>1, <2>1, <2>2 DEF TypeOK, RowMoves, ObjectMoves
  <2> QED
    BY <1>2, <2>1, <2>3, WriterStays DEF Moves
<1>4. CASE SweepDrop(k)
  <2>1. sw[k].pc = "drop" /\ row' = [row EXCEPT ![t] = NoRow] /\ obj' = obj
    BY <1>4 DEF SweepDrop, DropRow
  <2>2. Drops(t) /\ t \in Files
    BY <1>1, <2>1 DEF TypeOK, Drops, SweepInv
  <2>3. \A f \in Files : RowMoves(f) /\ ObjectMoves(f)
    BY <1>1, <2>1, <2>2 DEF TypeOK, RowMoves, ObjectMoves
  <2> QED
    BY <1>2, <2>1, <2>3, WriterStays DEF Moves
<1>5. CASE SweepWipe(k)
  <2>1. row' = row /\ obj' = [obj EXCEPT ![t] = None] /\ t \in Files /\ WriterOver(t) /\ Condemned(t)
    BY <1>1, <1>5 DEF SweepWipe, Wipe, SweepInv
  <2>2. \A f \in Files : RowMoves(f) /\ ObjectMoves(f) /\ (obj'[f] = obj[f] \/ WriterOver(f))
    BY <1>1, <2>1 DEF TypeOK, RowMoves, ObjectMoves
  <2> QED
    BY <1>2, <2>2, WriterStays DEF Moves
<1> QED
  BY <1>2, <1>3, <1>4, <1>5, QuietMoves

\* Every step is made of these moves.
LEMMA NextMoves == IInv /\ [Next]_vars => Moves
<1> SUFFICES ASSUME IInv, [Next]_vars PROVE Moves
  OBVIOUS
<1>1. ASSUME NEW x \in Contents, Stage(x) PROVE Moves
  BY <1>1, QuietMoves DEF Stage
<1>2. CASE OwnerGone
  BY <1>2, QuietMoves DEF OwnerGone
<1>3. ASSUME NEW f \in Files, SoftDelete(f) PROVE Moves
  <2>1. Deletes(f) /\ row' = [row EXCEPT ![f] = Deleted(f)]
    BY <1>3 DEF SoftDelete, Deletes, Deleted, IInv, TypeOK
  <2>2. \A g \in Files : RowMoves(g) /\ ObjectMoves(g)
    BY <1>3, <2>1 DEF SoftDelete, RowMoves, ObjectMoves, IInv, TypeOK
  <2> QED
    BY <1>3, <2>2, WriterStays DEF SoftDelete, Moves
<1>4. ASSUME NEW f \in Files, Redispatch(f) PROVE Moves
  BY <1>4, QuietMoves DEF Redispatch
<1>5. CASE UNCHANGED vars
  BY <1>5, QuietMoves DEF vars
<1> QED
  BY <1>1, <1>2, <1>3, <1>4, <1>5, ConfirmMoves, BatchMoves, WorkerMoves, SweepMoves DEF Next

(***************************************************************************)
(* What the moves keep.                                                    *)
(***************************************************************************)

\* Once its writer is over, a condemned row stays condemned, an object is at most
\* wiped, and every write to the row moves its version on.
LEMMA Settled ==
  ASSUME IInv, Moves, NEW f \in Files, WriterOver(f)
  PROVE  /\ WriterOver(f)'
         /\ Condemned(f) => Condemned(f)'
         /\ obj'[f] \in {obj[f], None}
         /\ obj'[f] # obj[f] => Condemned(f) \/ (f \in Batch /\ bt.pc = "wipe")
         /\ Exists(f)' => /\ Exists(f)
                          /\ row'[f] = row[f] \/ row'[f].ver = row[f].ver + 1
         /\ row'[f] = row[f] \/ Drops(f) \/ Deletes(f) \/ Rejects(f) \/ Publishes(f) \/ Flips(f)
<1>1. RowMoves(f) /\ ObjectMoves(f) /\ WriterMoves(f) /\ TypeOK
  BY DEF Moves, IInv
<1>2. ~Unborn(f) /\ ~Writing(f)
  BY DEF WriterOver
<1>3. row'[f] = row[f] \/ Drops(f) \/ Deletes(f) \/ Rejects(f) \/ Publishes(f) \/ Flips(f)
  BY <1>1, <1>2 DEF RowMoves, Creates
<1>4. Condemned(f) => Condemned(f)'
  <2>1. "REJECTED" \in Statuses /\ PublishedStatus \in Statuses
    BY DEF PublishedStatus, Statuses
  <2> QED
    BY <1>1, <1>3, <2>1, RowFields
       DEF Condemned, Drops, Deletes, Visible, Rejects, Publishes, Flips
<1>5. Exists(f)' => /\ Exists(f)
                    /\ row'[f] = row[f] \/ row'[f].ver = row[f].ver + 1
  <2>1. "REJECTED" \in Statuses /\ PublishedStatus \in Statuses
    BY DEF PublishedStatus, Statuses
  <2> QED
    BY <1>1, <1>3, <2>1, RowFields
       DEF Exists, Drops, Deletes, Visible, Rejects, Publishes, Flips
<1> QED
  BY <1>1, <1>2, <1>3, <1>4, <1>5 DEF WriterMoves, ObjectMoves

\* Where the row goes, status by status.
LEMMA StatusMoves ==
  ASSUME IInv, Moves, NEW f \in Files
  PROVE  \/ row'[f] = row[f]
         \/ Creates(f) /\ row'[f].status = "FINALIZING" /\ ~row'[f].deleted
         \/ Drops(f) /\ row'[f].status = "none" /\ ~row'[f].deleted
         \/ Deletes(f) /\ row'[f].status = row[f].status /\ row'[f].deleted
         \/ Rejects(f) /\ row'[f].status = "REJECTED"
         \/ Publishes(f) /\ row'[f].status = PublishedStatus
         \/ Flips(f) /\ row'[f].status = "READY" /\ row'[f].scan = Verdict(obj[f])
<1>1. RowMoves(f) /\ TypeOK
  BY DEF Moves, IInv
<1>2. "REJECTED" \in Statuses /\ PublishedStatus \in Statuses
  BY DEF PublishedStatus, Statuses
<1> QED
  BY <1>1, <1>2, RowFields DEF RowMoves, Creates, Drops, Deletes, Rejects, Publishes, Flips

\* A row that is served or verified keeps its object.
LEMMA ObjectKept ==
  ASSUME IInv, Moves, NEW f \in Files,
         row'[f].status \in {"VERIFYING", "READY"}, ~row'[f].deleted
  PROVE  /\ WriterOver(f) /\ obj'[f] = obj[f] /\ obj[f] # None
         /\ \/ row'[f] = row[f]
            \/ Publishes(f) /\ row'[f].status = PublishedStatus
            \/ Flips(f) /\ row'[f].status = "READY" /\ row'[f].scan = Verdict(obj[f])
<1>1. FileInv(f) /\ BatchInv /\ TypeOK
  BY DEF IInv
<1>2. \/ row'[f] = row[f]
      \/ Publishes(f) /\ row'[f].status = PublishedStatus
      \/ Flips(f) /\ row'[f].status = "READY" /\ row'[f].scan = Verdict(obj[f])
  BY StatusMoves
<1>3. /\ WriterOver(f) /\ obj[f] # None /\ ~Condemned(f)
      /\ f \in Batch => bt.pc # "wipe"
  <2>1. CASE row'[f] = row[f]
    BY <1>1, <2>1 DEF FileInv, BatchInv, WriterOver, NoRow, Condemned
  <2>2. CASE Publishes(f)
    BY <2>2 DEF Publishes, Condemned
  <2>3. CASE Flips(f)
    BY <1>1, <2>3 DEF Flips, Condemned, BatchInv
  <2> QED
    BY <1>2, <2>1, <2>2, <2>3
<1>4. obj'[f] = obj[f]
  BY <1>3, Settled
<1> QED
  BY <1>2, <1>3, <1>4

\* The file's invariant and the properties of files are kept by the moves; the
\* job's part is left to the steps.
LEMMA FilesKept ==
  ASSUME IInv, Moves, TypeOK', NEW f \in Files
  PROVE  /\ Unborn(f)' => row'[f] = NoRow
         /\ Writing(f)' => row'[f].status = "FINALIZING"
         /\ ~WriterOver(f)' => (obj'[f] # None <=> Stored(f)')
         /\ obj'[f] # "banned" /\ (f \in Batch => obj'[f] # "forged")
         /\ row'[f].status \in {"VERIFYING", "READY"} /\ ~row'[f].deleted => obj'[f] # None
<1>1. FileInv(f) /\ BatchInv /\ TypeOK /\ RowMoves(f) /\ ObjectMoves(f) /\ WriterMoves(f)
  BY DEF IInv, Moves
<1>2. ASSUME Unborn(f)' PROVE row'[f] = NoRow
  <2>1. Unborn(f) /\ ~WriterOver(f) /\ ~Writing(f)' /\ row[f] = NoRow /\ ~Visible(f)
    BY <1>1, <1>2 DEF WriterMoves, Unborn, Writing, WriterOver, FileInv, Visible, Exists, NoRow
  <2> QED
    BY <1>1, <2>1 DEF RowMoves, Creates, Drops, Deletes, Rejects, Publishes, Flips
<1>3. ASSUME Writing(f)' PROVE row'[f].status = "FINALIZING"
  <2>1. ~WriterOver(f)
    BY <1>1, <1>3 DEF WriterMoves, WriterOver
  <2>2. CASE Unborn(f)
    BY <1>1, <1>3, <2>2 DEF WriterMoves, Fresh, NoRow
  <2>3. CASE Writing(f)
    <3>1. row[f].status = "FINALIZING"
      BY <1>1, <2>3 DEF FileInv
    <3> QED
      BY <2>1, <3>1, StatusMoves DEF Drops, Rejects, Publishes, Flips
  <2> QED
    BY <2>1, <2>2, <2>3 DEF WriterOver
<1>4. ASSUME ~WriterOver(f)' PROVE obj'[f] # None <=> Stored(f)'
  BY <1>1, <1>4 DEF WriterMoves, FileInv
<1>5. obj'[f] # "banned" /\ (f \in Batch => obj'[f] # "forged")
  <2>1. None \notin {"banned", "forged"}
    BY ConstantsAssumption DEF ConstantsAssumption, AllContents
  <2> QED
    BY <1>1, <2>1 DEF FileInv, ObjectMoves
<1> QED
  BY <1>2, <1>3, <1>4, <1>5, ObjectKept

\* A READY row keeps its object and the verdict that was recorded of it.
LEMMA ServedKept == IInv /\ Moves => ServedFilesPassedTheChecks'
<1> SUFFICES ASSUME IInv, Moves, NEW f \in Files, Visible(f)', row'[f].status = "READY"
             PROVE  /\ obj'[f] \notin {None, "forged", "banned"}
                    /\ scanOn' => obj'[f] # "infected" /\ row'[f].scan = Verdict(obj'[f])
  BY DEF ServedFilesPassedTheChecks, Verdict
<1>1. FileInv(f) /\ TypeOK /\ ServedFilesPassedTheChecks /\ scanOn' = scanOn
  BY DEF IInv, Moves
<1>2. /\ WriterOver(f) /\ obj'[f] = obj[f] /\ obj[f] # None /\ obj[f] # "banned"
      /\ \/ row'[f] = row[f]
         \/ Publishes(f) /\ row'[f].status = PublishedStatus
         \/ Flips(f) /\ row'[f].status = "READY" /\ row'[f].scan = Verdict(obj[f])
  BY <1>1, ObjectKept DEF Visible, FileInv
<1>3. CASE row'[f] = row[f]
  BY <1>1, <1>2, <1>3 DEF ServedFilesPassedTheChecks, Visible, Exists
<1>4. CASE Publishes(f) /\ row'[f].status = PublishedStatus
  <2>1. ~scanOn
    BY <1>4 DEF PublishedStatus
  <2> QED
    BY <1>1, <1>2, <1>4, <2>1 DEF Publishes
<1>5. CASE Flips(f) /\ row'[f].status = "READY" /\ row'[f].scan = Verdict(obj[f])
  BY <1>1, <1>2, <1>5 DEF Flips
<1> QED
  BY <1>2, <1>3, <1>4, <1>5

\* An object whose row goes without it is the one of a copy whose reply was lost.
LEMMA OrphansKept == IInv /\ Moves => OrphansOnlyAfterLostCopy'
<1> SUFFICES ASSUME IInv, Moves, NEW f \in Files, obj'[f] # None, ~Exists(f)'
             PROVE  f \in lost'
  BY DEF OrphansOnlyAfterLostCopy
<1>1. FileInv(f) /\ TypeOK /\ OrphansOnlyAfterLostCopy /\ lost \subseteq lost' /\ ObjectMoves(f)
  BY DEF IInv, Moves
<1>2. CASE ~WriterOver(f)
  <2>1. row'[f] = row[f] \/ Creates(f)
    BY <1>1, <1>2, StatusMoves DEF Drops, Deletes, Rejects, Publishes, Flips, Visible, Exists
  <2>2. row'[f] = row[f]
    BY <2>1, StatusMoves DEF Exists, Creates, Fresh, NoRow
  <2>3. CASE obj'[f] = obj[f]
    BY <1>1, <2>2, <2>3 DEF OrphansOnlyAfterLostCopy, Exists
  <2>4. CASE Writing(f)
    BY <1>1, <2>2, <2>4 DEF FileInv, Exists
  <2> QED
    BY <1>1, <1>2, <2>3, <2>4 DEF ObjectMoves
<1>3. CASE WriterOver(f)
  <2>1. obj'[f] = obj[f]
    BY <1>3, Settled
  <2>2. CASE row'[f] = row[f]
    BY <1>1, <2>1, <2>2 DEF OrphansOnlyAfterLostCopy, Exists
  <2>3. CASE Drops(f)
    BY <1>1, <2>1, <2>3 DEF Drops
  <2>4. row'[f] = row[f] \/ Drops(f)
    BY <1>3, StatusMoves
       DEF Creates, WriterOver, Deletes, Visible, Exists, PublishedStatus
  <2> QED
    BY <2>2, <2>3, <2>4
<1> QED
  BY <1>2, <1>3

\* A batch is published in one statement, and until then none of its rows is past
\* FINALIZING.
LEMMA BatchKept == IInv /\ Moves => BatchIsAllOrNothing'
<1> SUFFICES ASSUME IInv, Moves, NEW f \in Batch, NEW g \in Batch,
                    row'[f].status \in {"VERIFYING", "READY"}
             PROVE  row'[g].status # "FINALIZING"
  BY DEF BatchIsAllOrNothing
<1>1. FileInv(f) /\ FileInv(g) /\ BatchIsAllOrNothing /\ WriterMoves(f) /\ TypeOK
  BY DEF IInv, Moves
<1>2. CASE Publishes(f)
  BY <1>2 DEF Publishes, PublishedStatus
<1>3. CASE row[f].status \in {"VERIFYING", "READY"}
  <2>1. row[g].status # "FINALIZING" /\ ~Unborn(f)
    BY <1>1, <1>3 DEF BatchIsAllOrNothing, FileInv, NoRow
  <2>2. ~Unborn(g)
    BY <2>1 DEF Unborn
  <2> QED
    BY <2>1, <2>2, StatusMoves DEF Creates, PublishedStatus
<1>4. Publishes(f) \/ row[f].status \in {"VERIFYING", "READY"}
  BY StatusMoves DEF Flips
<1> QED
  BY <1>2, <1>3, <1>4

(***************************************************************************)
(* What a process knows is still so after the steps of the others.         *)
(***************************************************************************)

\* A confirm that takes no step.
LEMMA ConfirmStable ==
  ASSUME IInv, Moves, NEW c \in Confirms, api'[c] = api[c]
  PROVE  ConfirmInv(c)'
<1> DEFINE t == api[c].target
<1>1. /\ ConfirmInv(c) /\ TypeOK /\ t \in Files /\ c \in Files /\ t \notin Batch /\ c \notin Batch
      /\ FileInv(t) /\ lost \subseteq lost' /\ scanOn' = scanOn
  BY FilesTyped, ConstantsAssumption DEF IInv, Moves, ConstantsAssumption
<1>2. WriterOver(t) => /\ WriterOver(t)' /\ (Condemned(t) => Condemned(t)')
                       /\ obj'[t] \in {obj[t], None}
                       /\ obj'[t] # obj[t] => Condemned(t)
  BY <1>1, Settled
<1>3. api[c].pc \in {"unstage", "undo"} => t = c /\ WriterOver(c)
  BY <1>1 DEF ConfirmInv, WriterOver, Unborn, Writing
<1>4. None # "forged"
  BY ConstantsAssumption DEF ConstantsAssumption, AllContents
<1> HIDE DEF t
<1>5. /\ api[c].pc \in {"inspect", "condemn", "wipe", "transition", "reread", "publish"}
           => WriterOver(t)'
      /\ api[c].pc = "wipe" => Condemned(t)'
      /\ api[c].pc = "undo" => obj'[c] = None \/ c \in lost'
      /\ api[c].pc \in {"unstage", "transition"} => obj'[t] # None \/ Condemned(t)'
      /\ api[c].pc = "transition" /\ ~scanOn' => obj'[t] # "forged"
  BY <1>1, <1>2, <1>3, <1>4 DEF ConfirmInv, t
<1> QED
  BY <1>1, <1>5 DEF ConfirmInv, t

\* The multipart request while it takes no step.
LEMMA BatchStable == IInv /\ Moves /\ bt' = bt => BatchInv'
<1> SUFFICES ASSUME IInv, Moves, bt' = bt, NEW f \in Batch
             PROVE  /\ bt.pc \in {"publish", "wipe", "drop"} => row'[f].status \notin {"VERIFYING", "READY"}
                    /\ bt.pc = "publish" => obj'[f] # None \/ Condemned(f)'
                    /\ bt.pc = "drop" /\ f = (CHOOSE g \in bt.left : TRUE) => obj'[f] = None
  BY DEF BatchInv
<1>1. BatchInv /\ TypeOK
  BY DEF IInv
<1>2. SUFFICES ASSUME bt.pc \in {"publish", "wipe", "drop"}
               PROVE  /\ row'[f].status \notin {"VERIFYING", "READY"}
                      /\ bt.pc = "publish" => obj'[f] # None \/ Condemned(f)'
                      /\ obj[f] = None => obj'[f] = None
  BY <1>1 DEF BatchInv
<1>3. WriterOver(f)
  BY <1>2 DEF WriterOver, Unborn, Writing
<1>4. ~Publishes(f) /\ ~Flips(f)
  BY <1>1, <1>2 DEF BatchInv, Publishes, Flips
<1>5. row'[f].status \notin {"VERIFYING", "READY"}
  BY <1>1, <1>2, <1>4, StatusMoves DEF BatchInv
<1> QED
  BY <1>1, <1>2, <1>3, <1>5, Settled DEF BatchInv

\* A worker slot that takes no step.
LEMMA WorkerStable ==
  ASSUME IInv, Moves, NEW w \in Workers, wk'[w] = wk[w]
  PROVE  WorkerInv(w)'
<1>1. SUFFICES ASSUME wk[w].pc # "idle" PROVE WorkerInv(w)'
  BY DEF WorkerInv
<1>2. WorkerInv(w) /\ wk[w].file \in Files /\ WriterOver(wk[w].file)
  BY <1>1 DEF IInv, WorkerInv
<1> DEFINE t == wk[w].file
<1>3. None \notin {"forged", "infected"}
  BY ConstantsAssumption DEF ConstantsAssumption, AllContents
<1>4. /\ WriterOver(t)' /\ (Condemned(t) => Condemned(t)')
      /\ obj'[t] \in {obj[t], None}
  BY <1>2, Settled
<1> HIDE DEF t
<1>5. /\ wk[w].pc = "flip" => obj'[t] \notin {"forged", "infected"}
      /\ wk[w].pc = "wipe" => Condemned(t)'
  BY <1>1, <1>2, <1>3, <1>4 DEF WorkerInv, t
<1> QED
  BY <1>1, <1>2, <1>4, <1>5 DEF WorkerInv, t

\* A sweep that takes no step.
LEMMA SweepStable ==
  ASSUME IInv, Moves, NEW k \in Sweeps, sw'[k] = sw[k]
  PROVE  SweepInv(k)'
<1>1. SUFFICES ASSUME sw[k].pc # "idle" PROVE SweepInv(k)'
  BY DEF SweepInv
<1>2. SweepInv(k) /\ sw[k].file \in Files /\ WriterOver(sw[k].file) /\ sw[k].ver \in Nat
  BY <1>1, FilesTyped DEF IInv, SweepInv
<1> DEFINE t == sw[k].file
<1>3. /\ WriterOver(t)' /\ (Condemned(t) => Condemned(t)')
      /\ obj'[t] \in {obj[t], None}
      /\ Exists(t)' => /\ Exists(t)
                       /\ row'[t] = row[t] \/ row'[t].ver = row[t].ver + 1
      /\ orphaned => orphaned'
      /\ row[t].ver \in Nat
  BY <1>2, Settled DEF Moves, IInv, TypeOK, RowType
<1> HIDE DEF t
<1>4. ASSUME sw[k].pc \in {"head", "claim"}, Exists(t)'
      PROVE  /\ sw[k].ver <= row'[t].ver
             /\ sw[k].ver = row'[t].ver => row'[t].status # "READY" \/ orphaned'
  <2>1. sw[k].ver <= row[t].ver
    BY <1>2, <1>3, <1>4 DEF SweepInv, t
  <2>2. sw[k].ver = row[t].ver => row[t].status # "READY" \/ orphaned
    BY <1>2, <1>3, <1>4 DEF SweepInv, t
  <2>3. CASE row'[t] = row[t]
    BY <1>3, <2>1, <2>2, <2>3
  <2>4. CASE row'[t].ver = row[t].ver + 1
    BY <1>2, <1>3, <2>1, <2>4
  <2> QED
    BY <1>3, <1>4, <2>3, <2>4
<1>5. /\ sw[k].pc \in {"wipe", "drop"} => Condemned(t)'
      /\ sw[k].pc = "drop" => obj'[t] = None
  BY <1>1, <1>2, <1>3 DEF SweepInv, t
<1> QED
  BY <1>1, <1>2, <1>3, <1>4, <1>5 DEF SweepInv, t, Exists

(***************************************************************************)
(* What a process knows after its own step.                                *)
(***************************************************************************)

\* A file that has a row past FINALIZING, or a confirm's object, has no writer left.
LEMMA WriterIsOver ==
  ASSUME IInv, NEW f \in Files,
         row[f].status \in {"VERIFYING", "READY", "REJECTED"} \/ (f \notin Batch /\ obj[f] # None)
  PROVE  WriterOver(f)
<1>1. FileInv(f)
  BY DEF IInv
<1> QED
  BY <1>1 DEF FileInv, WriterOver, NoRow, Stored

\* What a confirm has seen and done by its own step.
LEMMA ConfirmOwn ==
  ASSUME IInv, Moves, NEW c \in Confirms, ConfirmStep(c) \/ ConfirmFails(c)
  PROVE  ConfirmInv(c)'
<1> USE DEF ApiEnv
<1>0. PICK t \in Confirms : t = api[c].target
  BY FilesTyped DEF IInv
<1>1. /\ ConfirmInv(c) /\ TypeOK /\ t \in Files /\ c \in Files /\ t \notin Batch /\ c \notin Batch
      /\ t \in Confirms /\ FileInv(c)
  BY <1>0, ConstantsAssumption DEF IInv, ConstantsAssumption
<1>2. ASSUME NEW pc \in ConfirmPlaces, Goto(c, pc), pc # "done"
      PROVE  api'[c].pc = pc /\ api'[c].target = t /\ api'[c].meta = api[c].meta
  BY <1>0, <1>1, <1>2 DEF Goto, TypeOK, ConfirmType
<1>3. CASE Goto(c, "done")
  <2>1. api'[c].pc = "done"
    BY <1>1, <1>3 DEF Goto, TypeOK, Started
  <2> QED
    BY <2>1 DEF ConfirmInv
<1>4. \A f \in Files : WriterOver(f) => WriterOver(f)'
  BY Settled
<1>5. ASSUME NEW pc \in {"inspect", "condemn", "reread", "publish"}, Goto(c, pc), WriterOver(t)
      PROVE  ConfirmInv(c)'
  <2>1. api'[c].pc = pc /\ api'[c].target = t
    BY <1>2, <1>5 DEF ConfirmPlaces
  <2>2. WriterOver(t)'
    BY <1>1, <1>4, <1>5
  <2> QED
    BY <2>1, <2>2 DEF ConfirmInv
<1>6. ASSUME NEW e \in Confirms, NEW pc \in {"done", "rehead"}, Recover(c, e, pc)
      PROVE  ConfirmInv(c)'
  <2>1. api'[c].pc = pc
    BY <1>1, <1>6 DEF Recover, TypeOK, ConfirmType
  <2> QED
    BY <2>1 DEF ConfirmInv
<1>7. ASSUME NEW pc \in {"head", "refind"}, Goto(c, pc), t = c PROVE ConfirmInv(c)'
  <2>1. api'[c].pc = pc /\ api'[c].target = c
    BY <1>2, <1>7 DEF ConfirmPlaces
  <2> QED
    BY <2>1 DEF ConfirmInv
<1>8. CASE ConfirmFind(c)
  <2>1. t = c
    BY <1>0, <1>1, <1>8 DEF ConfirmFind, ConfirmInv
  <2>2. ASSUME NEW e \in Confirms, Recover(c, e, "publish"), row[e].status = "VERIFYING"
        PROVE  ConfirmInv(c)'
    <3>1. api'[c].pc = "publish" /\ api'[c].target = e
      BY <1>1, <2>2 DEF Recover, TypeOK, ConfirmType
    <3>2. WriterOver(e)'
      BY <1>4, <2>2, WriterIsOver
    <3> QED
      BY <3>1, <3>2 DEF ConfirmInv
  <2> QED
    BY <1>3, <1>6, <1>7, <1>8, <2>1, <2>2 DEF ConfirmFind, Result
<1>9. CASE ConfirmHead(c)
  <2>1. t = c
    BY <1>0, <1>1, <1>9 DEF ConfirmHead, ConfirmInv
  <2>2. /\ api'[c].target = t /\ api'[c].meta = staged
        /\ \/ api'[c].pc \in {"done", "discard"}
           \/ api'[c].pc = "create" /\ staged \notin {None, "banned"}
    BY <1>0, <1>1, <1>9 DEF ConfirmHead, TypeOK, ConfirmType
  <2> QED
    BY <2>1, <2>2 DEF ConfirmInv
<1>10. CASE ConfirmCreate(c)
  <2>1. t = c /\ api[c].meta \notin {None, "banned"}
    BY <1>0, <1>1, <1>10 DEF ConfirmCreate, ConfirmInv
  <2>2. ASSUME Goto(c, "copy") PROVE ConfirmInv(c)'
    <3>1. api'[c].pc = "copy" /\ api'[c].target = c /\ api'[c].meta = api[c].meta
      BY <1>2, <2>1, <2>2 DEF ConfirmPlaces
    <3> QED
      BY <2>1, <3>1 DEF ConfirmInv
  <2> QED
    BY <1>7, <1>10, <2>1, <2>2 DEF ConfirmCreate
<1>11. CASE ConfirmCopy(c)
  <2>1. t = c /\ api[c].meta # None /\ obj[c] = None
    BY <1>0, <1>1, <1>11 DEF ConfirmCopy, ConfirmInv, FileInv, WriterOver, Writing, Stored
  <2>2. CASE Goto(c, "unstage") /\ CopyAllowed(c) /\ obj' = [obj EXCEPT ![c] = staged]
    <3>1. api'[c].pc = "unstage" /\ api'[c].target = c
      BY <1>2, <2>1, <2>2 DEF ConfirmPlaces
    <3>2. obj'[c] # None
      BY <1>1, <2>2 DEF CopyAllowed, TypeOK
    <3> QED
      BY <3>1, <3>2 DEF ConfirmInv
  <2>3. CASE Goto(c, "undo") /\ (obj' = obj \/ lost' = lost \cup {c})
    <3>1. api'[c].pc = "undo" /\ api'[c].target = c
      BY <1>2, <2>1, <2>3 DEF ConfirmPlaces
    <3>2. obj'[c] = None \/ c \in lost'
      BY <2>1, <2>3
    <3> QED
      BY <3>1, <3>2 DEF ConfirmInv
  <2> QED
    BY <1>11, <2>2, <2>3 DEF ConfirmCopy
<1>12. ASSUME Goto(c, "transition"), WriterOver(t), UNCHANGED <<row, obj, scanOn>>,
              obj[t] # None \/ Condemned(t), scanOn \/ obj[t] # "forged"
       PROVE  ConfirmInv(c)'
  <2>1. api'[c].pc = "transition" /\ api'[c].target = t
    BY <1>2, <1>12 DEF ConfirmPlaces
  <2>2. WriterOver(t)' /\ (obj'[t] # None \/ Condemned(t)') /\ (scanOn' \/ obj'[t] # "forged")
    BY <1>1, <1>4, <1>12 DEF Condemned
  <2> QED
    BY <2>1, <2>2 DEF ConfirmInv
<1>13. CASE ConfirmUnstage(c)
  <2>1. t = c /\ WriterOver(t) /\ (obj[t] # None \/ Condemned(t))
    BY <1>0, <1>1, <1>13 DEF ConfirmUnstage, ConfirmInv, WriterOver, Unborn, Writing
  <2> QED
    BY <1>5, <1>12, <1>13, <2>1 DEF ConfirmUnstage, SkipInspection
<1>14. CASE ConfirmRehead(c)
  <2>1. obj[t] # None => WriterOver(t)
    BY <1>1, WriterIsOver
  <2> QED
    BY <1>0, <1>3, <1>5, <1>12, <1>14, <2>1 DEF ConfirmRehead, SkipInspection
<1>15. CASE ConfirmInspect(c)
  <2>1. WriterOver(t)
    BY <1>0, <1>1, <1>15 DEF ConfirmInspect, ConfirmInv
  <2> QED
    BY <1>0, <1>3, <1>5, <1>12, <1>15, <2>1 DEF ConfirmInspect
<1>16. CASE ConfirmCondemn(c)
  <2>1. WriterOver(t)
    BY <1>0, <1>1, <1>16 DEF ConfirmCondemn, ConfirmInv
  <2>2. CASE Goto(c, "wipe") /\ SetStatus(t, "REJECTED")
    <3>1. api'[c].pc = "wipe" /\ api'[c].target = t
      BY <1>2, <2>2 DEF ConfirmPlaces
    <3>2. Condemned(t)'
      BY <1>1, <2>2, RowFields DEF Condemned, SetStatus, TypeOK, Statuses
    <3>3. WriterOver(t)'
      BY <1>1, <1>4, <2>1
    <3> QED
      BY <3>1, <3>2, <3>3 DEF ConfirmInv
  <2> QED
    BY <1>0, <1>3, <1>16, <2>2 DEF ConfirmCondemn
<1>17. CASE ConfirmTransition(c)
  <2>1. WriterOver(t)
    BY <1>0, <1>1, <1>17 DEF ConfirmTransition, ConfirmInv
  <2> QED
    BY <1>3, <1>5, <1>17, <2>1 DEF ConfirmTransition, Result
<1>18. CASE ConfirmReread(c)
  <2>1. WriterOver(t)
    BY <1>0, <1>1, <1>18 DEF ConfirmReread, ConfirmInv
  <2> QED
    BY <1>3, <1>5, <1>18, <2>1 DEF ConfirmReread, Result
<1>19. CASE ConfirmDiscard(c) \/ ConfirmUndo(c) \/ ConfirmWipe(c) \/ ConfirmPublish(c)
            \/ ConfirmFails(c)
  BY <1>3, <1>19 DEF ConfirmDiscard, ConfirmUndo, ConfirmWipe, ConfirmPublish, ConfirmFails
<1> QED
  BY <1>8, <1>9, <1>10, <1>11, <1>13, <1>14, <1>15, <1>16, <1>17, <1>18, <1>19 DEF ConfirmStep

\* What the multipart request has seen and done by its own step.
LEMMA BatchOwn ==
  ASSUME IInv, Moves, BatchStep \/ BatchFails
  PROVE  BatchInv'
<1> USE DEF BatchEnv, AtBatch, BatchTo
<1>1. /\ TypeOK /\ BatchInv /\ (\A f \in Files : FileInv(f)) /\ bt \in BatchType
      /\ bt.left \subseteq Batch
  BY FilesTyped DEF IInv, TypeOK
<1>2. CASE bt'.pc \notin {"publish", "wipe", "drop"}
  BY <1>2 DEF BatchInv
<1>3. ASSUME NEW g \in Batch, NEW x \in Contents, BatchUpload(g, x) PROVE BatchInv'
  <2>1. /\ bt.pc = "upload" /\ row' = row
        /\ \A f \in Batch : row[f].status = "FINALIZING" /\ (obj[f] # None <=> f \notin bt.left)
    BY <1>1, <1>3 DEF BatchUpload, FileInv, Writing, WriterOver, Stored
  <2>2. CASE bt'.pc = "wipe"
    BY <2>1, <2>2 DEF BatchInv
  <2>3. CASE bt.left = {g} /\ obj' = [obj EXCEPT ![g] = x] /\ bt'.pc = "publish"
    <3>1. x # None
      BY ConstantsAssumption DEF ConstantsAssumption
    <3>2. \A f \in Batch : obj'[f] # None
      BY <1>1, <2>1, <2>3, <3>1 DEF TypeOK
    <3> QED
      BY <2>1, <2>3, <3>2 DEF BatchInv
  <2>4. \/ bt'.pc \in {"wipe", "upload"}
        \/ bt.left = {g} /\ obj' = [obj EXCEPT ![g] = x] /\ bt'.pc = "publish"
    BY <1>1, <1>3, <2>1 DEF BatchUpload, BatchType
  <2> QED
    BY <1>2, <2>2, <2>3, <2>4
<1>4. ASSUME NEW g \in Batch, BatchWipe(g) PROVE BatchInv'
  <2>1. /\ bt.pc = "wipe" /\ row' = row /\ g = (CHOOSE h \in bt.left : TRUE)
        /\ \A f \in Batch : row[f].status \notin {"VERIFYING", "READY"}
    BY <1>1, <1>4 DEF BatchWipe, BatchInv
  <2>2. CASE obj' = [obj EXCEPT ![g] = None] /\ bt' = [bt EXCEPT !.pc = "drop"]
    <3>1. bt'.pc = "drop" /\ bt'.left = bt.left /\ obj'[g] = None
      BY <1>1, <2>2 DEF BatchType, TypeOK
    <3> QED
      BY <2>1, <3>1 DEF BatchInv
  <2>3. CASE BatchNext(g)
    <3>1. bt'.pc \in {"wipe", "done"}
      BY <2>3 DEF BatchNext
    <3> QED
      BY <2>1, <3>1 DEF BatchInv
  <2> QED
    BY <1>4, <2>2, <2>3 DEF BatchWipe, Wipe
<1>5. ASSUME NEW g \in Batch, BatchDrop(g) PROVE BatchInv'
  <2>1. /\ bt.pc = "drop" /\ bt'.pc \in {"wipe", "done"}
        /\ row' = row \/ row' = [row EXCEPT ![g] = NoRow]
        /\ \A f \in Batch : row[f].status \notin {"VERIFYING", "READY"}
    BY <1>1, <1>5 DEF BatchDrop, BatchNext, DropUnfinished, DropRow, BatchInv
  <2>2. \A f \in Batch : row'[f].status \notin {"VERIFYING", "READY"}
    BY <1>1, <2>1 DEF TypeOK, NoRow
  <2> QED
    BY <2>1, <2>2 DEF BatchInv
<1>6. ASSUME NEW g \in Batch, BatchDispatch(g) PROVE BatchInv'
  BY <1>1, <1>2, <1>6 DEF BatchDispatch, BatchType
<1> QED
  BY <1>2, <1>3, <1>4, <1>5, <1>6 DEF BatchStep, BatchCreate, BatchPublish, BatchFails

\* A file whose job was ever enqueued has no writer left, and the slot's end of a
\* job enqueues nothing new.
LEMMA JobsKept ==
  ASSUME IInv, Moves, [Next]_vars, NEW f \in Files, job'[f] # "none"
  PROVE  WriterOver(f)'
<1>1. TypeOK /\ FileInv(f)
  BY DEF IInv
<1>2. SUFFICES WriterOver(f)
  BY Settled
<1>3. CASE job[f] # "none"
  BY <1>1, <1>3 DEF FileInv
<1>4. CASE job[f] = "none"
  <2>1. CASE job' = job
    BY <1>4, <2>1
  <2>2. ASSUME NEW w \in Workers, NEW result, JobEnds(w, result) PROVE FALSE
    BY <1>4, <2>2, ConstantsAssumption DEF JobEnds, ConstantsAssumption
  <2>3. ASSUME NEW g \in Files, Enqueue(g), g # f PROVE FALSE
    BY <1>1, <1>4, <2>3 DEF Enqueue, TypeOK
  <2>4. ASSUME NEW c \in Confirms, ConfirmPublish(c) PROVE WriterOver(f)
    <3>1. api[c].target \in Files /\ WriterOver(api[c].target) /\ Enqueue(api[c].target)
      BY <2>4, FilesTyped DEF IInv, ConfirmInv, ConfirmPublish
    <3> QED
      BY <2>3, <3>1
  <2>5. ASSUME NEW g \in Batch, BatchDispatch(g) PROVE WriterOver(f)
    <3>1. WriterOver(g)
      BY <2>5 DEF BatchDispatch, AtBatch, WriterOver, Unborn, Writing
    <3> QED
      BY <2>1, <2>3, <2>5, <3>1 DEF BatchDispatch
  <2>6. ASSUME NEW g \in Files, Redispatch(g) PROVE WriterOver(f)
    <3>1. WriterOver(g)
      BY <2>6, WriterIsOver DEF Redispatch
    <3> QED
      BY <2>3, <2>6, <3>1 DEF Redispatch
  <2>7. ASSUME NEW w \in Workers, WorkerStep(w) \/ WorkerFails(w) \/ Stall(w)
        PROVE  WriterOver(f)
    <3>1. ASSUME NEW g \in Files, Take(w, g) PROVE FALSE
      BY <1>1, <1>4, <3>1 DEF Take, TypeOK
    <3>2. ~Stall(w)
      BY <1>4, ConstantsAssumption DEF Stall, ConstantsAssumption
    <3> QED
      BY <2>1, <2>2, <2>7, <3>1, <3>2
         DEF WorkerStep, Inspect, Flip, Reject, Recheck, WorkerWipe, WorkerFails
  <2>8. ASSUME NEW c \in Confirms, ConfirmStep(c) \/ ConfirmFails(c) PROVE WriterOver(f)
    BY <2>1, <2>4, <2>8
       DEF ConfirmStep, ConfirmFind, ConfirmHead, ConfirmDiscard, ConfirmCreate, ConfirmCopy,
           ConfirmUnstage, ConfirmUndo, ConfirmRehead, ConfirmInspect, ConfirmCondemn,
           ConfirmWipe, ConfirmTransition, ConfirmReread, ConfirmFails
  <2>9. CASE BatchStep \/ BatchFails
    BY <2>1, <2>5, <2>9
       DEF BatchStep, BatchCreate, BatchUpload, BatchWipe, BatchDrop, BatchPublish, BatchFails
  <2>10. ASSUME NEW k \in Sweeps,
                SweepStep(k) \/ SweepFails(k) \/ \E g \in Files : Scan(k, g)
         PROVE  WriterOver(f)
    BY <2>1, <2>10 DEF SweepStep, SweepHead, Claim, SweepWipe, SweepDrop, SweepFails, Scan, SweepEnv
  <2>11. CASE UNCHANGED job
    BY <2>1, <2>11
  <2> QED
    BY <2>6, <2>7, <2>8, <2>9, <2>10, <2>11 DEF Next, vars, Stage, OwnerGone, SoftDelete
<1> QED
  BY <1>3, <1>4

\* What a worker slot has seen and done by its own step.
LEMMA WorkerOwn ==
  ASSUME IInv, Moves, NEW w \in Workers, WorkerStep(w) \/ WorkerFails(w) \/ Stall(w)
  PROVE  WorkerInv(w)' /\ \A v \in Workers \ {w} : wk'[v] = wk[v]
<1>0. PICK t \in Files \cup {None} : t = wk[w].file
  BY FilesTyped DEF IInv
<1>1. /\ TypeOK /\ WorkerInv(w) /\ wk[w] \in WorkerType
      /\ wk[w].pc # "idle" => t \in Files /\ WriterOver(t)
  BY <1>0, FilesTyped DEF IInv, WorkerInv
<1>2. \A f \in Files : WriterOver(f) => WriterOver(f)' /\ (Condemned(f) => Condemned(f)')
  BY Settled
<1>3. CASE wk' = [wk EXCEPT ![w] = Idle]
  <2>1. wk'[w].pc = "idle"
    BY <1>1, <1>3 DEF TypeOK, Idle
  <2> QED
    BY <1>1, <1>3, <2>1 DEF WorkerInv, TypeOK
<1>4. ASSUME NEW pc, WorkerTo(w, pc), wk[w].pc # "idle",
             pc = "flip" => obj'[t] \notin {"forged", "infected"},
             pc = "wipe" => Condemned(t)'
      PROVE  WorkerInv(w)' /\ \A v \in Workers \ {w} : wk'[v] = wk[v]
  <2>1. /\ wk'[w].pc = pc /\ wk'[w].file = t
        /\ \A v \in Workers \ {w} : wk'[v] = wk[v]
    BY <1>0, <1>1, <1>4 DEF WorkerTo, TypeOK, WorkerType
  <2>2. WriterOver(t)' /\ t \in Files
    BY <1>1, <1>2, <1>4
  <2> QED
    BY <1>4, <2>1, <2>2 DEF WorkerInv
<1>5. CASE Inspect(w)
  <2>1. wk[w].pc = "inspect" /\ obj' = obj
    BY <1>5 DEF Inspect
  <2> QED
    BY <1>0, <1>3, <1>4, <1>5, <2>1 DEF Inspect, JobEnds
<1>6. CASE Reject(w)
  <2>1. CASE WorkerTo(w, "wipe") /\ SetStatus(t, "REJECTED") /\ wk[w].pc = "reject"
    <3>1. Condemned(t)'
      BY <1>1, <2>1, RowFields DEF Condemned, SetStatus, TypeOK, Statuses
    <3> QED
      BY <1>4, <2>1, <3>1
  <2> QED
    BY <1>0, <1>4, <1>6, <2>1 DEF Reject
<1>7. CASE Recheck(w)
  <2>1. row[t].status = "REJECTED" /\ wk[w].pc = "recheck" => Condemned(t)'
    BY <1>1, <1>2 DEF Condemned
  <2> QED
    BY <1>0, <1>3, <1>4, <1>7, <2>1 DEF Recheck, JobEnds
<1>8. ASSUME NEW f \in Files, Take(w, f)
      PROVE  WorkerInv(w)' /\ \A v \in Workers \ {w} : wk'[v] = wk[v]
  <2>1. /\ wk'[w].pc = "inspect" /\ wk'[w].file = f
        /\ \A v \in Workers \ {w} : wk'[v] = wk[v]
    BY <1>1, <1>8 DEF Take, TypeOK
  <2>2. FileInv(f) /\ job[f] # "none"
    BY <1>8 DEF IInv, Take
  <2>3. WriterOver(f)'
    BY <1>2, <2>2 DEF FileInv
  <2> QED
    BY <2>1, <2>3 DEF WorkerInv
<1>9. CASE Stall(w)
  BY <1>3, <1>9, WorkerStable DEF Stall
<1> QED
  BY <1>3, <1>5, <1>6, <1>7, <1>8, <1>9 DEF WorkerStep, Flip, WorkerWipe, WorkerFails, JobEnds

\* A sweep scans a row only when its writer is over, and a READY one only when its
\* owner is gone or it is deleted.
LEMMA StaleRows ==
  ASSUME IInv, NEW k \in Sweeps, NEW f \in Files, Stale(k, f)
  PROVE  /\ WriterOver(f)
         /\ k = "purge" => Condemned(f)
         /\ k # "purge" => row[f].status # "READY" \/ orphaned
<1>1. FileInv(f) /\ TypeOK
  BY DEF IInv
<1>2. (Exists(f) \/ row[f].deleted) /\ ~InFlight(f) => WriterOver(f)
  BY <1>1 DEF InFlight, FileInv, WriterOver, Unborn, Writing, Exists, NoRow
<1>3. row[f].status \in {"REJECTED", "VERIFYING"} => WriterOver(f)
  BY WriterIsOver
<1> QED
  BY <1>2, <1>3 DEF Stale, Condemned, Exists

\* What a sweep has seen and done by its own step.
LEMMA SweepOwn ==
  ASSUME IInv, Moves, NEW k \in Sweeps,
         SweepStep(k) \/ SweepFails(k) \/ \E f \in Files : Scan(k, f)
  PROVE  SweepInv(k)' /\ \A h \in Sweeps \ {k} : sw'[h] = sw[h]
<1> USE DEF SweepEnv
<1>0. PICK t \in Files \cup {None} : t = sw[k].file
  BY FilesTyped DEF IInv
<1>1. /\ TypeOK /\ SweepInv(k) /\ sw[k] \in SweepType
      /\ sw[k].pc # "idle" => t \in Files /\ WriterOver(t)
  BY <1>0, FilesTyped DEF IInv, SweepInv
<1>2. \A f \in Files : WriterOver(f) => WriterOver(f)' /\ (Condemned(f) => Condemned(f)')
  BY Settled
<1>3. CASE SweepEnds(k)
  <2>1. sw'[k].pc = "idle"
    BY <1>1, <1>3 DEF SweepEnds, TypeOK, IdleSweep
  <2> QED
    BY <1>1, <1>3, <2>1 DEF SweepInv, SweepEnds, TypeOK
<1>4. ASSUME NEW pc \in {"claim", "wipe", "drop"}, SweepTo(k, pc), sw[k].pc # "idle"
      PROVE  /\ sw'[k].pc = pc /\ sw'[k].file = t /\ sw'[k].ver = sw[k].ver
             /\ t \in Files /\ WriterOver(t)'
             /\ \A h \in Sweeps \ {k} : sw'[h] = sw[h]
  BY <1>0, <1>1, <1>2, <1>4 DEF SweepTo, TypeOK, SweepType
<1>5. CASE SweepHead(k)
  <2>1. sw[k].pc = "head" /\ SweepTo(k, "claim") /\ UNCHANGED <<row, orphaned>>
    BY <1>5 DEF SweepHead
  <2>2. /\ sw'[k].pc = "claim" /\ sw'[k].file = t /\ sw'[k].ver = sw[k].ver
        /\ t \in Files /\ WriterOver(t)' /\ \A h \in Sweeps \ {k} : sw'[h] = sw[h]
    BY <1>4, <2>1
  <2>3. Exists(t) => /\ sw[k].ver <= row[t].ver
                     /\ sw[k].ver = row[t].ver => row[t].status # "READY" \/ orphaned
    BY <1>0, <1>1, <2>1 DEF SweepInv
  <2> QED
    BY <2>1, <2>2, <2>3 DEF SweepInv, Exists
<1>6. CASE Claim(k)
  <2>1. CASE SweepTo(k, "wipe") /\ SetStatus(t, "REJECTED") /\ sw[k].pc = "claim"
    <3>1. /\ sw'[k].pc = "wipe" /\ sw'[k].file = t
          /\ t \in Files /\ WriterOver(t)' /\ \A h \in Sweeps \ {k} : sw'[h] = sw[h]
      BY <1>4, <2>1
    <3>2. Condemned(t)'
      BY <1>1, <2>1, RowFields DEF Condemned, SetStatus, TypeOK, Statuses
    <3> QED
      BY <3>1, <3>2 DEF SweepInv
  <2> QED
    BY <1>0, <1>3, <1>6, <2>1 DEF Claim
<1>7. CASE SweepWipe(k)
  <2>1. sw[k].pc = "wipe" /\ SweepTo(k, "drop") /\ obj' = [obj EXCEPT ![t] = None]
    BY <1>0, <1>7 DEF SweepWipe, Wipe
  <2>2. /\ sw'[k].pc = "drop" /\ sw'[k].file = t
        /\ t \in Files /\ WriterOver(t)' /\ \A h \in Sweeps \ {k} : sw'[h] = sw[h]
    BY <1>4, <2>1
  <2>3. Condemned(t)' /\ obj'[t] = None
    BY <1>0, <1>1, <1>2, <2>1 DEF SweepInv, TypeOK
  <2> QED
    BY <2>2, <2>3 DEF SweepInv
<1>8. ASSUME NEW f \in Files, Scan(k, f)
      PROVE  SweepInv(k)' /\ \A h \in Sweeps \ {k} : sw'[h] = sw[h]
  <2>1. /\ Stale(k, f) /\ UNCHANGED <<row, orphaned>>
        /\ sw'[k].file = f /\ sw'[k].ver = row[f].ver
        /\ \/ k = "purge" /\ sw'[k].pc = "wipe"
           \/ k # "purge" /\ sw'[k].pc \in {"head", "claim"}
        /\ \A h \in Sweeps \ {k} : sw'[h] = sw[h]
    BY <1>1, <1>8 DEF Scan, TypeOK
  <2>2. WriterOver(f)' /\ (k = "purge" => Condemned(f)')
    BY <1>2, <2>1, StaleRows
  <2>3. k # "purge" => row[f].status # "READY" \/ orphaned
    BY <2>1, StaleRows
  <2>4. row[f].ver <= row[f].ver
    BY <1>1 DEF TypeOK, RowType
  <2> QED
    BY <2>1, <2>2, <2>3, <2>4 DEF SweepInv
<1> QED
  BY <1>3, <1>5, <1>6, <1>7, <1>8 DEF SweepStep, SweepDrop, SweepFails

(***************************************************************************)
(* The theorems.                                                           *)
(***************************************************************************)

\* The inductive invariant holds at first.
LEMMA InitInv == Init => IInv
<1> SUFFICES ASSUME Init PROVE IInv
  OBVIOUS
<1>1. TypeOK
  BY InitTyped
<1>2. PICK load \in Workloads :
        /\ api = [c \in Confirms |-> [Started(c) EXCEPT !.pc = IF c \in load THEN @ ELSE "done"]]
        /\ bt = [pc |-> IF Batch \subseteq load THEN "create" ELSE "done", left |-> Batch]
  BY DEF Init
<1>3. \A c \in Confirms : api[c].pc \in {"find", "done"} /\ api[c].target = c
  BY <1>2 DEF Started
<1>4. bt.pc \in {"create", "done"}
  BY <1>2
<1>5. /\ \A f \in Files : row[f] = NoRow /\ obj[f] = None /\ job[f] = "none"
      /\ \A w \in Workers : wk[w].pc = "idle"
      /\ \A k \in Sweeps : sw[k].pc = "idle"
  BY DEF Init, Idle, IdleSweep
<1>6. None \notin {"banned", "forged"}
  BY ConstantsAssumption DEF ConstantsAssumption, AllContents
<1>7. ASSUME NEW f \in Files PROVE FileInv(f)
  <2>1. ~Writing(f) /\ ~Stored(f)
    BY <1>3, <1>4 DEF Writing, Stored
  <2> QED
    BY <1>5, <1>6, <2>1 DEF FileInv, NoRow
<1>8. \A c \in Confirms : ConfirmInv(c)
  BY <1>3 DEF ConfirmInv
<1>9. BatchInv
  BY <1>4 DEF BatchInv
<1>10. /\ \A w \in Workers : WorkerInv(w)
       /\ \A k \in Sweeps : SweepInv(k)
  BY <1>5 DEF WorkerInv, SweepInv
<1>11. ServedFilesPassedTheChecks /\ OrphansOnlyAfterLostCopy /\ BatchIsAllOrNothing
  BY <1>5 DEF ServedFilesPassedTheChecks, OrphansOnlyAfterLostCopy, BatchIsAllOrNothing, Visible,
     Exists, NoRow
<1> QED
  BY <1>1, <1>7, <1>8, <1>9, <1>10, <1>11 DEF IInv

\* What every process knows is kept by every step, its own and the others'.
LEMMA ProcessesKept ==
  ASSUME IInv, [Next]_vars
  PROVE  /\ \A c \in Confirms : ConfirmInv(c)'
         /\ BatchInv'
         /\ \A w \in Workers : WorkerInv(w)'
         /\ \A k \in Sweeps : SweepInv(k)'
<1>1. Moves
  BY NextMoves
<1> USE DEF ApiEnv, BatchEnv, WorkerEnv, SweepEnv
<1>2. ASSUME UNCHANGED <<api, bt, wk, sw>>
      PROVE  /\ \A c \in Confirms : ConfirmInv(c)'
             /\ BatchInv'
             /\ \A w \in Workers : WorkerInv(w)'
             /\ \A k \in Sweeps : SweepInv(k)'
  BY <1>1, <1>2, ConfirmStable, BatchStable, WorkerStable, SweepStable
<1>3. ASSUME NEW c \in Confirms, ConfirmStep(c) \/ ConfirmFails(c)
      PROVE  /\ \A d \in Confirms : ConfirmInv(d)'
             /\ BatchInv'
             /\ \A w \in Workers : WorkerInv(w)'
             /\ \A k \in Sweeps : SweepInv(k)'
  <2>1. /\ \A d \in Confirms \ {c} : api'[d] = api[d]
        /\ bt' = bt /\ wk' = wk /\ sw' = sw
    BY <1>3, ConfirmPath DEF IInv
  <2>2. ConfirmInv(c)'
    BY <1>1, <1>3, ConfirmOwn
  <2>3. \A d \in Confirms \ {c} : ConfirmInv(d)'
    BY <1>1, <2>1, ConfirmStable
  <2> QED
    BY <1>1, <2>1, <2>2, <2>3, BatchStable, WorkerStable, SweepStable
<1>4. CASE BatchStep \/ BatchFails
  <2>1. api' = api /\ wk' = wk /\ sw' = sw
    BY <1>4 DEF BatchStep, BatchCreate, BatchUpload, BatchWipe, BatchDrop, BatchPublish,
       BatchDispatch, BatchFails
  <2> QED
    BY <1>1, <1>4, <2>1, BatchOwn, ConfirmStable, WorkerStable, SweepStable
<1>5. ASSUME NEW w \in Workers, WorkerStep(w) \/ WorkerFails(w) \/ Stall(w)
      PROVE  /\ \A c \in Confirms : ConfirmInv(c)'
             /\ BatchInv'
             /\ \A v \in Workers : WorkerInv(v)'
             /\ \A k \in Sweeps : SweepInv(k)'
  <2>1. api' = api /\ bt' = bt /\ sw' = sw
    BY <1>5 DEF WorkerStep, Inspect, Flip, Reject, Recheck, WorkerWipe, Take, WorkerFails, Stall
  <2>2. WorkerInv(w)' /\ \A v \in Workers \ {w} : wk'[v] = wk[v]
    BY <1>1, <1>5, WorkerOwn
  <2>3. \A v \in Workers \ {w} : WorkerInv(v)'
    BY <1>1, <2>2, WorkerStable
  <2> QED
    BY <1>1, <2>1, <2>2, <2>3, ConfirmStable, BatchStable, SweepStable
<1>6. ASSUME NEW k \in Sweeps, SweepStep(k) \/ SweepFails(k) \/ \E f \in Files : Scan(k, f)
      PROVE  /\ \A c \in Confirms : ConfirmInv(c)'
             /\ BatchInv'
             /\ \A w \in Workers : WorkerInv(w)'
             /\ \A h \in Sweeps : SweepInv(h)'
  <2>1. api' = api /\ bt' = bt /\ wk' = wk
    BY <1>6 DEF SweepStep, SweepHead, Claim, SweepWipe, SweepDrop, SweepFails, Scan
  <2>2. SweepInv(k)' /\ \A h \in Sweeps \ {k} : sw'[h] = sw[h]
    BY <1>1, <1>6, SweepOwn
  <2>3. \A h \in Sweeps \ {k} : SweepInv(h)'
    BY <1>1, <2>2, SweepStable
  <2> QED
    BY <1>1, <2>1, <2>2, <2>3, ConfirmStable, BatchStable, WorkerStable
<1> QED
  BY <1>2, <1>3, <1>4, <1>5, <1>6 DEF Next, vars, Stage, OwnerGone, SoftDelete, Redispatch

\* Every step keeps the inductive invariant.
LEMMA NextInv == IInv /\ [Next]_vars => IInv'
<1> SUFFICES ASSUME IInv, [Next]_vars PROVE IInv'
  OBVIOUS
<1>1. Moves
  BY NextMoves
<1>2. TypeOK'
  BY NextTyped DEF IInv
<1>3. ASSUME NEW f \in Files PROVE FileInv(f)'
  BY <1>1, <1>2, FilesKept, JobsKept DEF FileInv
<1> QED
  BY <1>1, <1>2, <1>3, ProcessesKept, ServedKept, OrphansKept, BatchKept DEF IInv

\* The inductive invariant: every file has one writer, every process that wipes an
\* object has condemned its row before, and what a process saw is still true or its
\* compare-and-set will fail.
THEOREM Inductive == Spec => []IInv
<1> QED
  BY InitInv, NextInv, PTL DEF Spec

\* Every variable stays in its type, whatever interleaves.
THEOREM Typed == Spec => []TypeOK
<1>1. IInv => TypeOK
  BY DEF IInv
<1> QED
  BY <1>1, Inductive, PTL

\* No file is served that lacks its object, broke policy or was not scanned, for any
\* number of confirms, workers and sweeps (verify-upload.handler.ts,
\* confirm-upload.handler.ts).
THEOREM Served == Spec => []ServedFilesPassedTheChecks
<1>1. IInv => ServedFilesPassedTheChecks
  BY DEF IInv
<1> QED
  BY <1>1, Inductive, PTL

\* An object never outlives its row but after a copy whose reply was lost
\* (stored-file-cleanup.task.ts).
THEOREM OrphansExplained == Spec => []OrphansOnlyAfterLostCopy
<1>1. IInv => OrphansOnlyAfterLostCopy
  BY DEF IInv
<1> QED
  BY <1>1, Inductive, PTL

\* A multipart request publishes all of its files or none (publishBatch,
\* prisma-stored-file.repository.ts).
THEOREM BatchAtomic == Spec => []BatchIsAllOrNothing
<1>1. IInv => BatchIsAllOrNothing
  BY DEF IInv
<1> QED
  BY <1>1, Inductive, PTL

\* No step skips VERIFYING or brings a rejected file back (stored-file.entity.ts).
THEOREM StatusAdvances == Spec => StatusOnlyAdvances
<1>1. ASSUME IInv, [Next]_vars, NEW f \in Files, Exists(f),
             row'[f].status \notin {"none", row[f].status}
      PROVE  <<row[f].status, row'[f].status>> \in LegalMoves
  <2>1. Moves /\ row[f].status \in Statuses \ {"none"} /\ FileInv(f)
    BY <1>1, NextMoves DEF IInv, TypeOK, RowType, Exists
  <2>2. ~Creates(f)
    BY <1>1, <2>1 DEF Creates, FileInv, Exists, NoRow
  <2> QED
    BY <1>1, <2>1, <2>2, StatusMoves DEF LegalMoves, Publishes, Flips
<1>2. IInv /\ [Next]_vars =>
        [\A f \in Files :
           Exists(f) /\ row'[f].status \notin {"none", row[f].status} =>
             <<row[f].status, row'[f].status>> \in LegalMoves]_vars
  BY <1>1
<1> QED
  BY <1>2, Inductive, PTL DEF Spec, StatusOnlyAdvances

\* A READY file stays READY until its user deletes it or its owner is gone: no claim
\* matches a row that changed after its scan (stored-file-cleanup.task.ts).
THEOREM ReadyKept == Spec => ReadyFileIsKept
<1>1. ASSUME IInv, [Next]_vars, NEW f \in Files,
             row[f].status = "READY", ~row[f].deleted, ~orphaned
      PROVE  row'[f].status = "READY"
  <2>1. Moves /\ FileInv(f)
    BY <1>1, NextMoves DEF IInv
  <2>2. ~Creates(f)
    BY <1>1, <2>1 DEF Creates, FileInv, NoRow
  <2> QED
    BY <1>1, <2>1, <2>2, StatusMoves DEF Drops, Condemned, Rejects, Publishes
<1>2. IInv /\ [Next]_vars =>
        [\A f \in Files :
           row[f].status = "READY" /\ ~row[f].deleted /\ ~orphaned
             => row'[f].status = "READY"]_vars
  BY <1>1
<1> QED
  BY <1>2, Inductive, PTL DEF Spec, ReadyFileIsKept

(***************************************************************************)
(* The refinement of UploadPromise.                                        *)
(***************************************************************************)

\* The status of a file as its users see it, case by case.
Sees(f) ==
  /\ Unborn(f) => UserStatus(f) = "absent" /\ ~Visible(f)
  /\ ~Unborn(f) /\ ~Visible(f) => UserStatus(f) = "gone"
  /\ Visible(f) =>
       /\ row[f].status = "FINALIZING" => UserStatus(f) = "arriving"
       /\ row[f].status = "VERIFYING" => UserStatus(f) = "verifying"
       /\ row[f].status = "READY" => UserStatus(f) = "served"
       /\ row[f].status = "REJECTED" => UserStatus(f) = "refused"
  /\ UserStatus(f) = "served" => Visible(f) /\ row[f].status = "READY"
  /\ UserStatus(f) # "served" => Shown(f) = {}
  /\ UserStatus(f) = "served"
       => Shown(f) = {<<obj[f], IF scanOn THEN row[f].scan ELSE "none">>}

\* The cases are disjoint: no row exists before its writer creates it.
LEMMA Seen ==
  ASSUME IInv, NEW f \in Files
  PROVE  Sees(f)
<1>1. Unborn(f) => ~Visible(f)
  BY DEF IInv, FileInv, Visible, Exists, NoRow
<1>2. row[f].status \in Statuses /\ (Visible(f) => row[f].status # "none")
  BY DEF IInv, TypeOK, RowType, Visible, Exists
<1> QED
  BY <1>1, <1>2 DEF Sees, UserStatus, Shown, Statuses

\* The same after a step.
LEMMA SeenNext ==
  ASSUME IInv', NEW f \in Files
  PROVE  Sees(f)'
<1>1. Unborn(f)' => ~Visible(f)'
  BY DEF IInv, FileInv, Visible, Exists, NoRow
<1>2. row'[f].status \in Statuses /\ (Visible(f)' => row'[f].status # "none")
  BY DEF IInv, TypeOK, RowType, Visible, Exists
<1> QED
  BY <1>1, <1>2 DEF Sees, UserStatus, Shown, Statuses

Same(f)  == UserStatus(f)' = UserStatus(f) /\ Shown(f)' = Shown(f)
Keeps(f) == row'[f] = row[f] /\ (Unborn(f)' <=> Unborn(f))

\* A file whose row and writer stay as they are looks the same to its users.
LEMMA KeptSame ==
  ASSUME IInv, IInv', Moves, NEW f \in Files, Keeps(f)
  PROVE  Same(f)
<1>0. (Visible(f)' <=> Visible(f)) /\ (Visible(f) => row[f].status \in Statuses \ {"none"})
  BY DEF Keeps, Visible, Exists, IInv, TypeOK, RowType
<1>1. UserStatus(f)' = UserStatus(f)
  BY <1>0, Seen, SeenNext DEF Sees, Keeps, Statuses
<1>2. CASE UserStatus(f) = "served"
  <2>1. obj'[f] = obj[f]
    BY <1>2, Seen, ObjectKept DEF Sees, Visible, Keeps
  <2> QED
    BY <1>1, <1>2, <2>1, Seen, SeenNext DEF Sees, Same, Keeps, Moves
<1>3. CASE UserStatus(f) # "served"
  BY <1>1, <1>3, Seen, SeenNext DEF Sees, Same
<1> QED
  BY <1>2, <1>3

\* The files of the promise are the files of the requests.
LEMMA SameFiles == Promise!Files = Files
<1>1. Promise!Files = UNION ({{c} : c \in Confirms} \cup {Batch})
  BY DEF Promise!Files
<1> QED
  BY <1>1

Status  == [f \in Files |-> UserStatus(f)]
Content == [f \in Files |-> Shown(f)]
Keeping == Status' = Status /\ Content' = Content

\* Pointwise equality of what users see is equality.
LEMMA AllSame ==
  ASSUME \A f \in Files : Same(f)
  PROVE  Keeping
  BY DEF Same, Status, Content, Keeping

\* A step that changes one file changes one entry of each.
LEMMA OneSame ==
  ASSUME NEW f \in Files, \A g \in Files \ {f} : Same(g)
  PROVE  /\ Status' = [Status EXCEPT ![f] = UserStatus(f)']
         /\ Content' = [Content EXCEPT ![f] = Shown(f)']
         /\ Shown(f)' = Shown(f) => Content' = Content
         /\ Status' = [g \in Files |-> IF g \in {f} THEN UserStatus(f)' ELSE Status[g]]
         /\ Content' = [g \in Files |-> IF g \in {f} THEN Shown(f)' ELSE Content[g]]
         /\ Status[f] = UserStatus(f)
  BY DEF Same, Status, Content

\* What is served at any time has passed the checks of that time.
LEMMA ServedNext ==
  ASSUME IInv', scanOn' = scanOn, NEW f \in Files, UserStatus(f)' = "served"
  PROVE  \E x \in (IF scanOn
                     THEN {<<y, Verdict(y)>> : y \in Contents \ {"forged", "banned", "infected"}}
                     ELSE (Contents \ {"forged", "banned"}) \X {"none"}) : Shown(f)' = {x}
<1>1. Visible(f)' /\ row'[f].status = "READY"
      /\ Shown(f)' = {<<obj'[f], IF scanOn THEN row'[f].scan ELSE "none">>}
  BY SeenNext DEF Sees
<1>2. obj'[f] \in Contents \ {"forged", "banned"}
  BY <1>1 DEF IInv, TypeOK, ServedFilesPassedTheChecks
<1>3. scanOn => obj'[f] # "infected" /\ row'[f].scan = Verdict(obj'[f])
  BY <1>1 DEF IInv, ServedFilesPassedTheChecks, Verdict
<1> QED
  BY <1>1, <1>2, <1>3

\* A step about one file, which is not the joint appearance or publication of a
\* batch, is a step of the promise.
LEMMA OneFile ==
  ASSUME IInv, IInv', Moves, NEW f \in Files, \A g \in Files \ {f} : Keeps(g),
         orphaned' = orphaned,
         f \in Batch => (Unborn(f)' <=> Unborn(f)) /\ (bt.pc # "publish" \/ bt' = bt)
  PROVE  Promise!Next \/ Keeping
<1> USE SameFiles DEF Status, Content
<1>1. scanOn' = scanOn /\ Sees(f) /\ Sees(f)' /\ FileInv(f) /\ FileInv(f)' /\ TypeOK
  BY Seen, SeenNext DEF Moves, IInv
<1>2. \A g \in Files \ {f} : Same(g)
  BY KeptSame
<1>3. Same(f) => Keeping
  BY <1>2, AllSame
<1>4. /\ Status' = [Status EXCEPT ![f] = UserStatus(f)']
      /\ Content' = [Content EXCEPT ![f] = Shown(f)']
      /\ Shown(f)' = Shown(f) => Content' = Content
      /\ Status' = [g \in Files |-> IF g \in {f} THEN UserStatus(f)' ELSE Status[g]]
      /\ Content' = [g \in Files |-> IF g \in {f} THEN Shown(f)' ELSE Content[g]]
      /\ Status[f] = UserStatus(f)
  BY <1>2, OneSame
<1>5. f \notin Batch => {f} \in {{c} : c \in Confirms} \cup {Batch}
  OBVIOUS
<1>6. ASSUME UserStatus(f) \in {"absent", "arriving", "refused"}, UserStatus(f)' = "gone"
      PROVE  Promise!Next
  <2>1. Shown(f)' = Shown(f)
    BY <1>1, <1>6 DEF Sees
  <2>2. Promise!Vanish(f)
    BY <1>1, <1>4, <1>6, <2>1 DEF Promise!Vanish
  <2> QED
    BY <2>2 DEF Promise!Next
<1>7. ASSUME UserStatus(f) \in {"arriving", "verifying", "served", "refused"}, UserStatus(f)' = "gone"
      PROVE  Promise!Next
  <2>1. Shown(f)' = {}
    BY <1>1, <1>7 DEF Sees
  <2>2. Promise!Delete(f)
    BY <1>1, <1>4, <1>7, <2>1 DEF Promise!Delete
  <2> QED
    BY <2>2 DEF Promise!Next
<1>8. ASSUME UserStatus(f) \in {"arriving", "verifying"} \/ (UserStatus(f) = "served" /\ orphaned),
             UserStatus(f)' = "refused"
      PROVE  Promise!Next
  <2>1. Shown(f)' = {}
    BY <1>1, <1>8 DEF Sees
  <2>2. Promise!Refuse(f)
    BY <1>1, <1>4, <1>8, <2>1 DEF Promise!Refuse
  <2> QED
    BY <2>2 DEF Promise!Next
<1>9. CASE row'[f] = row[f]
  <2>1. CASE Unborn(f)' <=> Unborn(f)
    BY <1>3, <1>9, <2>1, KeptSame DEF Keeps
  <2>2. CASE ~(Unborn(f)' <=> Unborn(f))
    <3>1. Unborn(f) /\ ~Unborn(f)' /\ ~Visible(f)'
      BY <1>1, <1>9, <2>2 DEF Moves, WriterMoves, Sees, Visible, Exists
    <3> QED
      BY <1>1, <1>6, <3>1 DEF Sees
  <2> QED
    BY <2>1, <2>2
<1>10. CASE row'[f] # row[f] /\ Creates(f) /\ row'[f].status = "FINALIZING" /\ ~row'[f].deleted
  <2>1. Unborn(f) /\ Visible(f)' /\ UserStatus(f) = "absent" /\ UserStatus(f)' = "arriving"
    BY <1>1, <1>10 DEF Creates, Sees, Visible, Exists
  <2>2. f \notin Batch /\ Shown(f)' = Shown(f)
    BY <1>1, <2>1 DEF Sees
  <2>3. Promise!Arrive({f})
    BY <1>1, <1>4, <2>1, <2>2 DEF Promise!Arrive
  <2> QED
    BY <1>5, <2>2, <2>3 DEF Promise!Next
<1>11. CASE Drops(f) /\ row'[f].status = "none" /\ ~row'[f].deleted
  <2>1. ~Unborn(f) /\ ~Visible(f)' /\ ~Unborn(f)'
    BY <1>1, <1>11 DEF Drops, WriterOver, Visible, Exists, Moves, WriterMoves
  <2>2. UserStatus(f)' = "gone" /\ Shown(f)' = {}
    BY <1>1, <2>1 DEF Sees
  <2>3. UserStatus(f) \in {"gone", "refused", "arriving"}
    BY <1>1, <1>11, <2>1 DEF Drops, Condemned, Sees, Visible, Exists
  <2> QED
    BY <1>1, <1>3, <1>6, <2>2, <2>3 DEF Sees, Same
<1>12. CASE Deletes(f) /\ row'[f].status = row[f].status /\ row'[f].deleted
  <2>1. Visible(f) /\ ~Visible(f)' /\ ~Unborn(f) /\ ~Unborn(f)'
    BY <1>1, <1>12 DEF Deletes, Sees, Visible, Moves, WriterMoves
  <2>2. row[f].status \in Statuses \ {"none"}
    BY <1>1, <2>1 DEF Visible, Exists, TypeOK, RowType
  <2>3. UserStatus(f) \in {"arriving", "verifying", "served", "refused"} /\ UserStatus(f)' = "gone"
    BY <1>1, <2>1, <2>2 DEF Sees, Statuses
  <2> QED
    BY <1>7, <2>3
<1>13. CASE Rejects(f) /\ row'[f].status = "REJECTED"
  <2>1. /\ row'[f].deleted = row[f].deleted /\ Exists(f) /\ ~Unborn(f) /\ ~Unborn(f)'
        /\ row[f].status \in Statuses \ {"none"}
    BY <1>1, <1>13, RowFields
       DEF Rejects, WriterOver, Exists, Moves, WriterMoves, TypeOK, RowType, Statuses
  <2>2. CASE row[f].deleted
    <3>1. UserStatus(f) = "gone" /\ UserStatus(f)' = "gone"
      BY <1>1, <2>1, <2>2 DEF Sees, Visible
    <3> QED
      BY <1>1, <1>3, <3>1 DEF Sees, Same
  <2>3. CASE ~row[f].deleted
    <3>1. Visible(f) /\ Visible(f)' /\ UserStatus(f)' = "refused"
      BY <1>1, <1>13, <2>1, <2>3 DEF Sees, Visible, Exists
    <3>2. UserStatus(f) \in {"arriving", "verifying", "refused"} \/ (UserStatus(f) = "served" /\ orphaned)
      BY <1>1, <1>13, <2>1, <2>3, <3>1 DEF Sees, Rejects, Statuses
    <3> QED
      BY <1>1, <1>3, <1>8, <3>1, <3>2 DEF Sees, Same
  <2> QED
    BY <2>2, <2>3
<1>14. CASE row'[f] # row[f] /\ Publishes(f) /\ row'[f].status = PublishedStatus
  <2>1. /\ row'[f].deleted = row[f].deleted /\ f \notin Batch
        /\ UserStatus(f) = "arriving" /\ Visible(f)'
    BY <1>1, <1>14, RowFields
       DEF Publishes, PublishedStatus, Statuses, Sees, Visible, Exists
  <2>2. CASE scanOn
    <3>1. UserStatus(f)' = "verifying" /\ Shown(f)' = Shown(f)
      BY <1>1, <1>14, <2>1, <2>2 DEF Sees, PublishedStatus
    <3>2. Promise!Submit({f})
      BY <1>1, <1>4, <2>1, <2>2, <3>1 DEF Promise!Submit
    <3> QED
      BY <1>5, <2>1, <3>2 DEF Promise!Next
  <2>3. CASE ~scanOn
    <3>1. UserStatus(f)' = "served"
      BY <1>1, <1>14, <2>1, <2>3 DEF Sees, PublishedStatus
    <3>2. PICK x \in (Contents \ {"forged", "banned"}) \X {"none"} : Shown(f)' = {x}
      BY <1>1, <2>3, <3>1, ServedNext
    <3>3. /\ [g \in {f} |-> x] \in [{f} -> Promise!Servable]
          /\ Content' = [g \in Files |-> IF g \in {f} THEN {[h \in {f} |-> x][g]} ELSE Content[g]]
      BY <1>4, <2>3, <3>2 DEF Promise!Servable
    <3>4. Promise!Publish({f})
      BY <1>1, <1>4, <2>1, <2>3, <3>1, <3>3 DEF Promise!Publish
    <3> QED
      BY <1>5, <2>1, <3>4 DEF Promise!Next
  <2> QED
    BY <2>2, <2>3
<1>15. CASE Flips(f) /\ row'[f].status = "READY"
  <2>1. row'[f].deleted = row[f].deleted /\ UserStatus(f) = "verifying" /\ UserStatus(f)' = "served"
    BY <1>1, <1>15, RowFields DEF Flips, Statuses, Sees, Visible, Exists
  <2>2. PICK x \in Promise!Servable : Shown(f)' = {x}
    BY <1>1, <2>1, ServedNext DEF Promise!Servable
  <2>3. Promise!Verify(f)
    BY <1>1, <1>4, <2>1, <2>2 DEF Promise!Verify
  <2> QED
    BY <2>3 DEF Promise!Next
<1> QED
  BY <1>9, <1>10, <1>11, <1>12, <1>13, <1>14, <1>15, StatusMoves

\* A confirm changes its own file, or the row of the file it recovers.
LEMMA ConfirmPromises ==
  ASSUME IInv, IInv', NEW c \in Confirms, ConfirmStep(c) \/ ConfirmFails(c)
  PROVE  Promise!Next \/ Keeping
<1> USE DEF ApiEnv
<1> DEFINE t == api[c].target
<1>1. TypeOK /\ t \in Confirms /\ Moves /\ c \notin Batch /\ t \notin Batch
  BY FilesTyped, ConfirmMoves, ConstantsAssumption DEF IInv, ConstantsAssumption
<1>2. bt' = bt /\ orphaned' = orphaned /\ \A d \in Confirms \ {c} : api'[d] = api[d]
  BY <1>1, ConfirmPath
<1>3. \A g \in Files \ {c} : Unborn(g)' <=> Unborn(g)
  BY <1>2 DEF Unborn
<1>4. CASE \A g \in Files \ {c} : row'[g] = row[g]
  BY <1>1, <1>2, <1>3, <1>4, OneFile DEF Keeps
<1>5. CASE ~\A g \in Files \ {c} : row'[g] = row[g]
  <2>1. ConfirmCondemn(c) \/ ConfirmTransition(c)
    BY <1>1, <1>5
       DEF ConfirmStep, ConfirmFind, ConfirmHead, ConfirmDiscard, ConfirmCreate, ConfirmCopy,
           ConfirmUnstage, ConfirmUndo, ConfirmRehead, ConfirmInspect, ConfirmWipe, ConfirmReread,
           ConfirmPublish, ConfirmFails, DropUnfinished, DropRow, TypeOK
  <2>2. /\ api[c].pc \in {"condemn", "transition"}
        /\ \A g \in Files \ {t} : row'[g] = row[g]
    BY <1>1, <2>1 DEF ConfirmCondemn, ConfirmTransition, SetStatus, TypeOK
  <2>3. ~Unborn(c) /\ ~Unborn(c)'
    BY <1>1, <2>2 DEF Unborn, Moves, WriterMoves
  <2>4. \A g \in Files \ {t} : Keeps(g)
    BY <1>3, <2>2, <2>3 DEF Keeps
  <2> QED
    BY <1>1, <1>2, <2>4, OneFile
<1> QED
  BY <1>4, <1>5

\* A multipart request creates and publishes its files together, and drops them one
\* by one.
LEMMA BatchPromises ==
  ASSUME IInv, IInv', BatchStep \/ BatchFails
  PROVE  Promise!Next \/ Keeping
<1> USE DEF BatchEnv, AtBatch
<1>1. TypeOK /\ Moves /\ bt \in BatchType
  BY BatchMoves DEF IInv, TypeOK
<1>2. api' = api /\ orphaned' = orphaned /\ scanOn' = scanOn
  BY DEF BatchStep, BatchCreate, BatchUpload, BatchWipe, BatchDrop, BatchPublish, BatchDispatch,
     BatchFails
<1>3. \A g \in Files : Sees(g) /\ Sees(g)'
  BY Seen, SeenNext
<1>4. CASE BatchCreate
  <2>1. /\ bt.pc = "create" /\ bt'.pc = "upload"
        /\ \A g \in Files : row'[g] = IF g \in Batch THEN Fresh ELSE row[g]
    BY <1>4 DEF BatchCreate, BatchTo, Fresh
  <2>2. ASSUME NEW g \in Files \ Batch PROVE Same(g)
    <3>1. Keeps(g)
      BY <1>2, <2>1, <2>2 DEF Keeps, Unborn
    <3> QED
      BY <1>1, <3>1, KeptSame
  <2>3. ASSUME NEW g \in Batch
        PROVE  UserStatus(g) = "absent" /\ UserStatus(g)' = "arriving" /\ Shown(g)' = Shown(g)
    <3>1. Unborn(g) /\ Visible(g)' /\ row'[g].status = "FINALIZING"
      BY <2>1, <2>3 DEF Unborn, Fresh, NoRow, Visible, Exists
    <3> QED
      BY <1>3, <3>1 DEF Sees
  <2>4. Status' = [g \in Files |-> IF g \in Batch THEN "arriving" ELSE Status[g]]
        /\ Content' = Content
    BY <2>2, <2>3 DEF Status, Content, Same
  <2>5. Promise!Arrive(Batch)
    BY <1>2, <2>3, <2>4, SameFiles DEF Promise!Arrive, Status, Content
  <2> QED
    BY <2>5 DEF Promise!Next
<1>5. CASE BatchPublish /\ ~UNCHANGED row
  <2>1. /\ bt.pc = "publish" /\ bt'.pc # "create"
        /\ \A g \in Files : row'[g] = IF g \in Batch THEN Written(g, PublishedStatus) ELSE row[g]
        /\ \A g \in Batch : Visible(g) /\ row[g].status = "FINALIZING"
    BY <1>5 DEF BatchPublish, BatchTo, Publishable, Matches, PublishedStatus, Visible, Exists
  <2>2. ASSUME NEW g \in Files \ Batch PROVE Same(g)
    <3>1. Keeps(g)
      BY <1>2, <2>1, <2>2 DEF Keeps, Unborn
    <3> QED
      BY <1>1, <3>1, KeptSame
  <2>3. ASSUME NEW g \in Batch
        PROVE  /\ UserStatus(g) = "arriving"
               /\ UserStatus(g)' = IF scanOn THEN "verifying" ELSE "served"
    <3>1. Visible(g)' /\ row'[g].status = PublishedStatus
      BY <1>1, <2>1, <2>3, RowFields DEF PublishedStatus, Statuses, Visible, Exists
    <3> QED
      BY <1>2, <1>3, <2>1, <2>3, <3>1 DEF Sees, PublishedStatus
  <2>4. CASE scanOn
    <3>1. Status' = [g \in Files |-> IF g \in Batch THEN "verifying" ELSE Status[g]]
      BY <2>2, <2>3, <2>4 DEF Status, Same
    <3>2. \A g \in Batch : Shown(g)' = Shown(g)
      BY <1>3, <2>3, <2>4 DEF Sees
    <3>3. Content' = Content
      BY <2>2, <3>2 DEF Content, Same
    <3>4. Promise!Submit(Batch)
      BY <1>2, <2>3, <2>4, <3>1, <3>3, SameFiles DEF Promise!Submit, Status, Content
    <3> QED
      BY <3>4 DEF Promise!Next
  <2>5. CASE ~scanOn
    <3>1. Status' = [g \in Files |-> IF g \in Batch THEN "served" ELSE Status[g]]
      BY <2>2, <2>3, <2>5 DEF Status, Same
    <3> DEFINE x == [g \in Batch |-> CHOOSE y \in Promise!Servable : Shown(g)' = {y}]
    <3>2. ASSUME NEW g \in Batch PROVE x[g] \in Promise!Servable /\ Shown(g)' = {x[g]}
      <4>1. \E y \in Promise!Servable : Shown(g)' = {y}
        BY <1>2, <2>3, <2>5, <3>2, ServedNext DEF Promise!Servable
      <4> QED
        BY <4>1
    <3>3. x \in [Batch -> Promise!Servable]
      BY <3>2
    <3> HIDE DEF x
    <3>4. Content' = [g \in Files |-> IF g \in Batch THEN {x[g]} ELSE Content[g]]
      BY <2>2, <3>2 DEF Content, Same
    <3>5. Promise!Publish(Batch)
      BY <1>2, <2>3, <2>5, <3>1, <3>3, <3>4, SameFiles DEF Promise!Publish, Status, Content
    <3> QED
      BY <3>5 DEF Promise!Next
  <2> QED
    BY <2>4, <2>5
<1>6. CASE ~BatchCreate /\ ~(BatchPublish /\ ~UNCHANGED row)
  <2>1. bt.pc # "create" /\ bt'.pc # "create"
    BY <1>1, <1>6 DEF BatchStep, BatchUpload, BatchWipe, BatchDrop, BatchPublish, BatchDispatch,
       BatchFails, BatchTo, BatchNext, BatchType
  <2>2. \A g \in Files : Unborn(g)' <=> Unborn(g)
    BY <1>2, <2>1 DEF Unborn
  <2>3. CASE UNCHANGED row
    BY <1>1, <2>2, <2>3, KeptSame, AllSame DEF Keeps
  <2>4. CASE ~UNCHANGED row
    <3>1. PICK f \in Batch : BatchDrop(f)
      BY <1>6, <2>4 DEF BatchStep, BatchUpload, BatchWipe, BatchDispatch, BatchFails
    <3>2. bt.pc = "drop" /\ \A g \in Files \ {f} : row'[g] = row[g]
      BY <1>1, <3>1 DEF BatchDrop, DropUnfinished, DropRow, TypeOK
    <3> QED
      BY <1>1, <1>2, <2>2, <3>1, <3>2, OneFile DEF Keeps
  <2> QED
    BY <2>3, <2>4
<1> QED
  BY <1>4, <1>5, <1>6

\* Workers, sweeps and clients change one row at a time, and no writer.
LEMMA OthersPromise ==
  ASSUME IInv, IInv', Moves, UNCHANGED <<api, bt, orphaned>>,
         \A f, g \in Files : row'[f] # row[f] /\ row'[g] # row[g] => f = g
  PROVE  Promise!Next \/ Keeping
<1>1. \A g \in Files : Unborn(g)' <=> Unborn(g)
  BY DEF Unborn
<1>2. CASE \A g \in Files : row'[g] = row[g]
  BY <1>1, <1>2, KeptSame, AllSame DEF Keeps
<1>3. CASE \E f \in Files : row'[f] # row[f]
  <2>1. PICK f \in Files : row'[f] # row[f]
    BY <1>3
  <2>2. \A g \in Files \ {f} : Keeps(g)
    BY <1>1, <2>1 DEF Keeps
  <2> QED
    BY <1>1, <2>1, <2>2, OneFile
<1> QED
  BY <1>2, <1>3

\* Every step is a step of the promise, or shows the users nothing.
LEMMA NextPromises ==
  ASSUME IInv, IInv', [Next]_vars
  PROVE  Promise!Next \/ (Keeping /\ UNCHANGED <<scanOn, orphaned>>)
<1>1. Moves /\ TypeOK
  BY NextMoves DEF IInv
<1>2. CASE OwnerGone
  <2>1. \A g \in Files : Keeps(g)
    BY <1>2 DEF OwnerGone, Keeps, Unborn
  <2>2. Keeping
    BY <1>1, <2>1, KeptSame, AllSame
  <2>3. Promise!OwnerGone
    BY <1>2, <2>2 DEF OwnerGone, Promise!OwnerGone, Keeping, Status, Content
  <2> QED
    BY <2>3 DEF Promise!Next
<1>3. SUFFICES ASSUME ~OwnerGone PROVE (Promise!Next \/ Keeping) /\ UNCHANGED <<scanOn, orphaned>>
  BY <1>2
<1>4. UNCHANGED <<scanOn, orphaned>>
  BY <1>3 DEF Next, vars, Stage, SoftDelete, Redispatch, ConfirmStep, ConfirmFind, ConfirmHead,
     ConfirmDiscard, ConfirmCreate, ConfirmCopy, ConfirmUnstage, ConfirmUndo, ConfirmRehead,
     ConfirmInspect, ConfirmCondemn, ConfirmWipe, ConfirmTransition, ConfirmReread, ConfirmPublish,
     ConfirmFails, ApiEnv, BatchStep, BatchCreate, BatchUpload, BatchWipe, BatchDrop, BatchPublish,
     BatchDispatch, BatchFails, BatchEnv, WorkerStep, Take, Inspect, Flip, Reject, Recheck,
     WorkerWipe, WorkerFails, Stall, WorkerEnv, SweepStep, SweepHead, Claim, SweepWipe, SweepDrop,
     SweepFails, Scan, SweepEnv
<1>5. ASSUME NEW c \in Confirms, ConfirmStep(c) \/ ConfirmFails(c) PROVE Promise!Next \/ Keeping
  BY <1>5, ConfirmPromises
<1>6. CASE BatchStep \/ BatchFails
  BY <1>4, <1>6, BatchPromises
<1>7. ASSUME NEW w \in Workers, WorkerStep(w) \/ WorkerFails(w) \/ Stall(w)
      PROVE  Promise!Next \/ Keeping
  <2>1. UNCHANGED <<api, bt>> /\ \A f, g \in Files : row'[f] # row[f] /\ row'[g] # row[g] => f = g
    BY <1>1, <1>7 DEF WorkerStep, Take, Inspect, Flip, Reject, Recheck, WorkerWipe, WorkerFails,
       Stall, WorkerEnv, SetStatus, TypeOK
  <2> QED
    BY <1>1, <1>4, <2>1, OthersPromise
<1>8. ASSUME NEW k \in Sweeps, SweepStep(k) \/ SweepFails(k) \/ \E f \in Files : Scan(k, f)
      PROVE  Promise!Next \/ Keeping
  <2>1. UNCHANGED <<api, bt>> /\ \A f, g \in Files : row'[f] # row[f] /\ row'[g] # row[g] => f = g
    BY <1>1, <1>8 DEF SweepStep, SweepHead, Claim, SweepWipe, SweepDrop, SweepFails, Scan, SweepEnv,
       SetStatus, DropRow, TypeOK
  <2> QED
    BY <1>1, <1>4, <2>1, OthersPromise
<1>9. ASSUME NEW h \in Files, SoftDelete(h) \/ Redispatch(h) PROVE Promise!Next \/ Keeping
  <2>1. UNCHANGED <<api, bt>> /\ \A f, g \in Files : row'[f] # row[f] /\ row'[g] # row[g] => f = g
    BY <1>1, <1>9 DEF SoftDelete, Redispatch, TypeOK
  <2> QED
    BY <1>1, <1>4, <2>1, OthersPromise
<1>10. CASE (\E x \in Contents : Stage(x)) \/ UNCHANGED vars
  <2>1. UNCHANGED <<row, api, bt>>
    BY <1>10 DEF Stage, vars
  <2> QED
    BY <1>1, <1>4, <2>1, OthersPromise
<1> QED
  BY <1>3, <1>4, <1>5, <1>6, <1>7, <1>8, <1>9, <1>10 DEF Next

\* Every file starts absent, or its request never comes.
LEMMA InitPromises == Init => Promise!Init
<1> SUFFICES ASSUME Init PROVE Promise!Init
  OBVIOUS
<1>1. IInv
  BY InitInv
<1>2. \A f \in Files : ~Visible(f)
  BY DEF Init, Visible, Exists, NoRow
<1>3. \A f \in Files : UserStatus(f) \in {"absent", "gone"} /\ Shown(f) = {}
  BY <1>1, <1>2, Seen DEF Sees
<1> QED
  BY <1>3, SameFiles DEF Init, Promise!Init

\* Whatever confirms, workers, sweeps and crashes do to rows, objects and jobs, users
\* see a file appear, pass its checks, stay as it is and go (ConfirmUploadHandler,
\* UploadFilesHandler, VerifyUploadHandler, StoredFileCleanupTask).
THEOREM KeepsThePromise == Spec => PublishesAsPromised
<1>1. IInv /\ IInv' /\ [Next]_vars => [Promise!Next]_(Promise!vars)
  BY NextPromises DEF Promise!vars, Keeping, Status, Content
<1> QED
  BY <1>1, InitPromises, Inductive, PTL DEF Spec, PublishesAsPromised, Promise!Spec
=============================================================================
