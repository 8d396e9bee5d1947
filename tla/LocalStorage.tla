---------------------------- MODULE LocalStorage ----------------------------
(***************************************************************************)
(* The local-disk driver behind StoragePort (libs/infra/storage): an       *)
(* object is two files, its bytes and a JSON file with its ETag, and no    *)
(* call of the file system covers both.  Presigned uploads write a staging *)
(* key, a confirmation reads its ETag and moves it to a fresh final key,   *)
(* downloads read final keys, deletions and the hourly expiry of the       *)
(* scheduler remove files.  Each rename, unlink, stat or read is a step.   *)
(* An ETag is the SHA-256 of the bytes: a content stands for both.         *)
(***************************************************************************)
EXTENDS Integers, FiniteSets

CONSTANTS
  Uploads,   \* presigned uploads to the staging key
  Finals,    \* confirmations, each with a final key of its own
  Source,    \* the staging key
  Contents,
  None,      \* no file
  MaxFaults  \* bound on failed calls and crashes

Keys == Finals \cup {Source}

ASSUME ConstantsAssumption ==
  /\ Source \notin Finals
  /\ None \notin Contents \cup Keys
  /\ MaxFaults \in Nat

VARIABLES
  obj,     \* obj[k]: the bytes under objects/k
  meta,    \* meta[k]: the ETag in meta/k.json
  claim,   \* claim[f]: the staged object that finalize f renamed into tmp
  aged,    \* Source or finals: the staged or claimed file is older than the cutoff
  up,      \* up[u]: where upload u is, with the bytes in its temporary file
  fin,     \* fin[f]: where confirmation f is, with the ETag it confirms
  rd,      \* the download under way
  rm,      \* the deletion under way
  ex,      \* the expiry run
  last,    \* history: the bytes accepted last, None once their loss is excused
  faults

vars == <<obj, meta, claim, aged, up, fin, rd, rm, ex, last, faults>>

NoReader == [pc |-> "idle", file |-> None, etag |-> None, got |-> None]
NoRemoval == [pc |-> "idle", key |-> None]

UpRecord == [pc : {"new", "meta", "object", "done", "failed"}, body : Contents \cup {None}]
FinSteps == {"new", "head", "stat", "read", "claim", "digest", "meta", "object", "unstage",
             "restore", "discard", "none", "ok", "failed", "lost"}
FinRecord == [pc : FinSteps, want : Contents \cup {None}]
\* Before the ETag to confirm is known.
Early == {"new", "head", "none"}

TypeOK ==
  /\ obj \in [Keys -> Contents \cup {None}] /\ meta \in [Keys -> Contents \cup {None}]
  /\ claim \in [Finals -> Contents \cup {None}]
  /\ aged \subseteq Keys
  /\ up \in [Uploads -> UpRecord]
  /\ fin \in [Finals -> FinRecord]
  /\ \A f \in Finals : fin[f].pc \notin Early => fin[f].want \in Contents
  /\ rd \in [pc : {"idle", "read", "open", "served"}, file : Finals \cup {None},
             etag : Contents \cup {None}, got : Contents \cup {None}]
  /\ rm \in [pc : {"idle", "object", "meta"}, key : Keys \cup {None}]
  /\ ex \in {"idle", "object", "meta", "temps"}
  /\ last \in Contents \cup {None}
  /\ faults \in 0..MaxFaults

Init ==
  /\ obj = [k \in Keys |-> None] /\ meta = [k \in Keys |-> None]
  /\ claim = [f \in Finals |-> None]
  /\ aged = {}
  /\ up = [u \in Uploads |-> [pc |-> "new", body |-> None]]
  /\ fin = [f \in Finals |-> [pc |-> "new", want |-> None]]
  /\ rd = NoReader /\ rm = NoRemoval /\ ex = "idle"
  /\ last = None /\ faults = 0

Fault == faults < MaxFaults /\ faults' = faults + 1

----------------------------------------------------------------------------
(* Who is between two changes of the staging key.                          *)

Writing(u)  == up[u].pc = "object"
Moving(f)   == fin[f].pc \in {"digest", "meta", "object", "unstage", "restore", "discard"}
Removing(k) == rm.pc = "meta" /\ rm.key = k
Changing == (\E u \in Uploads : Writing(u)) \/ (\E f \in Finals : Moving(f))
              \/ Removing(Source) \/ ex = "meta"

----------------------------------------------------------------------------
(* acceptPresignedUpload and writeObject: the body streams into a temporary*)
(* file; commit renames the metadata first and the bytes second.           *)

UpEnv == <<claim, fin, rd, rm, ex>>

Receive(u, x) ==
  /\ up[u].pc = "new"
  /\ up' = [up EXCEPT ![u] = [pc |-> "meta", body |-> x]]
  /\ UNCHANGED <<obj, meta, aged, last, faults, UpEnv>>

UploadMeta(u) ==
  /\ up[u].pc = "meta"
  /\ meta' = [meta EXCEPT ![Source] = up[u].body]
  /\ up' = [up EXCEPT ![u].pc = "object"]
  /\ UNCHANGED <<obj, aged, last, faults, UpEnv>>

UploadObject(u) ==
  /\ up[u].pc = "object"
  /\ obj' = [obj EXCEPT ![Source] = up[u].body]
  /\ aged' = aged \ {Source}
  /\ up' = [up EXCEPT ![u] = [pc |-> "done", body |-> None]]
  /\ last' = up[u].body
  /\ UNCHANGED <<meta, faults, UpEnv>>

\* Aborted, out of its size range, or a call fails: the temporary file goes.
UploadFails(u) ==
  /\ up[u].pc \in {"meta", "object"} /\ Fault
  /\ up' = [up EXCEPT ![u] = [pc |-> "failed", body |-> None]]
  /\ UNCHANGED <<obj, meta, aged, last, UpEnv>>

----------------------------------------------------------------------------
(* Confirmation: head(), then finalize().                                  *)

Goto(f, pc) == fin' = [fin EXCEPT ![f].pc = pc]
FinEnv == <<up, rd, rm, ex>>

\* readMeta looks at the object first, then reads the metadata.  The unique
\* sourceKey admits one confirmation at a time.
Head(f) ==
  /\ fin[f].pc = "new"
  /\ \A g \in Finals : fin[g].pc \in {"new", "none", "ok", "failed", "lost"}
  /\ obj[Source] # None
  /\ Goto(f, "head")
  /\ UNCHANGED <<obj, meta, claim, aged, last, faults, FinEnv>>

\* Missing metadata is taken for an ETag.
HeadReadAnything(f) ==
  /\ fin[f].pc = "head"
  /\ fin' = [fin EXCEPT ![f] = [pc |-> "stat", want |-> meta[Source]]]
  /\ UNCHANGED <<obj, meta, claim, aged, last, faults, FinEnv>>

HeadRead(f) ==
  /\ fin[f].pc = "head"
  /\ fin' = [fin EXCEPT ![f] = IF meta[Source] = None THEN [@ EXCEPT !.pc = "none"]
                               ELSE [pc |-> "stat", want |-> meta[Source]]]
  /\ UNCHANGED <<obj, meta, claim, aged, last, faults, FinEnv>>

\* readMeta of finalize; a missing or different ETag fails it before it changed
\* anything.
Stat(f) ==
  /\ fin[f].pc = "stat"
  /\ Goto(f, IF obj[Source] = None THEN "failed" ELSE "read")
  /\ UNCHANGED <<obj, meta, claim, aged, last, faults, FinEnv>>

Read(f) ==
  /\ fin[f].pc = "read"
  /\ Goto(f, IF meta[Source] = fin[f].want THEN "claim" ELSE "failed")
  /\ UNCHANGED <<obj, meta, claim, aged, last, faults, FinEnv>>

\* rename(source, claimed); the modification time moves with the file.
Claim(f) ==
  /\ fin[f].pc = "claim"
  /\ \/ /\ obj[Source] = None
        /\ Goto(f, "failed")
        /\ UNCHANGED <<obj, claim, aged>>
     \/ /\ obj[Source] # None
        /\ claim' = [claim EXCEPT ![f] = obj[Source]]
        /\ obj' = [obj EXCEPT ![Source] = None]
        /\ aged' = IF Source \in aged THEN (aged \ {Source}) \cup {f} ELSE aged
        /\ Goto(f, "digest")
  /\ UNCHANGED <<meta, last, faults, FinEnv>>

\* Without the second look at the bytes.
AnyDigest(f) == claim[f] # None

DigestMatches(f) == claim[f] # None /\ claim[f] = fin[f].want

Digest(f) ==
  /\ fin[f].pc = "digest"
  /\ Goto(f, IF DigestMatches(f) THEN "meta" ELSE "restore")
  /\ UNCHANGED <<obj, meta, claim, aged, last, faults, FinEnv>>

CommitMeta(f) ==
  /\ fin[f].pc = "meta"
  /\ meta' = [meta EXCEPT ![f] = fin[f].want]
  /\ Goto(f, "object")
  /\ UNCHANGED <<obj, claim, aged, last, faults, FinEnv>>

\* The rename fails when the expiry took the claimed file.
CommitObject(f) ==
  /\ fin[f].pc = "object"
  /\ \/ /\ claim[f] = None
        /\ Goto(f, "restore")
        /\ UNCHANGED <<obj, claim, aged>>
     \/ /\ claim[f] # None
        /\ obj' = [obj EXCEPT ![f] = claim[f]]
        /\ claim' = [claim EXCEPT ![f] = None]
        /\ aged' = aged \ {f}
        /\ Goto(f, "unstage")
  /\ UNCHANGED <<meta, last, faults, FinEnv>>

\* A failure of the unlink fails the call.
UnstageOrFail(f) ==
  /\ fin[f].pc = "unstage"
  /\ \/ meta' = [meta EXCEPT ![Source] = None] /\ Goto(f, "ok") /\ UNCHANGED faults
     \/ Fault /\ Goto(f, "failed") /\ UNCHANGED meta
  /\ UNCHANGED <<obj, claim, aged, last, FinEnv>>

\* A failure is only logged.
Unstage(f) ==
  /\ fin[f].pc = "unstage"
  /\ \/ meta' = [meta EXCEPT ![Source] = None] /\ UNCHANGED faults
     \/ Fault /\ UNCHANGED meta
  /\ Goto(f, "ok")
  /\ UNCHANGED <<obj, claim, aged, last, FinEnv>>

\* restoreClaimed without the link: the claimed file is only discarded.
RestoreNothing(f) ==
  /\ fin[f].pc = "restore"
  /\ Goto(f, "discard")
  /\ UNCHANGED <<obj, meta, claim, aged, last, faults, FinEnv>>

\* restoreClaimed: link() never replaces a newer object; any other error keeps the
\* claimed file in tmp.
Restore(f) ==
  /\ fin[f].pc = "restore"
  /\ \/ /\ claim[f] # None
        /\ obj' = [obj EXCEPT ![Source] = IF @ = None THEN claim[f] ELSE @]
        /\ aged' = IF obj[Source] = None /\ f \in aged THEN aged \cup {Source} ELSE aged
        /\ Goto(f, "discard")
        /\ UNCHANGED <<faults, last>>
     \/ /\ \/ claim[f] = None /\ UNCHANGED faults
           \/ Fault
        /\ Goto(f, "failed")
        /\ last' = None
        /\ UNCHANGED <<obj, aged>>
  /\ UNCHANGED <<meta, claim, FinEnv>>

Discard(f) ==
  /\ fin[f].pc = "discard"
  /\ claim' = [claim EXCEPT ![f] = None]
  /\ aged' = aged \ {f}
  /\ Goto(f, "failed")
  /\ UNCHANGED <<obj, meta, last, faults, FinEnv>>

\* A call of commit or digest fails.
FinalizeFails(f) ==
  /\ fin[f].pc \in {"digest", "meta", "object"} /\ Fault
  /\ Goto(f, "restore")
  /\ UNCHANGED <<obj, meta, claim, aged, last, FinEnv>>

\* The process of the confirmation dies.
Dies(f) ==
  /\ Moving(f) /\ Fault
  /\ Goto(f, "lost")
  /\ last' = IF claim[f] = last THEN None ELSE last
  /\ UNCHANGED <<obj, meta, claim, aged, FinEnv>>

Finalize(f) ==
  \/ Head(f) \/ HeadRead(f) \/ Stat(f) \/ Read(f) \/ Claim(f) \/ Digest(f)
  \/ CommitMeta(f) \/ CommitObject(f) \/ Unstage(f) \/ Restore(f) \/ Discard(f)
  \/ FinalizeFails(f) \/ Dies(f)

----------------------------------------------------------------------------
(* openSignedDownload of a final key.                                      *)

RdEnv == <<obj, meta, claim, aged, up, fin, rm, ex, last, faults>>

DownloadStat(f) ==
  /\ rd.pc \in {"idle", "served"} /\ obj[f] # None
  /\ rd' = [NoReader EXCEPT !.pc = "read", !.file = f]
  /\ UNCHANGED RdEnv

DownloadRead ==
  /\ rd.pc = "read"
  /\ rd' = IF meta[rd.file] = None THEN NoReader
                                   ELSE [rd EXCEPT !.pc = "open", !.etag = meta[rd.file]]
  /\ UNCHANGED RdEnv

DownloadOpen ==
  /\ rd.pc = "open"
  /\ rd' = IF obj[rd.file] = None THEN NoReader
                                  ELSE [rd EXCEPT !.pc = "served", !.got = obj[rd.file]]
  /\ UNCHANGED RdEnv

----------------------------------------------------------------------------
(* removeObject: the object first, then its metadata.                      *)

Unlink(k) ==
  /\ obj' = [obj EXCEPT ![k] = None]
  /\ last' = IF obj[k] = last THEN None ELSE last
DropMeta(k) == meta' = [meta EXCEPT ![k] = None]

RmEnv == <<claim, up, fin, rd>>
Ended(f) == fin[f].pc \in {"ok", "failed", "lost"}

Delete(k) ==
  /\ rm.pc = "idle"
  /\ k \in Finals => Ended(k)
  /\ rm' = [pc |-> "object", key |-> k]
  /\ UNCHANGED <<obj, meta, aged, ex, last, faults, RmEnv>>

DeleteObject ==
  /\ rm.pc = "object"
  /\ Unlink(rm.key)
  /\ aged' = aged \ ({Source} \cap {rm.key})
  /\ rm' = [rm EXCEPT !.pc = "meta"]
  /\ UNCHANGED <<meta, ex, faults, RmEnv>>

DeleteMeta ==
  /\ rm.pc = "meta"
  /\ \/ DropMeta(rm.key) /\ UNCHANGED faults
     \/ Fault /\ UNCHANGED meta
  /\ rm' = NoRemoval
  /\ UNCHANGED <<obj, aged, ex, last, RmEnv>>

\* deleteObjectsOlderThan: staged objects found old, then old files in tmp.
Expire ==
  /\ ex = "idle" /\ aged # {}
  /\ ex' = IF Source \in aged THEN "object" ELSE "temps"
  /\ UNCHANGED <<obj, meta, aged, rm, last, faults, RmEnv>>

\* The object listed as old may have been replaced since.
ExpireObject ==
  /\ ex = "object"
  /\ Unlink(Source)
  /\ aged' = aged \ {Source}
  /\ ex' = "meta"
  /\ UNCHANGED <<meta, rm, faults, RmEnv>>

ExpireMeta ==
  /\ ex = "meta"
  /\ DropMeta(Source)
  /\ ex' = "temps"
  /\ UNCHANGED <<obj, aged, rm, last, faults, RmEnv>>

ExpireTemps ==
  /\ ex = "temps"
  /\ claim' = [f \in Finals |-> IF f \in aged THEN None ELSE claim[f]]
  /\ last' = IF \E f \in aged \cap Finals : claim[f] = last THEN None ELSE last
  /\ aged' = aged \ Finals
  /\ ex' = "idle"
  /\ UNCHANGED <<obj, meta, rm, faults, up, fin, rd>>

\* STORAGE_ORPHAN_EXPIRY_DAYS pass; no operation takes that long.
GrowOld ==
  /\ ~Changing /\ rm.pc = "idle" /\ ex = "idle"
  /\ \A u \in Uploads : up[u].pc # "meta"
  /\ \A f \in Finals : fin[f].pc \in {"new", "none", "ok", "failed", "lost"}
  /\ LET old == (IF obj[Source] = None THEN {} ELSE {Source})
                  \cup {f \in Finals : claim[f] # None}
     IN old # {} /\ aged' = old
  /\ UNCHANGED <<obj, meta, rm, ex, last, faults, RmEnv>>

----------------------------------------------------------------------------
Next ==
  \/ \E u \in Uploads : \/ \E x \in Contents : Receive(u, x)
                        \/ UploadMeta(u) \/ UploadObject(u) \/ UploadFails(u)
  \/ \E f \in Finals : Finalize(f) \/ DownloadStat(f)
  \/ DownloadRead \/ DownloadOpen
  \/ \E k \in Keys : Delete(k)
  \/ DeleteObject \/ DeleteMeta
  \/ Expire \/ ExpireObject \/ ExpireMeta \/ ExpireTemps \/ GrowOld

Spec == Init /\ [][Next]_vars

----------------------------------------------------------------------------
(* Properties.                                                             *)

\* A download announces the type and size of the very bytes it sends, although the
\* metadata and the bytes are read one after the other (openSignedDownload).
DownloadMatchesItsHeaders == rd.pc = "served" => rd.got = rd.etag

\* The bytes a client uploaded last are under the staging key, in the hands of a
\* running finalize or under a final key, until they are deleted or expire: a failing
\* finalize gives them back or leaves a newer upload alone (restoreClaimed).
LastUploadIsKept ==
  last # None => \/ obj[Source] = last
                 \/ \E f \in Finals : obj[f] = last \/ (claim[f] = last /\ Moving(f))

\* The two-file driver implements the port: the object appears at the final key at
\* once, with the confirmed ETag, and the answer tells whether it did (finalize).
Reply(f) == CASE fin[f].pc \in Early                     -> "none"
              [] fin[f].pc \in {"ok", "failed", "lost"} -> fin[f].pc
              [] OTHER                                  -> "asked"
Port == INSTANCE FinalizedCopy WITH
          Calls <- Finals,
          asked <- [f \in Finals |-> fin[f].want],
          reply <- [f \in Finals |-> Reply(f)],
          final <- [f \in Finals |-> IF meta[f] = None THEN None ELSE obj[f]]
FinalizesAsPromised == Port!Spec

----------------------------------------------------------------------------
(* The inductive invariant of LocalStorage_proofs.                         *)

\* Nothing of f is written before its metadata, and no object before it is announced.
NothingYet ==
  \A f \in Finals :
    /\ fin[f].pc \in Early \cup {"stat", "read", "claim"} => claim[f] = None
    /\ fin[f].pc \in Early \cup {"stat", "read", "claim", "digest", "meta"} => meta[f] = None
    /\ fin[f].pc \notin {"unstage", "ok", "failed", "lost"} => obj[f] = None

\* What is under a final key, and what is about to be, is what was confirmed.
FinalsMatch ==
  \A f \in Finals :
    /\ obj[f] # None => obj[f] = fin[f].want
    /\ meta[f] # None => meta[f] = fin[f].want
    /\ fin[f].pc \in {"meta", "object"} => claim[f] \in {None, fin[f].want}
    /\ fin[f].pc \in {"object", "unstage"} => meta[f] = fin[f].want
    /\ fin[f].pc = "unstage" => obj[f] # None
    /\ fin[f].pc = "failed" => obj[f] = None

\* A download reads a final key whose confirmation is past its first look.
ReadsMatch ==
  rd.pc # "idle" =>
    /\ rd.file \in Finals /\ fin[rd.file].pc \notin Early
    /\ rd.pc \in {"open", "served"} => rd.etag = fin[rd.file].want
    /\ rd.pc = "served" => rd.got = fin[rd.file].want

RemovesEnded == rm.pc # "idle" => rm.key \in Keys /\ (rm.key \in Finals => Ended(rm.key))

IInv == TypeOK /\ NothingYet /\ FinalsMatch /\ ReadsMatch /\ RemovesEnded

\* The unique sourceKey: one confirmation is under way at a time.
OneAtATime ==
  \A f, g \in Finals :
    {fin[f].pc, fin[g].pc} \cap {"new", "none", "ok", "failed", "lost"} = {} => f = g

\* Unless their loss is excused, the bytes uploaded last are the only ones the staging
\* key may hold; with nothing there, a running finalize holds no others, and it lets go
\* of its own only when they are back or under the final key.
NewestFirst ==
  /\ \A f \in Finals : fin[f].pc = "unstage" => claim[f] = None
  /\ last # None =>
       /\ obj[Source] \in {None, last}
       /\ \A f \in Finals :
            /\ obj[Source] = None /\ Moving(f) => claim[f] \in {None, last}
            /\ fin[f].pc = "discard" => obj[Source] = last

KInv == OneAtATime /\ NewestFirst /\ LastUploadIsKept
=============================================================================
