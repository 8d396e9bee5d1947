------------------------- MODULE LocalStorage_proofs -------------------------
(***************************************************************************)
(* Machine-checked safety of LocalStorage, for any uploads, confirmations, *)
(* contents and number of faults, and its refinement of FinalizedCopy.     *)
(***************************************************************************)
EXTENDS LocalStorage, TLAPS

\* The initial state satisfies the invariant.
LEMMA InitIInv == Init => IInv
BY ConstantsAssumption
   DEF Init, IInv, TypeOK, NothingYet, FinalsMatch, ReadsMatch, RemovesEnded, UpRecord,
       FinRecord, FinSteps, Early, Keys, NoReader, NoRemoval

\* Moving a confirmation on leaves its ETag and the others alone.
LEMMA Went ==
  ASSUME TypeOK, NEW f \in Finals, NEW p \in FinSteps, Goto(f, p)
  PROVE  /\ fin' \in [Finals -> FinRecord]
         /\ fin'[f].pc = p /\ fin'[f].want = fin[f].want
         /\ \A g \in Finals \ {f} : fin'[g] = fin[g]
<1> DEFINE new == [fin[f] EXCEPT !.pc = p]
<1>1. fin[f] \in FinRecord
  BY DEF TypeOK
<1>2. new \in FinRecord /\ new.pc = p /\ new.want = fin[f].want
  BY <1>1 DEF FinRecord
<1>3. fin' = [fin EXCEPT ![f] = new]
  BY DEF Goto
<1> HIDE DEF new
<1> QED BY <1>2, <1>3 DEF TypeOK

\* The ETag read by head() becomes the one to confirm.
LEMMA Asked ==
  ASSUME TypeOK, NEW f \in Finals, HeadRead(f)
  PROVE  /\ fin' \in [Finals -> FinRecord]
         /\ \/ fin'[f].pc = "none" /\ fin'[f].want = fin[f].want
            \/ fin'[f].pc = "stat" /\ fin'[f].want = meta[Source] /\ meta[Source] \in Contents
         /\ \A g \in Finals \ {f} : fin'[g] = fin[g]
<1>1. fin[f] \in FinRecord /\ meta[Source] \in Contents \cup {None}
  BY DEF TypeOK, Keys
<1>2. CASE meta[Source] = None
  <2> DEFINE new == [fin[f] EXCEPT !.pc = "none"]
  <2>1. new \in FinRecord /\ new.pc = "none" /\ new.want = fin[f].want
    BY <1>1 DEF FinRecord, FinSteps
  <2>2. fin' = [fin EXCEPT ![f] = new]
    BY <1>2 DEF HeadRead
  <2> HIDE DEF new
  <2> QED BY <2>1, <2>2 DEF TypeOK
<1>3. CASE meta[Source] # None
  <2> DEFINE new == [pc |-> "stat", want |-> meta[Source]]
  <2>1. new \in FinRecord /\ new.pc = "stat" /\ new.want = meta[Source]
    BY <1>1 DEF FinRecord, FinSteps
  <2>2. fin' = [fin EXCEPT ![f] = new]
    BY <1>3 DEF HeadRead
  <2> HIDE DEF new
  <2> QED BY <1>1, <1>3, <2>1, <2>2 DEF TypeOK
<1> QED BY <1>2, <1>3

\* A confirmation that only moves on, to a step where nothing new is required of it.
LEMMA GotoStep ==
  ASSUME IInv, NEW f \in Finals, NEW p \in FinSteps, Goto(f, p),
         UNCHANGED <<obj, meta, claim, aged, last, up, rd, rm, ex>>, faults' \in 0..MaxFaults,
         \/ fin[f].pc = "new" /\ p = "head"
         \/ fin[f].pc = "stat" /\ p \in {"read", "failed"}
         \/ fin[f].pc = "read" /\ p \in {"claim", "failed"}
         \/ fin[f].pc = "claim" /\ p = "failed"
         \/ fin[f].pc = "digest" /\ p = "meta" /\ DigestMatches(f)
         \/ fin[f].pc \in {"digest", "meta", "object"} /\ p \in {"restore", "lost"}
         \/ fin[f].pc \in {"restore", "discard"} /\ p \in {"failed", "lost"}
         \/ fin[f].pc = "unstage" /\ p \in {"ok", "lost"}
  PROVE  IInv'
<1> USE ConstantsAssumption DEF IInv
<1>1. /\ fin' \in [Finals -> FinRecord]
      /\ fin'[f].pc = p /\ fin'[f].want = fin[f].want
      /\ \A g \in Finals \ {f} : fin'[g] = fin[g]
  BY Went
<1>2. TypeOK'
  BY <1>1 DEF TypeOK, Early
<1>3. NothingYet'
  BY <1>1 DEF NothingYet, Early
<1>4. FinalsMatch'
  BY <1>1 DEF FinalsMatch, NothingYet, DigestMatches, Early
<1>5. ReadsMatch' /\ RemovesEnded'
  BY <1>1 DEF ReadsMatch, RemovesEnded, Ended, Early
<1> QED BY <1>2, <1>3, <1>4, <1>5

\* A confirmation keeps the invariant.
LEMMA FinalizeStep ==
  ASSUME IInv, NEW f \in Finals, Finalize(f)
  PROVE  IInv'
<1> USE ConstantsAssumption DEF Keys, FinEnv
<1> DEFINE Moved(p) == /\ fin' \in [Finals -> FinRecord]
                       /\ fin'[f].pc = p /\ fin'[f].want = fin[f].want
                       /\ \A g \in Finals \ {f} : fin'[g] = fin[g]
<1>1. ASSUME NEW p \in FinSteps, Goto(f, p) PROVE Moved(p)
  BY <1>1, Went DEF IInv
<1>w. ASSUME NEW p, Moved(p), fin[f].pc \notin Early
      PROVE  \A g \in Finals : fin'[g].pc \notin Early => fin'[g].want \in Contents
  BY <1>w DEF IInv, TypeOK
<1>2. faults \in 0..MaxFaults /\ (Fault => faults' \in 0..MaxFaults)
  BY DEF IInv, TypeOK, Fault
<1>3. CASE Head(f) \/ Stat(f) \/ Read(f) \/ Digest(f) \/ FinalizeFails(f)
  BY <1>2, <1>3, GotoStep DEF Head, Stat, Read, Digest, FinalizeFails, FinSteps
<1>4. CASE HeadRead(f)
  <2>1. UNCHANGED <<obj, meta, claim, aged, last, faults, up, rd, rm, ex>> /\ fin[f].pc = "head"
    BY <1>4 DEF HeadRead
  <2>2. TypeOK'
    BY <1>4, <2>1, Asked DEF IInv, TypeOK, Early
  <2>3. NothingYet' /\ FinalsMatch'
    BY <1>4, <2>1, Asked DEF IInv, NothingYet, FinalsMatch, Early
  <2>4. ReadsMatch' /\ RemovesEnded'
    BY <1>4, <2>1, Asked DEF IInv, ReadsMatch, RemovesEnded, Ended, Early
  <2> QED BY <2>2, <2>3, <2>4 DEF IInv
<1>5. CASE Claim(f)
  <2>1. CASE obj[Source] = None
    BY <1>2, <1>5, <2>1, GotoStep DEF Claim, FinSteps
  <2>2. CASE obj[Source] # None
    <3>1. /\ fin[f].pc = "claim" /\ Goto(f, "digest")
          /\ claim' = [claim EXCEPT ![f] = obj[Source]] /\ obj' = [obj EXCEPT ![Source] = None]
          /\ aged' \subseteq aged \cup {f}
          /\ UNCHANGED <<meta, last, faults, up, rd, rm, ex>>
      BY <1>5, <2>2 DEF Claim
    <3>2. Moved("digest")
      BY <1>1, <3>1 DEF FinSteps
    <3>3. TypeOK'
      <4>1. /\ obj' \in [Keys -> Contents \cup {None}]
            /\ claim' \in [Finals -> Contents \cup {None}] /\ aged' \subseteq Keys
        BY <3>1 DEF IInv, TypeOK
      <4>2. \A g \in Finals : fin'[g].pc \notin Early => fin'[g].want \in Contents
        BY <1>w, <3>1, <3>2 DEF Early
      <4> QED BY <3>1, <3>2, <4>1, <4>2 DEF IInv, TypeOK
    <3>4. NothingYet' /\ FinalsMatch'
      BY <3>1, <3>2 DEF IInv, TypeOK, NothingYet, FinalsMatch, Early
    <3>5. ReadsMatch' /\ RemovesEnded'
      BY <3>1, <3>2 DEF IInv, ReadsMatch, RemovesEnded, Ended, Early
    <3> QED BY <3>3, <3>4, <3>5 DEF IInv
  <2> QED BY <2>1, <2>2
<1>6. CASE CommitMeta(f)
  <2>1. /\ fin[f].pc = "meta" /\ Goto(f, "object") /\ meta' = [meta EXCEPT ![f] = fin[f].want]
        /\ UNCHANGED <<obj, claim, aged, last, faults, up, rd, rm, ex>>
    BY <1>6 DEF CommitMeta
  <2>2. Moved("object")
    BY <1>1, <2>1 DEF FinSteps
  <2>3. TypeOK'
    BY <2>1, <2>2 DEF IInv, TypeOK, Early, FinRecord
  <2>4. NothingYet' /\ FinalsMatch'
    BY <2>1, <2>2 DEF IInv, TypeOK, NothingYet, FinalsMatch, Early
  <2>5. ReadsMatch' /\ RemovesEnded'
    BY <2>1, <2>2 DEF IInv, ReadsMatch, RemovesEnded, Ended, Early
  <2> QED BY <2>3, <2>4, <2>5 DEF IInv
<1>7. CASE CommitObject(f)
  <2>1. CASE claim[f] = None
    BY <1>2, <1>7, <2>1, GotoStep DEF CommitObject, FinSteps
  <2>2. CASE claim[f] # None
    <3>1. /\ fin[f].pc = "object" /\ Goto(f, "unstage") /\ obj' = [obj EXCEPT ![f] = claim[f]]
          /\ claim' = [claim EXCEPT ![f] = None] /\ aged' \subseteq aged
          /\ UNCHANGED <<meta, last, faults, up, rd, rm, ex>>
      BY <1>7, <2>2 DEF CommitObject
    <3>2. Moved("unstage")
      BY <1>1, <3>1 DEF FinSteps
    <3>3. TypeOK'
      <4>1. /\ obj' \in [Keys -> Contents \cup {None}]
            /\ claim' \in [Finals -> Contents \cup {None}] /\ aged' \subseteq Keys
        BY <3>1 DEF IInv, TypeOK
      <4>2. \A g \in Finals : fin'[g].pc \notin Early => fin'[g].want \in Contents
        BY <1>w, <3>1, <3>2 DEF Early
      <4> QED BY <3>1, <3>2, <4>1, <4>2 DEF IInv, TypeOK
    <3>4. NothingYet' /\ FinalsMatch'
      BY <2>2, <3>1, <3>2 DEF IInv, TypeOK, NothingYet, FinalsMatch, Early
    <3>5. ReadsMatch' /\ RemovesEnded'
      BY <3>1, <3>2 DEF IInv, ReadsMatch, RemovesEnded, Ended, Early
    <3> QED BY <3>3, <3>4, <3>5 DEF IInv
  <2> QED BY <2>1, <2>2
<1>8. CASE Unstage(f)
  <2>1. /\ fin[f].pc = "unstage" /\ Goto(f, "ok") /\ faults' \in 0..MaxFaults
        /\ meta' \in {meta, [meta EXCEPT ![Source] = None]}
        /\ UNCHANGED <<obj, claim, aged, last, up, rd, rm, ex>>
    BY <1>2, <1>8 DEF Unstage
  <2>2. Moved("ok")
    BY <1>1, <2>1 DEF FinSteps
  <2>3. TypeOK'
    BY <2>1, <2>2 DEF IInv, TypeOK, Early
  <2>4. NothingYet' /\ FinalsMatch'
    BY <2>1, <2>2 DEF IInv, TypeOK, NothingYet, FinalsMatch, Early
  <2>5. ReadsMatch' /\ RemovesEnded'
    BY <2>1, <2>2 DEF IInv, ReadsMatch, RemovesEnded, Ended, Early
  <2> QED BY <2>3, <2>4, <2>5 DEF IInv
<1>9. CASE Restore(f)
  <2>1. \E p \in {"discard", "failed"} : Goto(f, p)
    BY <1>9 DEF Restore
  <2>2. PICK p \in {"discard", "failed"} : Goto(f, p)
    BY <2>1
  <2>3. /\ fin[f].pc = "restore" /\ faults' \in 0..MaxFaults
        /\ obj' \in {obj, [obj EXCEPT ![Source] = claim[f]]}
        /\ aged' \subseteq aged \cup {Source} /\ last' \in {last, None}
        /\ UNCHANGED <<meta, claim, up, rd, rm, ex>>
    BY <1>2, <1>9 DEF Restore, IInv, TypeOK
  <2>4. Moved(p)
    BY <1>1, <2>2 DEF FinSteps
  <2>5. TypeOK'
    BY <2>3, <2>4 DEF IInv, TypeOK, Early
  <2>6. NothingYet' /\ FinalsMatch'
    BY <2>3, <2>4 DEF IInv, TypeOK, NothingYet, FinalsMatch, Early
  <2>7. ReadsMatch' /\ RemovesEnded'
    BY <2>3, <2>4 DEF IInv, ReadsMatch, RemovesEnded, Ended, Early
  <2> QED BY <2>5, <2>6, <2>7 DEF IInv
<1>10. CASE Discard(f)
  <2>1. /\ fin[f].pc = "discard" /\ Goto(f, "failed") /\ claim' = [claim EXCEPT ![f] = None]
        /\ aged' \subseteq aged
        /\ UNCHANGED <<obj, meta, last, faults, up, rd, rm, ex>>
    BY <1>10 DEF Discard
  <2>2. Moved("failed")
    BY <1>1, <2>1 DEF FinSteps
  <2>3. TypeOK'
    <3>1. claim' \in [Finals -> Contents \cup {None}] /\ aged' \subseteq Keys
      BY <2>1 DEF IInv, TypeOK
    <3>2. \A g \in Finals : fin'[g].pc \notin Early => fin'[g].want \in Contents
      BY <1>w, <2>1, <2>2 DEF Early
    <3> QED BY <2>1, <2>2, <3>1, <3>2 DEF IInv, TypeOK
  <2>4. NothingYet' /\ FinalsMatch'
    BY <2>1, <2>2 DEF IInv, TypeOK, NothingYet, FinalsMatch, Early
  <2>5. ReadsMatch' /\ RemovesEnded'
    BY <2>1, <2>2 DEF IInv, ReadsMatch, RemovesEnded, Ended, Early
  <2> QED BY <2>3, <2>4, <2>5 DEF IInv
<1>11. CASE Dies(f)
  <2>1. /\ Moving(f) /\ Goto(f, "lost") /\ faults' \in 0..MaxFaults /\ last' \in {last, None}
        /\ UNCHANGED <<obj, meta, claim, aged, up, rd, rm, ex>>
    BY <1>2, <1>11 DEF Dies
  <2>2. Moved("lost")
    BY <1>1, <2>1 DEF FinSteps
  <2>3. TypeOK'
    BY <2>1, <2>2 DEF IInv, TypeOK, Early, Moving
  <2>4. NothingYet' /\ FinalsMatch'
    BY <2>1, <2>2 DEF IInv, TypeOK, NothingYet, FinalsMatch, Early
  <2>5. ReadsMatch' /\ RemovesEnded'
    BY <2>1, <2>2 DEF IInv, ReadsMatch, RemovesEnded, Ended, Early
  <2> QED BY <2>3, <2>4, <2>5 DEF IInv
<1> QED BY <1>3, <1>4, <1>5, <1>6, <1>7, <1>8, <1>9, <1>10, <1>11 DEF Finalize

\* An upload only touches the staging key.
LEMMA UploadStep ==
  ASSUME IInv, NEW u \in Uploads,
         \/ \E x \in Contents : Receive(u, x)
         \/ UploadMeta(u) \/ UploadObject(u) \/ UploadFails(u)
  PROVE  IInv'
<1> USE ConstantsAssumption DEF IInv, Keys, UpEnv
<1>1. UNCHANGED <<claim, fin, rd, rm, ex>>
  BY DEF Receive, UploadMeta, UploadObject, UploadFails
<1>2. up[u] \in UpRecord /\ up[u].body \in Contents \cup {None}
  BY DEF TypeOK, UpRecord
<1>3. /\ obj' \in {obj, [obj EXCEPT ![Source] = up[u].body]}
      /\ meta' \in {meta, [meta EXCEPT ![Source] = up[u].body]}
      /\ aged' \subseteq aged /\ last' \in {last, up[u].body}
  BY DEF Receive, UploadMeta, UploadObject, UploadFails
<1>4. faults' \in 0..MaxFaults
  BY DEF Receive, UploadMeta, UploadObject, UploadFails, Fault, TypeOK
<1>5. \E new \in UpRecord : up' = [up EXCEPT ![u] = new]
  <2>1. CASE \E x \in Contents : Receive(u, x)
    <3>1. PICK x \in Contents : Receive(u, x)
      BY <2>1
    <3>2. [pc |-> "meta", body |-> x] \in UpRecord
      BY DEF UpRecord
    <3> QED BY <3>1, <3>2 DEF Receive
  <2>2. CASE UploadMeta(u)
    <3> DEFINE new == [up[u] EXCEPT !.pc = "object"]
    <3>1. new \in UpRecord
      BY <1>2 DEF UpRecord
    <3>2. up' = [up EXCEPT ![u] = new]
      BY <2>2 DEF UploadMeta
    <3> HIDE DEF new
    <3> QED BY <3>1, <3>2
  <2>3. CASE UploadObject(u)
    <3>1. [pc |-> "done", body |-> None] \in UpRecord
      BY DEF UpRecord
    <3> QED BY <2>3, <3>1 DEF UploadObject
  <2>4. CASE UploadFails(u)
    <3>1. [pc |-> "failed", body |-> None] \in UpRecord
      BY DEF UpRecord
    <3> QED BY <2>4, <3>1 DEF UploadFails
  <2> QED BY <2>1, <2>2, <2>3, <2>4
<1>6. TypeOK'
  BY <1>1, <1>2, <1>3, <1>4, <1>5 DEF TypeOK
<1>7. NothingYet' /\ FinalsMatch'
  BY <1>1, <1>3 DEF TypeOK, NothingYet, FinalsMatch
<1>8. ReadsMatch' /\ RemovesEnded'
  BY <1>1 DEF ReadsMatch, RemovesEnded, Ended
<1> QED BY <1>6, <1>7, <1>8

\* A download only reads, and what it reads belongs to its key.
LEMMA DownloadStep ==
  ASSUME IInv, (\E f \in Finals : DownloadStat(f)) \/ DownloadRead \/ DownloadOpen
  PROVE  IInv'
<1> USE ConstantsAssumption DEF IInv, Keys, RdEnv
<1> DEFINE Reads == [pc : {"idle", "read", "open", "served"}, file : Finals \cup {None},
                     etag : Contents \cup {None}, got : Contents \cup {None}]
<1>1. NoReader \in Reads /\ NoReader.pc = "idle"
  BY DEF NoReader
<1>2. rd \in Reads
  BY DEF TypeOK
<1>3. UNCHANGED <<obj, meta, claim, aged, up, fin, rm, ex, last, faults>>
  BY DEF DownloadStat, DownloadRead, DownloadOpen
<1>4. rd' \in Reads /\ ReadsMatch'
  <2>1. ASSUME NEW f \in Finals, DownloadStat(f) PROVE rd' \in Reads /\ ReadsMatch'
    <3> DEFINE new == [NoReader EXCEPT !.pc = "read", !.file = f]
    <3>1. new \in Reads /\ new.pc = "read" /\ new.file = f
      BY <1>1
    <3>2. fin[f].pc \notin Early
      BY <2>1 DEF DownloadStat, NothingYet, Early
    <3>3. rd' = new
      BY <2>1 DEF DownloadStat
    <3> HIDE DEF new, Reads
    <3> QED BY <1>3, <3>1, <3>2, <3>3 DEF ReadsMatch
  <2>2. CASE DownloadRead
    <3>1. CASE meta[rd.file] = None
      BY <1>1, <1>3, <2>2, <3>1 DEF DownloadRead, ReadsMatch
    <3>2. CASE meta[rd.file] # None
      <4> DEFINE new == [rd EXCEPT !.pc = "open", !.etag = meta[rd.file]]
      <4>1. rd.pc = "read" /\ rd' = new
        BY <2>2, <3>2 DEF DownloadRead
      <4>2. rd.file \in Finals /\ meta[rd.file] = fin[rd.file].want /\ fin[rd.file].pc \notin Early
        BY <3>2, <4>1 DEF ReadsMatch, FinalsMatch
      <4>3. new \in Reads /\ new.pc = "open" /\ new.file = rd.file /\ new.etag = meta[rd.file]
        BY <1>2, <4>2 DEF TypeOK
      <4> HIDE DEF new, Reads
      <4> QED BY <1>3, <4>1, <4>2, <4>3 DEF ReadsMatch
    <3> QED BY <3>1, <3>2
  <2>3. CASE DownloadOpen
    <3>1. CASE obj[rd.file] = None
      BY <1>1, <1>3, <2>3, <3>1 DEF DownloadOpen, ReadsMatch
    <3>2. CASE obj[rd.file] # None
      <4> DEFINE new == [rd EXCEPT !.pc = "served", !.got = obj[rd.file]]
      <4>1. rd.pc = "open" /\ rd' = new
        BY <2>3, <3>2 DEF DownloadOpen
      <4>2. /\ rd.file \in Finals /\ obj[rd.file] = fin[rd.file].want
            /\ rd.etag = fin[rd.file].want /\ fin[rd.file].pc \notin Early
        BY <3>2, <4>1 DEF ReadsMatch, FinalsMatch
      <4>3. /\ new \in Reads /\ new.pc = "served" /\ new.file = rd.file
            /\ new.etag = rd.etag /\ new.got = obj[rd.file]
        BY <1>2, <4>2 DEF TypeOK
      <4> HIDE DEF new, Reads
      <4> QED BY <1>3, <4>1, <4>2, <4>3 DEF ReadsMatch
    <3> QED BY <3>1, <3>2
  <2> QED BY <2>1, <2>2, <2>3
<1>5. TypeOK'
  BY <1>3, <1>4 DEF TypeOK
<1>6. NothingYet' /\ FinalsMatch' /\ RemovesEnded'
  BY <1>3 DEF NothingYet, FinalsMatch, RemovesEnded, Ended
<1> QED BY <1>4, <1>5, <1>6

\* Deletions take files away, and only from final keys whose confirmation has ended.
LEMMA RemovalStep ==
  ASSUME IInv, (\E k \in Keys : Delete(k)) \/ DeleteObject \/ DeleteMeta
  PROVE  IInv'
<1> USE ConstantsAssumption DEF IInv, Keys, RmEnv
<1>1. UNCHANGED <<claim, up, fin, rd, ex>>
  BY DEF Delete, DeleteObject, DeleteMeta
<1>2. rm' \in [pc : {"idle", "object", "meta"}, key : Keys \cup {None}] /\ RemovesEnded'
  BY <1>1 DEF Delete, DeleteObject, DeleteMeta, NoRemoval, TypeOK, RemovesEnded, Ended
<1>3. /\ obj' \in {obj, [obj EXCEPT ![rm.key] = None]}
      /\ meta' \in {meta, [meta EXCEPT ![rm.key] = None]}
      /\ aged' \subseteq aged /\ last' \in {last, None} /\ faults' \in 0..MaxFaults
  BY DEF Delete, DeleteObject, DeleteMeta, Unlink, DropMeta, Fault, TypeOK
<1>4. obj' # obj \/ meta' # meta => rm.pc # "idle"
  BY DEF Delete, DeleteObject, DeleteMeta
<1>5. TypeOK'
  BY <1>1, <1>2, <1>3 DEF TypeOK
<1>6. NothingYet' /\ FinalsMatch'
  BY <1>1, <1>3, <1>4 DEF TypeOK, NothingYet, FinalsMatch, RemovesEnded, Ended
<1>7. ReadsMatch'
  BY <1>1 DEF ReadsMatch
<1> QED BY <1>2, <1>5, <1>6, <1>7

\* The expiry takes staged objects and claimed files away.
LEMMA ExpiryStep ==
  ASSUME IInv, Expire \/ ExpireObject \/ ExpireMeta \/ ExpireTemps \/ GrowOld
  PROVE  IInv'
<1> USE ConstantsAssumption DEF IInv, Keys, RmEnv
<1>1. UNCHANGED <<up, fin, rd, rm, faults>>
  BY DEF Expire, ExpireObject, ExpireMeta, ExpireTemps, GrowOld
<1>2. /\ obj' \in {obj, [obj EXCEPT ![Source] = None]}
      /\ meta' \in {meta, [meta EXCEPT ![Source] = None]}
      /\ claim' \in {claim, [f \in Finals |-> IF f \in aged THEN None ELSE claim[f]]}
      /\ aged' \subseteq Keys /\ last' \in {last, None} /\ ex' \in {"idle", "object", "meta", "temps"}
  BY DEF Expire, ExpireObject, ExpireMeta, ExpireTemps, GrowOld, Unlink, DropMeta, TypeOK
<1>3. TypeOK'
  BY <1>1, <1>2 DEF TypeOK
<1>4. NothingYet' /\ FinalsMatch'
  BY <1>1, <1>2 DEF TypeOK, NothingYet, FinalsMatch
<1>5. ReadsMatch' /\ RemovesEnded'
  BY <1>1 DEF ReadsMatch, RemovesEnded, Ended
<1> QED BY <1>3, <1>4, <1>5

\* The invariant is inductive.
LEMMA StepIInv == IInv /\ [Next]_vars => IInv'
<1> SUFFICES ASSUME IInv, [Next]_vars PROVE IInv'
  OBVIOUS
<1>1. CASE Next
  BY <1>1, FinalizeStep, UploadStep, DownloadStep, RemovalStep, ExpiryStep DEF Next
<1>2. CASE UNCHANGED vars
  BY <1>2 DEF vars, IInv, TypeOK, NothingYet, FinalsMatch, ReadsMatch, RemovesEnded, Ended
<1> QED BY <1>1, <1>2

\* The strengthening holds in every reachable state (LocalStorage).
THEOREM Inductive == Spec => []IInv
BY InitIInv, StepIInv, PTL DEF Spec

\* The state of the driver and its callers keeps its type.
THEOREM Typed == Spec => []TypeOK
<1>1. IInv => TypeOK
  BY DEF IInv
<1> QED BY <1>1, Inductive, PTL

\* A download sends the bytes its headers announce (openSignedDownload).
THEOREM DownloadsMatch == Spec => []DownloadMatchesItsHeaders
<1>1. IInv => DownloadMatchesItsHeaders
  BY DEF IInv, ReadsMatch, DownloadMatchesItsHeaders
<1> QED BY <1>1, Inductive, PTL

----------------------------------------------------------------------------
(* Refinement of FinalizedCopy.                                            *)

\* What readers find under the final key of f.
Final(f) == IF meta[f] = None THEN None ELSE obj[f]

\* The abstract state is a function of these three.
Same(f) == fin'[f].want = fin[f].want /\ Reply(f)' = Reply(f) /\ Final(f)' = Final(f)

\* Where nothing of it changes, the abstract state stutters.
LEMMA Stutters ==
  ASSUME \A f \in Finals : Same(f)
  PROVE  Port!Next \/ UNCHANGED <<[f \in Finals |-> fin[f].want],
                                  [f \in Finals |-> Reply(f)],
                                  [f \in Finals |-> IF meta[f] = None THEN None ELSE obj[f]]>>
<1>1. [f \in Finals |-> fin'[f].want] = [f \in Finals |-> fin[f].want]
  BY DEF Same
<1>2. [f \in Finals |-> Reply(f)'] = [f \in Finals |-> Reply(f)]
  BY DEF Same
<1>3. [f \in Finals |-> Final(f)'] = [f \in Finals |-> Final(f)]
  BY DEF Same
<1> QED BY <1>1, <1>2, <1>3 DEF Final

\* A call that ends answers according to what is under its key.
LEMMA Answers ==
  ASSUME NEW f \in Finals, Reply(f) = "asked", fin'[f].want = fin[f].want,
         Final(f)' = Final(f),
         Reply(f)' \in {"lost", IF Final(f) = None THEN "failed" ELSE "ok"},
         \A g \in Finals \ {f} : Same(g)
  PROVE  Port!Next
<1>1. [g \in Finals |-> fin'[g].want] = [g \in Finals |-> fin[g].want]
  BY DEF Same
<1>2. [g \in Finals |-> Final(g)'] = [g \in Finals |-> Final(g)]
  BY DEF Same
<1>3. [g \in Finals |-> Reply(g)'] = [[g \in Finals |-> Reply(g)] EXCEPT ![f] = Reply(f)']
  BY DEF Same
<1>4. Port!Answer(f)
  BY <1>1, <1>2, <1>3 DEF Port!Answer, Final
<1> QED BY <1>4 DEF Port!Next

\* A step that moves a confirmation on within the call, or ends it.
LEMMA MovesOn ==
  ASSUME IInv, NEW f \in Finals, NEW p \in FinSteps, Goto(f, p),
         \A g \in Finals : Final(g)' = Final(g),
         fin[f].pc \notin Early \cup {"ok", "failed", "lost"}, p \notin Early,
         p = "ok" => Final(f) # None,
         p = "failed" => Final(f) = None
  PROVE  Port!Next \/ UNCHANGED <<[g \in Finals |-> fin[g].want],
                                  [g \in Finals |-> Reply(g)],
                                  [g \in Finals |-> IF meta[g] = None THEN None ELSE obj[g]]>>
<1>1. /\ fin'[f].pc = p /\ fin'[f].want = fin[f].want
      /\ \A g \in Finals \ {f} : fin'[g] = fin[g]
  BY Went DEF IInv
<1>2. \A g \in Finals \ {f} : Same(g)
  BY <1>1 DEF Same, Reply
<1>3. Reply(f) = "asked"
  BY DEF Reply
<1>4. CASE p \in {"ok", "failed", "lost"}
  <2>1. Reply(f)' = p
    BY <1>1, <1>4 DEF Reply, Early
  <2> QED BY <1>1, <1>2, <1>3, <1>4, <2>1, Answers
<1>5. CASE p \notin {"ok", "failed", "lost"}
  <2>1. Reply(f)' = "asked"
    BY <1>1, <1>5 DEF Reply
  <2>2. Same(f)
    BY <1>1, <1>3, <2>1 DEF Same
  <2> QED BY <1>2, <2>2, Stutters
<1> QED BY <1>4, <1>5

\* Every step of a confirmation is a step of the port.
LEMMA FinalizeRefines ==
  ASSUME IInv, NEW f \in Finals, Finalize(f)
  PROVE  Port!Next \/ UNCHANGED <<[g \in Finals |-> fin[g].want],
                                  [g \in Finals |-> Reply(g)],
                                  [g \in Finals |-> IF meta[g] = None THEN None ELSE obj[g]]>>
<1> USE ConstantsAssumption DEF Keys
<1>1. TypeOK /\ NothingYet /\ FinalsMatch
  BY DEF IInv
<1>2. CASE Head(f)
  <2>1. Goto(f, "head") /\ fin[f].pc = "new" /\ UNCHANGED <<obj, meta>>
    BY <1>2 DEF Head
  <2>2. /\ fin'[f].pc = "head" /\ fin'[f].want = fin[f].want
        /\ \A g \in Finals \ {f} : fin'[g] = fin[g]
    BY <1>1, <2>1, Went DEF FinSteps
  <2>3. \A g \in Finals : Same(g)
    BY <2>1, <2>2 DEF Same, Reply, Final, Early
  <2> QED BY <2>3, Stutters
<1>3. CASE HeadRead(f)
  <2>1. UNCHANGED <<obj, meta>> /\ fin[f].pc = "head"
    BY <1>3 DEF HeadRead
  <2>2. \A g \in Finals \ {f} : Same(g)
    BY <1>1, <1>3, <2>1, Asked DEF Same, Reply, Final
  <2>3. CASE fin'[f].pc = "none" /\ fin'[f].want = fin[f].want
    <3>1. Same(f)
      BY <2>1, <2>3 DEF Same, Reply, Final, Early
    <3> QED BY <2>2, <3>1, Stutters
  <2>4. CASE fin'[f].pc = "stat" /\ fin'[f].want = meta[Source] /\ meta[Source] \in Contents
    <3>0. PICK x \in Contents : x = meta[Source]
      BY <2>4
    <3>1. Reply(f) = "none" /\ Reply(f)' = "asked" /\ Final(f)' = Final(f)
      BY <2>1, <2>4 DEF Reply, Final, Early
    <3>2. [g \in Finals |-> fin'[g].want]
            = [[g \in Finals |-> fin[g].want] EXCEPT ![f] = x]
      BY <2>2, <2>4, <3>0 DEF Same
    <3>3. [g \in Finals |-> Reply(g)'] = [[g \in Finals |-> Reply(g)] EXCEPT ![f] = "asked"]
      BY <2>2, <3>1 DEF Same
    <3>4. [g \in Finals |-> Final(g)'] = [g \in Finals |-> Final(g)]
      BY <2>2, <3>1 DEF Same
    <3>5. Port!Ask(f, x)
      BY <3>1, <3>2, <3>3, <3>4 DEF Port!Ask, Final
    <3>6. Port!Next
      BY <3>5 DEF Port!Next
    <3> QED BY <3>6
  <2> QED BY <1>1, <1>3, <2>3, <2>4, Asked
<1>4. CASE Stat(f) \/ Read(f) \/ Digest(f) \/ FinalizeFails(f) \/ Discard(f) \/ Dies(f)
  <2>1. UNCHANGED <<obj, meta>>
    BY <1>4 DEF Stat, Read, Digest, FinalizeFails, Discard, Dies
  <2>2. \A g \in Finals : Final(g)' = Final(g)
    BY <2>1 DEF Final
  <2>3. fin[f].pc \notin {"unstage", "ok", "failed", "lost"} => Final(f) = None
    BY <1>1 DEF NothingYet, Final
  <2>4. \E p \in FinSteps \ Early :
          /\ Goto(f, p) /\ p # "ok"
          /\ p = "failed" => fin[f].pc \notin {"unstage", "ok", "failed", "lost"}
    BY <1>4 DEF Stat, Read, Digest, FinalizeFails, Discard, Dies, FinSteps, Early
  <2>5. fin[f].pc \notin Early \cup {"ok", "failed", "lost"}
    BY <1>4 DEF Stat, Read, Digest, FinalizeFails, Discard, Dies, Moving, Early
  <2> QED BY <2>2, <2>3, <2>4, <2>5, MovesOn
<1>5. CASE Claim(f)
  <2>1. \A g \in Finals : Final(g)' = Final(g)
    BY <1>1, <1>5 DEF Claim, Final, TypeOK
  <2>2. fin[f].pc = "claim" /\ Final(f) = None
    BY <1>1, <1>5 DEF Claim, NothingYet, Final
  <2>3. Goto(f, "failed") \/ Goto(f, "digest")
    BY <1>5 DEF Claim
  <2> QED BY <2>1, <2>2, <2>3, MovesOn DEF FinSteps, Early
<1>6. CASE CommitMeta(f)
  <2>1. fin[f].pc = "meta" /\ Goto(f, "object") /\ UNCHANGED obj
        /\ meta' = [meta EXCEPT ![f] = fin[f].want]
    BY <1>6 DEF CommitMeta
  <2>2. \A g \in Finals : Final(g)' = Final(g)
    BY <1>1, <2>1 DEF Final, NothingYet, TypeOK
  <2> QED BY <2>1, <2>2, MovesOn DEF FinSteps, Early
<1>7. CASE CommitObject(f)
  <2>1. CASE claim[f] = None
    <3>1. fin[f].pc = "object" /\ Goto(f, "restore") /\ UNCHANGED <<obj, meta>>
      BY <1>7, <2>1 DEF CommitObject
    <3>2. \A g \in Finals : Final(g)' = Final(g)
      BY <3>1 DEF Final
    <3> QED BY <3>1, <3>2, MovesOn DEF FinSteps, Early
  <2>2. CASE claim[f] # None
    <3>1. /\ fin[f].pc = "object" /\ Goto(f, "unstage") /\ UNCHANGED meta
          /\ obj' = [obj EXCEPT ![f] = claim[f]]
      BY <1>7, <2>2 DEF CommitObject
    <3>2. /\ fin'[f].pc = "unstage" /\ fin'[f].want = fin[f].want
          /\ \A g \in Finals \ {f} : fin'[g] = fin[g]
      BY <1>1, <3>1, Went DEF FinSteps
    <3>3. \A g \in Finals \ {f} : Same(g)
      BY <1>1, <3>1, <3>2 DEF Same, Reply, Final, TypeOK
    <3>4. Reply(f) = "asked" /\ Reply(f)' = "asked"
      BY <3>1, <3>2 DEF Reply, Early
    <3>5. Final(f) = None /\ Final(f)' = fin[f].want
      BY <1>1, <2>2, <3>1 DEF Final, NothingYet, FinalsMatch, TypeOK, Early
    <3>6. [g \in Finals |-> fin'[g].want] = [g \in Finals |-> fin[g].want]
      BY <3>2
    <3>7. [g \in Finals |-> Reply(g)'] = [g \in Finals |-> Reply(g)]
      BY <3>3, <3>4 DEF Same
    <3>8. [g \in Finals |-> Final(g)'] = [[g \in Finals |-> Final(g)] EXCEPT ![f] = fin[f].want]
      BY <3>3, <3>5 DEF Same
    <3>9. Port!Publish(f)
      BY <3>4, <3>5, <3>6, <3>7, <3>8 DEF Port!Publish, Final
    <3> QED BY <3>9 DEF Port!Next
  <2> QED BY <2>1, <2>2
<1>8. CASE Unstage(f)
  <2>1. fin[f].pc = "unstage" /\ Goto(f, "ok") /\ UNCHANGED obj
        /\ meta' \in {meta, [meta EXCEPT ![Source] = None]}
    BY <1>8 DEF Unstage
  <2>2. \A g \in Finals : Final(g)' = Final(g)
    BY <1>1, <2>1 DEF Final, TypeOK
  <2>3. Final(f) # None
    BY <1>1, <2>1 DEF Final, FinalsMatch, TypeOK, Early
  <2> QED BY <2>1, <2>2, <2>3, MovesOn DEF FinSteps, Early
<1>9. CASE Restore(f)
  <2>1. fin[f].pc = "restore" /\ (Goto(f, "discard") \/ Goto(f, "failed")) /\ UNCHANGED meta
        /\ obj' \in {obj, [obj EXCEPT ![Source] = claim[f]]}
    BY <1>1, <1>9 DEF Restore, TypeOK
  <2>2. \A g \in Finals : Final(g)' = Final(g)
    BY <1>1, <2>1 DEF Final, TypeOK
  <2>3. Final(f) = None
    BY <1>1, <2>1 DEF Final, NothingYet, Early
  <2> QED BY <2>1, <2>2, <2>3, MovesOn DEF FinSteps, Early
<1> QED BY <1>2, <1>3, <1>4, <1>5, <1>6, <1>7, <1>8, <1>9 DEF Finalize

\* Every other step stutters, except the deletion of a final key.
LEMMA OthersRefine ==
  ASSUME IInv, [Next]_vars, \A f \in Finals : ~Finalize(f)
  PROVE  Port!Next \/ UNCHANGED <<[g \in Finals |-> fin[g].want],
                                  [g \in Finals |-> Reply(g)],
                                  [g \in Finals |-> IF meta[g] = None THEN None ELSE obj[g]]>>
<1> USE ConstantsAssumption DEF Keys
<1>1. TypeOK /\ NothingYet /\ FinalsMatch /\ RemovesEnded
  BY DEF IInv
<1>2. ASSUME fin' = fin, \A g \in Finals : obj'[g] = obj[g] /\ meta'[g] = meta[g]
      PROVE  \A g \in Finals : Same(g)
  BY <1>2 DEF Same, Reply, Final
<1>3. CASE UNCHANGED vars
  BY <1>2, <1>3, Stutters DEF vars
<1>4. ASSUME NEW u \in Uploads, \/ \E x \in Contents : Receive(u, x)
                               \/ UploadMeta(u) \/ UploadObject(u) \/ UploadFails(u)
      PROVE  \A g \in Finals : Same(g)
  BY <1>1, <1>2, <1>4 DEF Receive, UploadMeta, UploadObject, UploadFails, UpEnv, TypeOK
<1>5. CASE (\E f \in Finals : DownloadStat(f)) \/ DownloadRead \/ DownloadOpen
  BY <1>2, <1>5, Stutters DEF DownloadStat, DownloadRead, DownloadOpen, RdEnv
<1>6. CASE Expire \/ ExpireObject \/ ExpireMeta \/ ExpireTemps \/ GrowOld
  BY <1>1, <1>2, <1>6, Stutters
     DEF Expire, ExpireObject, ExpireMeta, ExpireTemps, GrowOld, Unlink, DropMeta, RmEnv, TypeOK
<1>7. CASE (\E k \in Keys : Delete(k)) \/ ((DeleteObject \/ DeleteMeta) /\ rm.key = Source)
  BY <1>1, <1>2, <1>7, Stutters DEF Delete, DeleteObject, DeleteMeta, Unlink, DropMeta, RmEnv, TypeOK
<1>8. CASE (DeleteObject \/ DeleteMeta) /\ rm.key # Source
  <2>1. PICK f \in Finals : f = rm.key /\ Ended(f)
    BY <1>1, <1>8 DEF DeleteObject, DeleteMeta, RemovesEnded
  <2>2. fin' = fin /\ \A g \in Finals \ {f} : obj'[g] = obj[g] /\ meta'[g] = meta[g]
    BY <1>1, <1>8, <2>1 DEF DeleteObject, DeleteMeta, Unlink, DropMeta, RmEnv, TypeOK
  <2>3. Final(f)' = None \/ Final(f)' = Final(f)
    <3>1. CASE DeleteObject
      BY <1>1, <2>1, <3>1 DEF DeleteObject, Unlink, Final, TypeOK
    <3>2. CASE DeleteMeta
      BY <1>1, <2>1, <3>2 DEF DeleteMeta, DropMeta, Final, TypeOK
    <3> QED BY <1>8, <3>1, <3>2
  <2>4. \A g \in Finals \ {f} : Same(g)
    BY <2>2 DEF Same, Reply, Final
  <2>5. fin'[f].want = fin[f].want /\ Reply(f)' = Reply(f)
    BY <2>2 DEF Reply
  <2>6. CASE Final(f)' = Final(f)
    <3>1. Same(f)
      BY <2>5, <2>6 DEF Same
    <3> QED BY <2>4, <3>1, Stutters
  <2>7. CASE Final(f)' = None
    <3>1. Reply(f) \in {"ok", "failed", "lost"}
      BY <2>1 DEF Reply, Ended, Early
    <3>2. [g \in Finals |-> fin'[g].want] = [g \in Finals |-> fin[g].want]
      BY <2>2
    <3>3. [g \in Finals |-> Reply(g)'] = [g \in Finals |-> Reply(g)]
      BY <2>4, <2>5 DEF Same
    <3>4. [g \in Finals |-> Final(g)'] = [[g \in Finals |-> Final(g)] EXCEPT ![f] = None]
      BY <2>4, <2>7 DEF Same
    <3>5. Port!Remove(f)
      BY <2>1, <3>1, <3>2, <3>3, <3>4 DEF Port!Remove, Final
    <3> QED BY <2>1, <3>5 DEF Port!Next
  <2> QED BY <2>3, <2>6, <2>7
<1> QED BY <1>3, <1>4, <1>5, <1>6, <1>7, <1>8, Stutters DEF Next

\* The two-file driver implements StoragePort.finalize (LocalDiskStorageAdapter).
THEOREM ImplementsThePort == Spec => FinalizesAsPromised
<1>1. Init => Port!Init
  <2> SUFFICES ASSUME Init PROVE Port!Init
    OBVIOUS
  <2> QED BY DEF Init, Port!Init, Keys, Reply, Early
<1>2. IInv /\ [Next]_vars
        => [Port!Next]_<<[f \in Finals |-> fin[f].want], [f \in Finals |-> Reply(f)],
                         [f \in Finals |-> IF meta[f] = None THEN None ELSE obj[f]]>>
  BY FinalizeRefines, OthersRefine
<1> QED BY <1>1, <1>2, Inductive, PTL DEF Spec, FinalizesAsPromised, Port!Spec

----------------------------------------------------------------------------
(* The bytes uploaded last.                                                *)

\* Nothing is uploaded in the initial state.
LEMMA InitKept == Init => KInv
<1> SUFFICES ASSUME Init PROVE KInv
  OBVIOUS
<1>1. \A f \in Finals : fin[f].pc = "new"
  BY DEF Init
<1>2. OneAtATime
  BY <1>1 DEF OneAtATime
<1>3. NewestFirst /\ LastUploadIsKept
  BY <1>1 DEF Init, NewestFirst, LastUploadIsKept
<1> QED BY <1>2, <1>3 DEF KInv

\* A confirmation that moves on is still the only one.
LEMMA AloneStill ==
  ASSUME IInv, OneAtATime, NEW f \in Finals, Finalize(f)
  PROVE  /\ OneAtATime'
         /\ \A g \in Finals \ {f} : fin'[g] = fin[g] /\ ~Moving(g)'
<1>1. \A g \in Finals \ {f} : fin'[g] = fin[g]
  <2>1. CASE HeadRead(f)
    BY <2>1, Asked DEF IInv
  <2>2. CASE ~HeadRead(f)
    <3>1. \E p \in FinSteps : Goto(f, p)
      BY <2>2 DEF Finalize, Head, Stat, Read, Claim, Digest, CommitMeta, CommitObject, Unstage,
                  Restore, Discard, FinalizeFails, Dies, FinSteps
    <3> QED BY <3>1, Went DEF IInv
  <2> QED BY <2>1, <2>2
<1>2. \A g \in Finals \ {f} : fin[g].pc \in {"new", "none", "ok", "failed", "lost"}
  <2>1. CASE Head(f)
    BY <2>1 DEF Head
  <2>2. CASE ~Head(f)
    <3>1. fin[f].pc \notin {"new", "none", "ok", "failed", "lost"}
      BY <2>2 DEF Finalize, HeadRead, Stat, Read, Claim, Digest, CommitMeta, CommitObject, Unstage,
                  Restore, Discard, FinalizeFails, Dies, Moving
    <3> QED BY <3>1 DEF OneAtATime
  <2> QED BY <2>1, <2>2
<1> QED BY <1>1, <1>2 DEF OneAtATime, Moving

\* A confirmation takes the staged bytes, publishes them or gives them back.
LEMMA FinalizeKeeps ==
  ASSUME IInv, KInv, NEW f \in Finals, Finalize(f)
  PROVE  KInv'
<1> USE ConstantsAssumption DEF Keys, FinEnv
<1>1. OneAtATime' /\ \A g \in Finals \ {f} : fin'[g] = fin[g] /\ ~Moving(g)'
  BY AloneStill DEF KInv
<1>2. TypeOK /\ NothingYet /\ NewestFirst /\ LastUploadIsKept
  BY DEF IInv, KInv
<1>3. ASSUME NEW p \in FinSteps, Goto(f, p) PROVE fin'[f].pc = p
  BY <1>2, <1>3, Went
<1>4. \A g \in Finals \ {f} : fin[g].pc # "discard" /\ ~Moving(g)
  BY <1>1 DEF Moving
<1>5. CASE Head(f) \/ HeadRead(f) \/ Stat(f) \/ Read(f) \/ Digest(f) \/ CommitMeta(f)
             \/ FinalizeFails(f)
  <2>1. UNCHANGED <<obj, claim, last>>
    BY <1>5 DEF Head, HeadRead, Stat, Read, Digest, CommitMeta, FinalizeFails
  <2>2. fin'[f].pc \notin {"discard", "unstage"}
    BY <1>2, <1>3, <1>5, Asked
       DEF Head, HeadRead, Stat, Read, Digest, CommitMeta, FinalizeFails, FinSteps
  <2>3. Moving(f)' <=> Moving(f)
    BY <1>2, <1>3, <1>5, Asked
       DEF Head, HeadRead, Stat, Read, Digest, CommitMeta, FinalizeFails, FinSteps, Moving
  <2>4. NewestFirst'
    BY <1>1, <1>2, <2>1, <2>2, <2>3 DEF NewestFirst
  <2>5. LastUploadIsKept'
    BY <1>1, <1>2, <1>4, <2>1, <2>3 DEF LastUploadIsKept
  <2> QED BY <1>1, <2>4, <2>5 DEF KInv
<1>6. CASE Claim(f)
  <2>1. CASE obj[Source] = None
    <3>1. UNCHANGED <<obj, claim, last>> /\ fin'[f].pc = "failed" /\ fin[f].pc = "claim"
      BY <1>3, <1>6, <2>1 DEF Claim, FinSteps
    <3>2. NewestFirst' /\ LastUploadIsKept'
      BY <1>1, <1>2, <1>4, <3>1 DEF NewestFirst, LastUploadIsKept, Moving
    <3> QED BY <1>1, <3>2 DEF KInv
  <2>2. CASE obj[Source] # None
    <3>1. /\ fin'[f].pc = "digest" /\ fin[f].pc = "claim" /\ UNCHANGED last
          /\ claim' = [claim EXCEPT ![f] = obj[Source]] /\ obj' = [obj EXCEPT ![Source] = None]
      BY <1>3, <1>6, <2>2 DEF Claim, FinSteps
    <3>2. Moving(f)' /\ claim'[f] = obj[Source] /\ obj'[Source] = None
      BY <1>2, <3>1 DEF Moving, TypeOK
    <3>3. last # None => claim'[f] = last
      BY <1>2, <2>2, <3>2 DEF NewestFirst
    <3>4. \A g \in Finals \ {f} : claim'[g] = claim[g]
      BY <1>2, <3>1 DEF TypeOK
    <3>5. NewestFirst'
      BY <1>1, <1>2, <1>4, <3>1, <3>2, <3>3, <3>4 DEF NewestFirst
    <3>6. LastUploadIsKept'
      BY <3>1, <3>2, <3>3 DEF LastUploadIsKept
    <3> QED BY <1>1, <3>5, <3>6 DEF KInv
  <2> QED BY <2>1, <2>2
<1>7. CASE CommitObject(f)
  <2>1. CASE claim[f] = None
    <3>1. UNCHANGED <<obj, claim, last>> /\ fin'[f].pc = "restore" /\ fin[f].pc = "object"
      BY <1>3, <1>7, <2>1 DEF CommitObject, FinSteps
    <3>2. NewestFirst' /\ LastUploadIsKept'
      BY <1>1, <1>2, <1>4, <3>1 DEF NewestFirst, LastUploadIsKept, Moving
    <3> QED BY <1>1, <3>2 DEF KInv
  <2>2. CASE claim[f] # None
    <3>1. /\ fin'[f].pc = "unstage" /\ fin[f].pc = "object" /\ UNCHANGED last
          /\ claim' = [claim EXCEPT ![f] = None] /\ obj' = [obj EXCEPT ![f] = claim[f]]
      BY <1>3, <1>7, <2>2 DEF CommitObject, FinSteps
    <3>2. obj'[Source] = obj[Source] /\ obj[f] = None /\ obj'[f] = claim[f] /\ claim'[f] = None
      BY <1>2, <3>1 DEF TypeOK, NothingYet
    <3>3. NewestFirst'
      BY <1>1, <1>2, <3>1, <3>2 DEF NewestFirst, TypeOK
    <3>4. ASSUME last # None
          PROVE  obj'[Source] = last \/ \E g \in Finals : obj'[g] = last
      BY <1>2, <1>4, <3>1, <3>2, <3>4 DEF LastUploadIsKept, TypeOK
    <3>5. LastUploadIsKept'
      BY <3>1, <3>4 DEF LastUploadIsKept
    <3> QED BY <1>1, <3>3, <3>5 DEF KInv
  <2> QED BY <2>1, <2>2
<1>8. CASE Unstage(f)
  <2>1. UNCHANGED <<obj, claim, last>> /\ fin'[f].pc = "ok" /\ fin[f].pc = "unstage"
    BY <1>3, <1>8 DEF Unstage, FinSteps
  <2>2. claim[f] = None
    BY <1>2, <2>1 DEF NewestFirst
  <2>3. NewestFirst' /\ LastUploadIsKept'
    BY <1>1, <1>2, <1>4, <2>1, <2>2 DEF NewestFirst, LastUploadIsKept, Moving
  <2> QED BY <1>1, <2>3 DEF KInv
<1>9. CASE Restore(f)
  <2>1. CASE /\ claim[f] # None /\ Goto(f, "discard") /\ UNCHANGED last
             /\ obj' = [obj EXCEPT ![Source] = IF @ = None THEN claim[f] ELSE @]
    <3>1. fin'[f].pc = "discard" /\ fin[f].pc = "restore" /\ UNCHANGED claim
      BY <1>3, <1>9, <2>1 DEF Restore, FinSteps
    <3>2. /\ obj'[Source] = IF obj[Source] = None THEN claim[f] ELSE obj[Source]
          /\ Moving(f)
      BY <1>2, <2>1, <3>1 DEF TypeOK, Moving
    <3>3. last # None => obj'[Source] = last
      BY <1>2, <2>1, <3>2 DEF NewestFirst
    <3>4. NewestFirst' /\ LastUploadIsKept'
      BY <1>1, <1>2, <2>1, <3>1, <3>3 DEF NewestFirst, LastUploadIsKept
    <3> QED BY <1>1, <3>4 DEF KInv
  <2>2. CASE Goto(f, "failed") /\ last' = None
    <3>1. fin'[f].pc = "failed" /\ UNCHANGED claim
      BY <1>3, <1>9, <2>2 DEF Restore, FinSteps
    <3>2. NewestFirst' /\ LastUploadIsKept'
      BY <1>1, <1>2, <2>2, <3>1 DEF NewestFirst, LastUploadIsKept
    <3> QED BY <1>1, <3>2 DEF KInv
  <2> QED BY <1>9, <2>1, <2>2 DEF Restore
<1>10. CASE Discard(f)
  <2>1. /\ fin'[f].pc = "failed" /\ fin[f].pc = "discard" /\ UNCHANGED <<obj, last>>
        /\ claim' = [claim EXCEPT ![f] = None]
    BY <1>3, <1>10 DEF Discard, FinSteps
  <2>2. last # None => obj[Source] = last
    BY <1>2, <2>1 DEF NewestFirst
  <2>3. NewestFirst' /\ LastUploadIsKept'
    BY <1>1, <1>2, <2>1, <2>2 DEF NewestFirst, LastUploadIsKept, TypeOK
  <2> QED BY <1>1, <2>3 DEF KInv
<1>11. CASE Dies(f)
  <2>1. /\ fin'[f].pc = "lost" /\ UNCHANGED <<obj, claim>>
        /\ last' = IF claim[f] = last THEN None ELSE last
    BY <1>3, <1>11 DEF Dies, FinSteps
  <2>2. CASE last' = None
    BY <1>1, <1>2, <2>1, <2>2 DEF KInv, NewestFirst, LastUploadIsKept
  <2>3. CASE last' = last /\ claim[f] # last
    <3>1. ~Moving(f)'
      BY <2>1 DEF Moving
    <3>2. NewestFirst'
      BY <1>1, <1>2, <2>1, <2>3, <3>1 DEF NewestFirst
    <3>3. LastUploadIsKept'
      BY <1>1, <1>2, <1>4, <2>1, <2>3 DEF LastUploadIsKept
    <3> QED BY <1>1, <3>2, <3>3 DEF KInv
  <2> QED BY <2>1, <2>2, <2>3
<1> QED BY <1>5, <1>6, <1>7, <1>8, <1>9, <1>10, <1>11 DEF Finalize

\* An upload replaces the staged bytes as it becomes the last; a deletion or the expiry
\* that takes the last bytes away excuses their loss.
LEMMA OthersKeep ==
  ASSUME IInv, KInv, [Next]_vars, \A f \in Finals : ~Finalize(f)
  PROVE  KInv'
<1> USE ConstantsAssumption DEF Keys
<1>1. TypeOK /\ OneAtATime /\ NewestFirst /\ LastUploadIsKept /\ RemovesEnded
  BY DEF IInv, KInv
<1>2. ASSUME UNCHANGED <<obj, claim, fin, last>> PROVE KInv'
  BY <1>1, <1>2 DEF KInv, OneAtATime, NewestFirst, LastUploadIsKept, Moving
<1>3. CASE UNCHANGED vars
  BY <1>2, <1>3 DEF vars
<1>4. ASSUME NEW u \in Uploads, (\E x \in Contents : Receive(u, x)) \/ UploadMeta(u) \/ UploadFails(u)
      PROVE  KInv'
  BY <1>2, <1>4 DEF Receive, UploadMeta, UploadFails, UpEnv
<1>5. ASSUME NEW u \in Uploads, UploadObject(u) PROVE KInv'
  <2>1. /\ obj' = [obj EXCEPT ![Source] = up[u].body] /\ last' = up[u].body
        /\ UNCHANGED <<claim, fin>>
    BY <1>5 DEF UploadObject, UpEnv
  <2>2. obj'[Source] = last'
    BY <1>1, <2>1 DEF TypeOK
  <2>3. OneAtATime' /\ NewestFirst' /\ LastUploadIsKept'
    BY <1>1, <2>1, <2>2 DEF OneAtATime, NewestFirst, LastUploadIsKept, Moving
  <2> QED BY <2>3 DEF KInv
<1>6. CASE (\E f \in Finals : DownloadStat(f)) \/ DownloadRead \/ DownloadOpen
  BY <1>2, <1>6 DEF DownloadStat, DownloadRead, DownloadOpen, RdEnv
<1>7. CASE (\E k \in Keys : Delete(k)) \/ DeleteMeta \/ Expire \/ ExpireMeta \/ GrowOld
  BY <1>2, <1>7 DEF Delete, DeleteMeta, Expire, ExpireMeta, GrowOld, RmEnv
<1>8. ASSUME NEW k \in Keys, Unlink(k), UNCHANGED <<claim, fin>> PROVE KInv'
  <2>1. /\ obj' = [obj EXCEPT ![k] = None] /\ last' = IF obj[k] = last THEN None ELSE last
    BY <1>8 DEF Unlink
  <2>2. OneAtATime'
    BY <1>1, <1>8 DEF OneAtATime
  <2>3. CASE obj[k] = last
    BY <1>1, <1>8, <2>1, <2>2, <2>3 DEF KInv, NewestFirst, LastUploadIsKept
  <2>4. CASE obj[k] # last
    <3>1. last' = last
      BY <2>1, <2>4
    <3>2. last # None => /\ k = Source => obj[Source] = None
                         /\ obj'[Source] = obj[Source]
      BY <1>1, <2>1, <2>4 DEF NewestFirst, TypeOK
    <3>3. NewestFirst'
      BY <1>1, <1>8, <3>1, <3>2 DEF NewestFirst, Moving
    <3>4. \A j \in Keys : obj[j] = last => obj'[j] = last
      BY <1>1, <2>1, <2>4 DEF TypeOK
    <3>5. LastUploadIsKept'
      BY <1>1, <1>8, <3>1, <3>4 DEF LastUploadIsKept, Moving
    <3> QED BY <2>2, <3>3, <3>5 DEF KInv
  <2> QED BY <2>3, <2>4
<1>9. CASE DeleteObject
  BY <1>1, <1>8, <1>9 DEF DeleteObject, RemovesEnded, RmEnv
<1>10. CASE ExpireObject
  BY <1>8, <1>10 DEF ExpireObject, RmEnv
<1>11. CASE ExpireTemps
  <2>1. /\ claim' = [f \in Finals |-> IF f \in aged THEN None ELSE claim[f]]
        /\ last' = IF \E f \in aged \cap Finals : claim[f] = last THEN None ELSE last
        /\ UNCHANGED <<obj, fin>>
    BY <1>11 DEF ExpireTemps
  <2>2. OneAtATime'
    BY <1>1, <2>1 DEF OneAtATime
  <2>3. NewestFirst'
    BY <1>1, <2>1 DEF NewestFirst, Moving
  <2>4. \A f \in Finals : claim[f] = last /\ last' # None => claim'[f] = last
    BY <2>1
  <2>5. LastUploadIsKept'
    BY <1>1, <2>1, <2>4 DEF LastUploadIsKept, Moving
  <2> QED BY <2>2, <2>3, <2>5 DEF KInv
<1> QED BY <1>3, <1>4, <1>5, <1>6, <1>7, <1>9, <1>10, <1>11 DEF Next

\* The bytes uploaded last stay somewhere until they are deleted or expire
\* (finalize and restoreClaimed of LocalDiskStorageAdapter).
THEOREM UploadKept == Spec => []LastUploadIsKept
<1>1. IInv /\ KInv /\ [Next]_vars => KInv'
  BY FinalizeKeeps, OthersKeep
<1>2. KInv => LastUploadIsKept
  BY DEF KInv
<1> QED BY <1>1, <1>2, InitKept, Inductive, PTL DEF Spec
=============================================================================
