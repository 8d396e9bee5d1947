-------------------------- MODULE OutboxRelay_proofs --------------------------
(***************************************************************************)
(* Proofs about OutboxRelay: the inductive invariant IInv, the safety      *)
(* properties that follow from it, and that the relay implements           *)
(* EventDelivery.                                                          *)
(***************************************************************************)
EXTENDS OutboxRelay, FiniteSetTheorems, TLAPS

\* An empty outbox, with no tick under way, satisfies the invariant.
LEMMA InitIInv == Init => IInv
  BY ConstantsAssumption DEF Init, NoRow, IInv, TypeOK, Rows, Stages, AllKinds, LocksAreExclusive, LockedIsClaimable,
     UncommittedIsUntouched, AwaitedOrHandled, VisibleMeansOverrun, ProcessedMeansHandled,
     OverlapNeedsASlowBatch, Holds

\* A claim spends an attempt of each locked row and hides it; nothing else moves.
LEMMA ClaimMovesBatch ==
  ASSUME TypeOK, LockedIsClaimable, NEW r \in Relays, ClaimRows(r)
  PROVE  /\ row' \in [Events -> Rows]
         /\ \A e \in Events : row'[e].in = row[e].in /\ row'[e].done = row[e].done
         /\ \A e \in Events : e \notin Batch(r) => row'[e] = row[e]
         /\ \A e \in Batch(r) : row'[e].wait > 0 /\ row[e].in
<1>1. ASSUME NEW e \in Batch(r)
      PROVE  /\ Claimed(e) \in Rows /\ Claimed(e).wait > 0
             /\ Claimed(e).in = row[e].in /\ Claimed(e).done = row[e].done /\ row[e].in
  <2> DEFINE spent == row[e].attempts + 1
             hidden == Backoff(row[e].attempts)
  <2>1. e \in Events /\ Claimable(e)  BY <1>1 DEF Batch, LockedIsClaimable
  <2>2. row[e] \in Rows  BY <2>1 DEF TypeOK
  <2>3. spent \in 0..MaxAttempts /\ row[e].attempts \in 0..MaxAttempts
    BY <2>1, <2>2, ConstantsAssumption DEF Rows, Claimable
  <2>4. hidden \in 1..RetryMax  BY <2>3, BackoffAssumption
  <2>5. hidden \in 0..RetryMax /\ hidden > 0  BY <2>4, ConstantsAssumption
  <2>6. Claimed(e) = [row[e] EXCEPT !.attempts = spent, !.wait = hidden]  BY DEF Claimed
  <2>7. row[e].in  BY <2>1 DEF Claimable
  <2> HIDE DEF spent, hidden
  <2>8. QED  BY <2>2, <2>3, <2>5, <2>6, <2>7 DEF Rows
<1>2. \A e \in Events : row'[e] = IF e \in Batch(r) THEN Claimed(e) ELSE row[e]
  BY DEF ClaimRows
<1>3. row' \in [Events -> Rows]
  <2>1. \A e \in Events : row'[e] \in Rows  BY <1>1, <1>2 DEF TypeOK
  <2>2. row' = [e \in Events |-> row'[e]]  BY <1>2 DEF ClaimRows
  <2>3. QED  BY <2>1, <2>2
<1>4. Batch(r) \subseteq Events  BY DEF Batch
<1>5. QED  BY <1>1, <1>2, <1>3, <1>4

\* Time only shortens waits, by one.
LEMMA TimeMovesWaits ==
  ASSUME TypeOK, TimePasses
  PROVE  /\ row' \in [Events -> Rows]
         /\ \A e \in Events : /\ row'[e].in = row[e].in /\ row'[e].done = row[e].done
                              /\ row'[e].attempts = row[e].attempts
                              /\ row'[e].wait = 0 => row[e].wait \in {0, 1}
                              /\ row[e].wait = 0 => row'[e].wait = 0
<1>1. ASSUME NEW e \in Events
      PROVE  /\ row'[e] \in Rows
             /\ row'[e].in = row[e].in /\ row'[e].done = row[e].done
             /\ row'[e].attempts = row[e].attempts
             /\ row'[e].wait = 0 => row[e].wait \in {0, 1}
             /\ row[e].wait = 0 => row'[e].wait = 0
  <2> DEFINE w == IF row[e].wait = 0 THEN 0 ELSE row[e].wait - 1
  <2>1. row[e] \in Rows  BY DEF TypeOK
  <2>2. row'[e] = [row[e] EXCEPT !.wait = w]  BY DEF TimePasses
  <2>3. row'[e] = [in |-> row[e].in, kind |-> row[e].kind, done |-> row[e].done,
                   attempts |-> row[e].attempts, wait |-> w]
    BY <2>1, <2>2 DEF Rows
  <2>4. row[e].wait \in 0..RetryMax  BY <2>1 DEF Rows
  <2>5. w \in 0..RetryMax /\ (w = 0 => row[e].wait \in {0, 1}) /\ (row[e].wait = 0 => w = 0)
    BY <2>4, ConstantsAssumption
  <2>6. row'[e] \in Rows  
    <3> HIDE DEF w
    <3> QED BY <2>1, <2>3, <2>5 DEF Rows
  <2>7. QED  
    <3> HIDE DEF w
    <3> QED BY <2>3, <2>5, <2>6
<1>2. row' = [e \in Events |-> row'[e]]  BY DEF TimePasses
<1>3. QED  BY <1>1, <1>2

\* Once committed always committed; only committed events are worked on.
LEMMA StaysCommitted ==
  ASSUME TypeOK, UncommittedIsUntouched,
         \A e \in Events : row[e].in => row'[e].in,
         \A e \in Events : ~row[e].in => row'[e] = row[e],
         \A e \in Events, r \in Relays : at'[r][e] # "none" => row[e].in,
         stray' \subseteq stray
  PROVE  UncommittedIsUntouched'
<1>1. \A c \in stray' : c[2] \in Events /\ row[c[2]].in  BY DEF TypeOK, UncommittedIsUntouched
<1>2. \A c \in stray' : row'[c[2]].in  BY <1>1
<1>3. QED  BY <1>2 DEF UncommittedIsUntouched

\* Every step of every relay, producer and fault keeps the invariant.
LEMMA StepIInv == IInv /\ [Next]_vars => IInv'
<1> SUFFICES ASSUME IInv, [Next]_vars PROVE IInv'
  OBVIOUS
<1> USE ConstantsAssumption DEF IInv
<1>1. ASSUME NEW e \in Events, Commit(e)
      PROVE  IInv'
  <2>1. PICK k \in Kinds[e] : row' = [row EXCEPT ![e].in = TRUE, ![e].kind = k]
    BY <1>1 DEF Commit
  <2>2. ~row[e].in /\ UNCHANGED <<at, waiting, leader, overran, faults, stray, handled, tries>>
    BY <1>1 DEF Commit, Delivery
  <2>3. k \in AllKinds  BY <2>1, ConstantsAssumption
  <2>4. /\ row' \in [Events -> Rows]
        /\ \A x \in Events : x # e => row'[x] = row[x]
        /\ row'[e].in /\ row'[e].done = row[e].done
    <3> DEFINE new == [row[e] EXCEPT !.in = TRUE, !.kind = k]
    <3>1. row[e] \in Rows  BY DEF TypeOK
    <3>2. new \in Rows /\ new.in /\ new.done = row[e].done  BY <2>3, <3>1 DEF Rows
    <3>3. row' = [row EXCEPT ![e] = new]  BY <2>1
    <3> HIDE DEF new
    <3>4. QED  BY <3>2, <3>3 DEF TypeOK
  <2>5. TypeOK'  BY <2>2, <2>4 DEF TypeOK
  <2>6. LocksAreExclusive' /\ LockedIsClaimable'
    BY <2>2, <2>4 DEF LocksAreExclusive, LockedIsClaimable, Claimable
  <2>7. UncommittedIsUntouched'
    BY <2>2, <2>4 DEF TypeOK, UncommittedIsUntouched
  <2>8. AwaitedOrHandled' /\ ProcessedMeansHandled'
    BY <2>2, <2>4 DEF AwaitedOrHandled, ProcessedMeansHandled
  <2>9. \A r \in Relays : ~Holds(r, e)
    BY <2>2 DEF UncommittedIsUntouched, Holds
  <2>10. VisibleMeansOverrun' /\ OverlapNeedsASlowBatch'
    BY <2>2, <2>4, <2>9 DEF VisibleMeansOverrun, OverlapNeedsASlowBatch, Holds
  <2>11. QED  BY <2>5, <2>6, <2>7, <2>8, <2>10
<1>2. ASSUME TimePasses
      PROVE  IInv'
  <2>1. /\ row' \in [Events -> Rows]
        /\ \A e \in Events : /\ row'[e].in = row[e].in /\ row'[e].done = row[e].done
                             /\ row'[e].attempts = row[e].attempts
                             /\ row'[e].wait = 0 => row[e].wait \in {0, 1}
                             /\ row[e].wait = 0 => row'[e].wait = 0
    BY <1>2, TimeMovesWaits
  <2>2. /\ overran' = overran \cup {e \in Events : row[e].wait = 1 /\ \E r \in Relays : Holds(r, e)}
        /\ UNCHANGED <<at, waiting, leader, faults, stray, handled, tries>>
    BY <1>2 DEF TimePasses, Delivery
  <2>3. TypeOK'  BY <2>1, <2>2 DEF TypeOK
  <2>4. LocksAreExclusive' /\ LockedIsClaimable'
    BY <2>1, <2>2 DEF LocksAreExclusive, LockedIsClaimable, Claimable
  <2>5. UncommittedIsUntouched'
    BY <2>1, <2>2 DEF TypeOK, UncommittedIsUntouched
  <2>6. AwaitedOrHandled' /\ ProcessedMeansHandled'
    BY <2>1, <2>2 DEF AwaitedOrHandled, ProcessedMeansHandled
  <2>7. VisibleMeansOverrun' /\ OverlapNeedsASlowBatch'
    BY <2>1, <2>2 DEF VisibleMeansOverrun, OverlapNeedsASlowBatch, Holds
  <2>8. QED  BY <2>3, <2>4, <2>5, <2>6, <2>7
<1>3. ASSUME NEW r \in Relays, Tick(r)
      PROVE  IInv'
  <2> USE <1>3 DEF Tick, FirstUnlocked, Idle, Delivery
  <2>1. TypeOK'  BY DEF TypeOK, Rows, Stages
  <2>2. LocksAreExclusive' /\ LockedIsClaimable'
    BY DEF TypeOK, Rows, LocksAreExclusive, LockedIsClaimable, Claimable, Locked
  <2>3. UncommittedIsUntouched'  BY DEF TypeOK, Rows, UncommittedIsUntouched, LockedIsClaimable, Claimable
  <2>4. AwaitedOrHandled' /\ ProcessedMeansHandled'
    BY DEF TypeOK, Rows, AwaitedOrHandled, ProcessedMeansHandled
  <2>5. VisibleMeansOverrun' /\ OverlapNeedsASlowBatch'
    BY DEF TypeOK, Rows, VisibleMeansOverrun, OverlapNeedsASlowBatch, Holds
  <2>6. QED  BY <2>1, <2>2, <2>3, <2>4, <2>5 DEF IInv
<1>4. ASSUME NEW r \in Relays, Claim(r)
      PROVE  IInv'
  <2>1. /\ row' \in [Events -> Rows]
        /\ \A e \in Events : row'[e].in = row[e].in /\ row'[e].done = row[e].done
        /\ \A e \in Events : e \notin Batch(r) => row'[e] = row[e]
        /\ \A e \in Batch(r) : row'[e].wait > 0 /\ row[e].in
    BY <1>4, ClaimMovesBatch DEF Claim
  <2>2. /\ at' = [at EXCEPT ![r] = [e \in Events |-> IF e \in Batch(r) THEN "todo" ELSE "none"]]
        /\ overran' = overran \ {e \in Batch(r) : \A s \in Relays : ~Holds(s, e)}
        /\ UNCHANGED <<waiting, leader, faults, stray, handled, tries>>
    BY <1>4 DEF Claim, Delivery
  <2>3. /\ at' \in [Relays -> [Events -> Stages]]
        /\ \A e \in Events : at'[r][e] = IF at[r][e] = "locked" THEN "todo" ELSE "none"
        /\ \A s \in Relays : s # r => at'[s] = at[s]
        /\ \A e \in Events : e \in Batch(r) <=> at[r][e] = "locked"
    BY <2>2 DEF TypeOK, Stages, Batch
  <2>4. TypeOK'  BY <2>1, <2>2, <2>3 DEF TypeOK
  <2>5. LocksAreExclusive' /\ LockedIsClaimable'
    BY <2>1, <2>3 DEF LocksAreExclusive, LockedIsClaimable, Claimable
  <2>6. UncommittedIsUntouched'
    <3>1. \A e \in Events, s \in Relays : at'[s][e] # "none" => row[e].in
      BY <2>1, <2>3 DEF UncommittedIsUntouched
    <3>2. QED  BY <2>1, <2>2, <3>1, StaysCommitted
  <2>7. AwaitedOrHandled' /\ ProcessedMeansHandled'
    BY <2>1, <2>2, <2>3 DEF AwaitedOrHandled, ProcessedMeansHandled
  <2>8. \A e \in Events, s \in Relays : e \in Batch(r) /\ Holds(s, e) => e \in overran
    BY <2>3 DEF LockedIsClaimable, Claimable, VisibleMeansOverrun
  <2>9. \A e \in Events : e \notin Batch(r) /\ e \in overran => e \in overran'
    BY <2>2
  <2>10. VisibleMeansOverrun'
    <3>1. SUFFICES ASSUME NEW e \in Events, NEW s \in Relays,
                          Holds(s, e)', ~row'[e].done, row'[e].wait = 0
                   PROVE  e \in overran'
      BY DEF VisibleMeansOverrun
    <3>2. e \notin Batch(r)  BY <2>1, <3>1
    <3>3. s # r  BY <2>3, <3>1, <3>2 DEF Holds
    <3>4. Holds(s, e) /\ row'[e] = row[e]  BY <2>1, <2>3, <3>1, <3>2, <3>3 DEF Holds
    <3>5. e \in overran  BY <3>1, <3>4 DEF VisibleMeansOverrun
    <3>6. QED  BY <2>9, <3>2, <3>5
  <2>11. OverlapNeedsASlowBatch'
    <3>1. SUFFICES ASSUME NEW e \in Events, NEW s \in Relays, NEW t \in Relays, s # t,
                          Holds(s, e)', Holds(t, e)'
                   PROVE  e \in overran'
      BY DEF OverlapNeedsASlowBatch
    <3>2. CASE s # r /\ t # r
      <4>1. Holds(s, e) /\ Holds(t, e)  BY <2>3, <3>1, <3>2 DEF Holds
      <4>2. e \in overran  BY <3>1, <4>1 DEF OverlapNeedsASlowBatch
      <4>3. QED  BY <2>2, <4>1, <4>2
    <3>3. ASSUME NEW u \in Relays, u # r, Holds(u, e)', Holds(r, e)'
          PROVE  e \in overran'
      <4>1. Holds(u, e) /\ e \in Batch(r)  BY <2>3, <3>3 DEF Holds
      <4>2. e \in overran  BY <2>8, <4>1
      <4>3. QED  BY <2>2, <4>1, <4>2
    <3>4. QED  BY <3>1, <3>2, <3>3
  <2>12. QED  BY <2>4, <2>5, <2>6, <2>7, <2>10, <2>11
<1>5. ASSUME NEW r \in Relays, TickEnds(r)
      PROVE  IInv'
  <2> USE <1>5 DEF TickEnds, Released, Delivery
  <2>1. TypeOK'  BY DEF TypeOK, Rows, Stages
  <2>2. LocksAreExclusive' /\ LockedIsClaimable'
    BY DEF TypeOK, Rows, LocksAreExclusive, LockedIsClaimable, Claimable, Locked
  <2>3. UncommittedIsUntouched'  BY DEF TypeOK, Rows, UncommittedIsUntouched, LockedIsClaimable, Claimable
  <2>4. AwaitedOrHandled' /\ ProcessedMeansHandled'
    BY DEF TypeOK, Rows, AwaitedOrHandled, ProcessedMeansHandled
  <2>5. VisibleMeansOverrun' /\ OverlapNeedsASlowBatch'
    BY DEF TypeOK, Rows, VisibleMeansOverrun, OverlapNeedsASlowBatch, Holds
  <2>6. QED  BY <2>1, <2>2, <2>3, <2>4, <2>5 DEF IInv
<1>6. ASSUME NEW r \in Relays, NEW e \in Events, Dispatch(r, e)
      PROVE  IInv'
  <2>0. /\ at[r][e] = "todo"
        /\ Goto(r, e, "park") \/ Goto(r, e, "publish")
        /\ \/ UNCHANGED <<waiting, tries>> /\ Goto(r, e, "park")
           \/ /\ waiting' = [waiting EXCEPT ![r][e] = Listeners]
              /\ tries' = [tries EXCEPT ![e] = @ + 1]
        /\ UNCHANGED <<row, stray, handled, leader, overran, faults>>
    BY <1>6 DEF Dispatch, MayDispatch
  <2>1. TypeOK'
    <3>1. at' \in [Relays -> [Events -> Stages]]  BY <2>0 DEF TypeOK, Stages, Goto
    <3>2. waiting' \in [Relays -> [Events -> SUBSET Listeners]]  BY <2>0 DEF TypeOK
    <3>3. tries' \in [Events -> Nat]
      <4>1. tries[e] + 1 \in Nat  BY DEF TypeOK
      <4>2. QED  BY <2>0, <4>1 DEF TypeOK
    <3>4. QED  BY <2>0, <3>1, <3>2, <3>3 DEF TypeOK
  <2>2. \A s \in Relays, x \in Events :
          /\ Holds(s, x)' <=> Holds(s, x)
          /\ at'[s][x] = "locked" <=> at[s][x] = "locked"
          /\ at'[s][x] = "none" <=> at[s][x] = "none"
          /\ at'[s][x] = "mark" => at[s][x] = "mark"
    BY <2>0 DEF TypeOK, Goto, Holds
  <2>3. LocksAreExclusive' /\ LockedIsClaimable' /\ UncommittedIsUntouched'
    BY <2>0, <2>2 DEF LocksAreExclusive, LockedIsClaimable, UncommittedIsUntouched, Claimable
  <2>4. AwaitedOrHandled'
    <3>1. ASSUME NEW s \in Relays, NEW x \in Events, at'[s][x] = "publish"
          PROVE  handled'[x] \cup waiting'[s][x] = Listeners
      <4>1. CASE s = r /\ x = e
        <5>1. waiting' = [waiting EXCEPT ![r][e] = Listeners]
          BY <2>0, <3>1, <4>1 DEF TypeOK, Goto
        <5>2. waiting'[s][x] = Listeners  BY <4>1, <5>1 DEF TypeOK
        <5>3. handled'[x] \in SUBSET Listeners  BY <2>0 DEF TypeOK
        <5>4. QED  BY <5>2, <5>3
      <4>2. CASE ~(s = r /\ x = e)
        <5>1. waiting'[s][x] = waiting[s][x]  BY <2>0, <4>2 DEF TypeOK
        <5>2. at[s][x] = "publish"  BY <2>0, <3>1, <4>2 DEF TypeOK, Goto
        <5>3. QED  BY <2>0, <5>1, <5>2 DEF AwaitedOrHandled
      <4>3. QED  BY <4>1, <4>2
    <3>2. QED  BY <2>0, <2>2, <3>1 DEF AwaitedOrHandled
  <2>5. ProcessedMeansHandled' /\ VisibleMeansOverrun' /\ OverlapNeedsASlowBatch'
    BY <2>0, <2>2 DEF ProcessedMeansHandled, VisibleMeansOverrun, OverlapNeedsASlowBatch
  <2>6. QED  BY <2>1, <2>3, <2>4, <2>5 DEF IInv
<1>7. ASSUME NEW r \in Relays, NEW e \in Events, Mark(r, e)
      PROVE  IInv'
  <2>1. /\ row' \in [Events -> Rows]
        /\ \A x \in Events : x # e => row'[x] = row[x]
        /\ row'[e].in = row[e].in /\ row'[e].done
    <3>1. row[e] \in Rows  BY DEF TypeOK
    <3>2. 0 \in 0..RetryMax  BY ConstantsAssumption
    <3> DEFINE new == [row[e] EXCEPT !.done = TRUE, !.wait = 0]
    <3>3. new \in Rows /\ new.in = row[e].in /\ new.done  BY <3>1, <3>2 DEF Rows
    <3>4. row' = [row EXCEPT ![e] = new]  BY <1>7 DEF Mark
    <3> HIDE DEF new
    <3>5. QED  BY <3>3, <3>4 DEF TypeOK
  <2>2. /\ at' \in [Relays -> [Events -> Stages]]
        /\ \A x \in Events, s \in Relays : x # e \/ s # r => at'[s][x] = at[s][x]
        /\ at[r][e] = "mark" /\ at'[r][e] = "over" /\ \A s \in Relays : at[s][e] # "locked"
        /\ UNCHANGED <<waiting, leader, overran, faults, stray, handled, tries>>
    BY <1>7 DEF Mark, Goto, Locked, TypeOK, Stages, Delivery
  <2>3. TypeOK'  BY <2>1, <2>2 DEF TypeOK
  <2>4. LocksAreExclusive' /\ LockedIsClaimable'
    BY <2>1, <2>2 DEF LocksAreExclusive, LockedIsClaimable, Claimable, Locked
  <2>5. UncommittedIsUntouched'
    <3>1. row[e].in  BY <2>2 DEF UncommittedIsUntouched
    <3>2. \A x \in Events, s \in Relays : at'[s][x] # "none" => row[x].in
      BY <2>2, <3>1 DEF UncommittedIsUntouched
    <3>3. \A x \in Events : ~row[x].in => row'[x] = row[x]  BY <2>1, <3>1
    <3>4. \A x \in Events : row[x].in => row'[x].in  BY <2>1
    <3>5. QED  BY <2>2, <3>2, <3>3, <3>4, StaysCommitted
  <2>6. AwaitedOrHandled' /\ ProcessedMeansHandled'
    BY <2>1, <2>2 DEF AwaitedOrHandled, ProcessedMeansHandled
  <2>7. VisibleMeansOverrun' /\ OverlapNeedsASlowBatch'
    BY <2>1, <2>2 DEF VisibleMeansOverrun, OverlapNeedsASlowBatch, Holds
  <2>8. QED  BY <2>3, <2>4, <2>5, <2>6, <2>7
<1>8. ASSUME NEW r \in Relays, NEW e \in Events, Park(r, e)
      PROVE  IInv'
  <2>1. /\ row' \in [Events -> Rows]
        /\ \A x \in Events : x # e => row'[x] = row[x]
        /\ row'[e].in = row[e].in /\ row'[e].done = row[e].done /\ row'[e].wait = row[e].wait
    <3>1. row[e] \in Rows /\ MaxAttempts \in 0..MaxAttempts
      BY ConstantsAssumption DEF TypeOK
    <3>2. /\ Parked(e) \in Rows /\ Parked(e).in = row[e].in
          /\ Parked(e).done = row[e].done /\ Parked(e).wait = row[e].wait
      BY <3>1 DEF Rows, Parked
    <3>3. row' = [row EXCEPT ![e] = Parked(e)]  BY <1>8 DEF Park
    <3>4. QED  BY <3>2, <3>3 DEF TypeOK
  <2>2. /\ at' \in [Relays -> [Events -> Stages]]
        /\ \A x \in Events, s \in Relays : x # e \/ s # r => at'[s][x] = at[s][x]
        /\ at[r][e] = "park" /\ at'[r][e] = "over" /\ \A s \in Relays : at[s][e] # "locked"
        /\ UNCHANGED <<waiting, leader, overran, faults, stray, handled, tries>>
    BY <1>8 DEF Park, Goto, Locked, TypeOK, Stages, Delivery
  <2>3. TypeOK'  BY <2>1, <2>2 DEF TypeOK
  <2>4. LocksAreExclusive' /\ LockedIsClaimable'
    BY <2>1, <2>2 DEF LocksAreExclusive, LockedIsClaimable, Claimable, Locked
  <2>5. UncommittedIsUntouched'
    <3>1. row[e].in  BY <2>2 DEF UncommittedIsUntouched
    <3>2. \A x \in Events, s \in Relays : at'[s][x] # "none" => row[x].in
      BY <2>2, <3>1 DEF UncommittedIsUntouched
    <3>3. \A x \in Events : ~row[x].in => row'[x] = row[x]  BY <2>1, <3>1
    <3>4. \A x \in Events : row[x].in => row'[x].in  BY <2>1
    <3>5. QED  BY <2>2, <3>2, <3>3, <3>4, StaysCommitted
  <2>6. AwaitedOrHandled' /\ ProcessedMeansHandled'
    BY <2>1, <2>2 DEF AwaitedOrHandled, ProcessedMeansHandled
  <2>7. VisibleMeansOverrun' /\ OverlapNeedsASlowBatch'
    BY <2>1, <2>2 DEF VisibleMeansOverrun, OverlapNeedsASlowBatch, Holds
  <2>8. QED  BY <2>3, <2>4, <2>5, <2>6, <2>7
<1>9. ASSUME NEW r \in Relays, NEW e \in Events, NEW l \in Listeners, Handle(r, e, l)
      PROVE  IInv'
  <2> USE <1>9 DEF Handle, LastAnswer, Delivery
  <2>1. TypeOK'  BY DEF TypeOK, Rows, Stages
  <2>2. LocksAreExclusive' /\ LockedIsClaimable'
    BY DEF TypeOK, Rows, LocksAreExclusive, LockedIsClaimable, Claimable, Locked
  <2>3. UncommittedIsUntouched'  BY DEF TypeOK, Rows, UncommittedIsUntouched, LockedIsClaimable, Claimable
  <2>4. AwaitedOrHandled' /\ ProcessedMeansHandled'
    BY DEF TypeOK, Rows, AwaitedOrHandled, ProcessedMeansHandled
  <2>5. VisibleMeansOverrun' /\ OverlapNeedsASlowBatch'
    BY DEF TypeOK, Rows, VisibleMeansOverrun, OverlapNeedsASlowBatch, Holds
  <2>6. QED  BY <2>1, <2>2, <2>3, <2>4, <2>5 DEF IInv
<1>10. ASSUME NEW r \in Relays, ClaimFails(r)
      PROVE  IInv'
  <2>1. /\ row' \in [Events -> Rows]
        /\ \A e \in Events : row'[e].in = row[e].in /\ row'[e].done = row[e].done
        /\ \A e \in Events : e \notin Batch(r) => row'[e] = row[e]
        /\ \A e \in Batch(r) : (row'[e].wait > 0 \/ row'[e] = row[e]) /\ row[e].in
    <3>1. CASE ClaimRows(r)  BY <3>1, ClaimMovesBatch
    <3>2. CASE UNCHANGED row
      BY <3>2 DEF TypeOK, Batch, LockedIsClaimable, Claimable
    <3>3. QED  BY <1>10, <3>1, <3>2 DEF ClaimFails
  <2>2. /\ at' \in [Relays -> [Events -> Stages]]
        /\ \A e \in Events : at'[r][e] = "none"
        /\ \A s \in Relays : s # r => at'[s] = at[s]
        /\ \A e \in Events : e \in Batch(r) <=> at[r][e] = "locked"
        /\ faults' \in 0..MaxFaults
        /\ UNCHANGED <<waiting, leader, overran, stray, handled, tries>>
    BY <1>10, ConstantsAssumption DEF ClaimFails, Fault, Batch, Delivery, TypeOK, Stages
  <2>3. TypeOK'  BY <2>1, <2>2 DEF TypeOK
  <2>4. LocksAreExclusive' /\ LockedIsClaimable'
    BY <2>1, <2>2 DEF LocksAreExclusive, LockedIsClaimable, Claimable
  <2>5. UncommittedIsUntouched'
    <3>1. ASSUME NEW e \in Events, NEW s \in Relays, at'[s][e] # "none"
          PROVE  row[e].in
      <4>1. s # r  BY <2>2, <3>1
      <4>2. at[s][e] # "none"  BY <2>2, <3>1, <4>1
      <4>3. QED  BY <4>2 DEF UncommittedIsUntouched
    <3>2. QED  BY <2>1, <2>2, <3>1, StaysCommitted
  <2>6. AwaitedOrHandled' /\ ProcessedMeansHandled'
    BY <2>1, <2>2 DEF AwaitedOrHandled, ProcessedMeansHandled
  <2>7. VisibleMeansOverrun' /\ OverlapNeedsASlowBatch'
    <3>1. \A e \in Events, s \in Relays : Holds(s, e)' => s # r /\ Holds(s, e)
      BY <2>2 DEF Holds
    <3>2. \A e \in Events : row'[e].wait = 0 => row'[e] = row[e]
      BY <2>1
    <3>3. QED  BY <2>2, <3>1, <3>2 DEF VisibleMeansOverrun, OverlapNeedsASlowBatch
  <2>8. QED  BY <2>3, <2>4, <2>5, <2>6, <2>7
<1>11. ASSUME NEW r \in Relays, Crash(r)
      PROVE  IInv'
  <2> USE <1>11 DEF Crash, Released, Fault, Delivery
  <2>1. TypeOK'  BY DEF TypeOK, Rows, Stages
  <2>2. LocksAreExclusive' /\ LockedIsClaimable'
    BY DEF TypeOK, Rows, LocksAreExclusive, LockedIsClaimable, Claimable, Locked
  <2>3. UncommittedIsUntouched'  BY DEF TypeOK, Rows, UncommittedIsUntouched, LockedIsClaimable, Claimable
  <2>4. AwaitedOrHandled' /\ ProcessedMeansHandled'
    BY DEF TypeOK, Rows, AwaitedOrHandled, ProcessedMeansHandled
  <2>5. VisibleMeansOverrun' /\ OverlapNeedsASlowBatch'
    BY DEF TypeOK, Rows, VisibleMeansOverrun, OverlapNeedsASlowBatch, Holds
  <2>6. QED  BY <2>1, <2>2, <2>3, <2>4, <2>5 DEF IInv
<1>12. ASSUME NEW r \in Relays, Elect(r)
      PROVE  IInv'
  <2> USE <1>12 DEF Elect, Delivery
  <2>1. TypeOK'  BY DEF TypeOK, Rows, Stages
  <2>2. LocksAreExclusive' /\ LockedIsClaimable'
    BY DEF TypeOK, Rows, LocksAreExclusive, LockedIsClaimable, Claimable, Locked
  <2>3. UncommittedIsUntouched'  BY DEF TypeOK, Rows, UncommittedIsUntouched, LockedIsClaimable, Claimable
  <2>4. AwaitedOrHandled' /\ ProcessedMeansHandled'
    BY DEF TypeOK, Rows, AwaitedOrHandled, ProcessedMeansHandled
  <2>5. VisibleMeansOverrun' /\ OverlapNeedsASlowBatch'
    BY DEF TypeOK, Rows, VisibleMeansOverrun, OverlapNeedsASlowBatch, Holds
  <2>6. QED  BY <2>1, <2>2, <2>3, <2>4, <2>5 DEF IInv
<1>13. ASSUME NEW r \in Relays, StepDown(r)
      PROVE  IInv'
  <2> USE <1>13 DEF StepDown, Fault, Delivery
  <2>1. TypeOK'  BY DEF TypeOK, Rows, Stages
  <2>2. LocksAreExclusive' /\ LockedIsClaimable'
    BY DEF TypeOK, Rows, LocksAreExclusive, LockedIsClaimable, Claimable, Locked
  <2>3. UncommittedIsUntouched'  BY DEF TypeOK, Rows, UncommittedIsUntouched, LockedIsClaimable, Claimable
  <2>4. AwaitedOrHandled' /\ ProcessedMeansHandled'
    BY DEF TypeOK, Rows, AwaitedOrHandled, ProcessedMeansHandled
  <2>5. VisibleMeansOverrun' /\ OverlapNeedsASlowBatch'
    BY DEF TypeOK, Rows, VisibleMeansOverrun, OverlapNeedsASlowBatch, Holds
  <2>6. QED  BY <2>1, <2>2, <2>3, <2>4, <2>5 DEF IInv
<1>14. ASSUME NEW r \in Relays, NEW e \in Events, WriteFails(r, e)
      PROVE  IInv'
  <2> USE <1>14 DEF WriteFails, Goto, Fault, Delivery
  <2>1. TypeOK'  BY DEF TypeOK, Rows, Stages
  <2>2. LocksAreExclusive' /\ LockedIsClaimable'
    BY DEF TypeOK, Rows, LocksAreExclusive, LockedIsClaimable, Claimable, Locked
  <2>3. UncommittedIsUntouched'  BY DEF TypeOK, Rows, UncommittedIsUntouched, LockedIsClaimable, Claimable
  <2>4. AwaitedOrHandled' /\ ProcessedMeansHandled'
    BY DEF TypeOK, Rows, AwaitedOrHandled, ProcessedMeansHandled
  <2>5. VisibleMeansOverrun' /\ OverlapNeedsASlowBatch'
    BY DEF TypeOK, Rows, VisibleMeansOverrun, OverlapNeedsASlowBatch, Holds
  <2>6. QED  BY <2>1, <2>2, <2>3, <2>4, <2>5 DEF IInv
<1>15. ASSUME NEW r \in Relays, NEW e \in Events, NEW l \in Listeners, Reject(r, e, l)
      PROVE  IInv'
  <2>1. PICK end \in {"park", "over"} : at' = [at EXCEPT ![r][e] = end]
    BY <1>15 DEF Reject, Goto
  <2>2. /\ at' \in [Relays -> [Events -> Stages]]
        /\ \A x \in Events, s \in Relays : x # e \/ s # r => at'[s][x] = at[s][x]
        /\ at[r][e] = "publish" /\ at'[r][e] \in {"park", "over"}
    BY <1>15, <2>1 DEF Reject, TypeOK, Stages
  <2>3. UNCHANGED <<row, handled, leader, tries, overran>>
    BY <1>15 DEF Reject
  <2>4. stray' \subseteq stray \cup {<<r, e, k>> : k \in Listeners}
    BY <1>15 DEF Reject, TypeOK
  <2>5. waiting' = [waiting EXCEPT ![r][e] = {}]  BY <1>15 DEF Reject
  <2>6. faults' \in 0..MaxFaults
    BY <1>15, ConstantsAssumption DEF Reject, Fault, TypeOK
  <2>7. TypeOK'
    <3>1. stray' \subseteq Relays \X Events \X Listeners
      <4>1. \A k \in Listeners : <<r, e, k>> \in Relays \X Events \X Listeners  OBVIOUS
      <4>2. QED  BY <2>4, <4>1 DEF TypeOK
    <3>2. waiting' \in [Relays -> [Events -> SUBSET Listeners]]  BY <2>5 DEF TypeOK
    <3>3. QED  BY <2>2, <2>3, <2>6, <3>1, <3>2 DEF TypeOK
  <2>8. LocksAreExclusive' /\ LockedIsClaimable'
    BY <2>2, <2>3 DEF LocksAreExclusive, LockedIsClaimable, Claimable
  <2>9. UncommittedIsUntouched'
    <3>1. row[e].in  BY <2>2 DEF UncommittedIsUntouched
    <3>2. \A c \in stray' : row[c[2]].in  BY <2>4, <3>1 DEF UncommittedIsUntouched
    <3>3. \A x \in Events, s \in Relays : at'[s][x] # "none" => row[x].in
      BY <2>2, <3>1 DEF UncommittedIsUntouched
    <3>4. QED  BY <2>3, <3>2, <3>3 DEF UncommittedIsUntouched
  <2>10. AwaitedOrHandled' /\ ProcessedMeansHandled'
    <3>1. ASSUME NEW x \in Events, NEW s \in Relays, at'[s][x] \in {"publish", "mark"}
          PROVE  at'[s][x] = at[s][x] /\ waiting'[s][x] = waiting[s][x]
      <4>1. x # e \/ s # r  BY <2>2, <3>1
      <4>2. QED  BY <2>2, <2>5, <4>1 DEF TypeOK
    <3>2. QED  BY <2>3, <3>1 DEF AwaitedOrHandled, ProcessedMeansHandled
  <2>11. VisibleMeansOverrun' /\ OverlapNeedsASlowBatch'
    <3>1. \A x \in Events, s \in Relays : Holds(s, x)' => Holds(s, x)
      <4>1. Holds(r, e)  BY <2>2 DEF Holds
      <4>2. QED  BY <2>2, <4>1 DEF Holds
    <3>2. QED  BY <2>3, <3>1 DEF VisibleMeansOverrun, OverlapNeedsASlowBatch
  <2>12. QED  BY <2>7, <2>8, <2>9, <2>10, <2>11
<1>16. ASSUME NEW r \in Relays, NEW e \in Events, NEW l \in Listeners, Land(r, e, l)
      PROVE  IInv'
  <2> USE <1>16 DEF Land, Delivery
  <2>1. TypeOK'  BY DEF TypeOK, Rows, Stages
  <2>2. LocksAreExclusive' /\ LockedIsClaimable'
    BY DEF TypeOK, Rows, LocksAreExclusive, LockedIsClaimable, Claimable, Locked
  <2>3. UncommittedIsUntouched'  BY DEF TypeOK, Rows, UncommittedIsUntouched, LockedIsClaimable, Claimable
  <2>4. AwaitedOrHandled' /\ ProcessedMeansHandled'
    BY DEF TypeOK, Rows, AwaitedOrHandled, ProcessedMeansHandled
  <2>5. VisibleMeansOverrun' /\ OverlapNeedsASlowBatch'
    BY DEF TypeOK, Rows, VisibleMeansOverrun, OverlapNeedsASlowBatch, Holds
  <2>6. QED  BY <2>1, <2>2, <2>3, <2>4, <2>5 DEF IInv
<1>17. CASE UNCHANGED vars
  BY <1>17 DEF vars, TypeOK, LocksAreExclusive, LockedIsClaimable, Claimable,
     UncommittedIsUntouched, AwaitedOrHandled, VisibleMeansOverrun, ProcessedMeansHandled,
     OverlapNeedsASlowBatch, Holds
<1>18. QED
  BY <1>1, <1>2, <1>3, <1>4, <1>5, <1>6, <1>7, <1>8, <1>9, <1>10, <1>11, <1>12, <1>13, <1>14, <1>15, <1>16, <1>17 DEF Next, RelayStep

\* The invariant behind the theorems below: locks are exclusive, a held row whose
\* back-off ended is known to have overrun, and what is still awaited or handled
\* adds up to all listeners.
THEOREM Inductive == Spec => []IInv
  BY InitIInv, StepIInv, PTL DEF Spec

\* Every relay, event and fault count keeps the state well formed: attempts never
\* pass OUTBOX_MAX_ATTEMPTS however the claims of several relays interleave.
THEOREM Typed == Spec => []TypeOK
  BY Inductive, PTL DEF IInv

\* outbox-relay.service.ts:29-30, 253-263: no row is marked processed before every
\* listener took the event.
THEOREM ProcessedHandled == Spec => []ProcessedMeansHandled
  BY Inductive, PTL DEF IInv

\* outbox-relay.service.ts:167-169: two relays hold one row only after the first
\* outlasted the back-off its claim stamped.
THEOREM Overlap == Spec => []OverlapNeedsASlowBatch
  BY Inductive, PTL DEF IInv

------------------------------------------------------------------------------
(* The attempt budget *)

Todo(e) == {r \in Relays : at[r][e] = "todo"}

\* An event stays within its budget when a step takes no relay up, or spends an
\* attempt on one, or turns one that was taken up into a publish.
LEMMA BudgetKept ==
  ASSUME TypeOK, TypeOK', NEW e \in Events,
         tries[e] + Cardinality(Todo(e)) <= row[e].attempts,
         \/ /\ tries'[e] = tries[e] /\ Todo(e)' \subseteq Todo(e)
            /\ row[e].attempts <= row'[e].attempts
         \/ /\ tries'[e] = tries[e] /\ \E r \in Relays : Todo(e)' \subseteq Todo(e) \cup {r}
            /\ row'[e].attempts = row[e].attempts + 1
         \/ /\ tries'[e] = tries[e] + 1 /\ \E r \in Todo(e) : Todo(e)' \subseteq Todo(e) \ {r}
            /\ row'[e].attempts = row[e].attempts
  PROVE  tries'[e] + Cardinality(Todo(e)') <= row'[e].attempts
<1>1. IsFiniteSet(Todo(e)) /\ IsFiniteSet(Todo(e)')
  BY ConstantsAssumption, FS_Subset DEF ConstantsAssumption, Todo
<1>2. Cardinality(Todo(e)) \in Nat /\ Cardinality(Todo(e)') \in Nat
  BY <1>1, FS_CardinalityType
<1>3. /\ tries[e] \in Nat /\ tries'[e] \in Nat
      /\ row[e].attempts \in Nat /\ row'[e].attempts \in Nat
  BY ConstantsAssumption DEF ConstantsAssumption, TypeOK, Rows
<1>4. Todo(e)' \subseteq Todo(e) => Cardinality(Todo(e)') <= Cardinality(Todo(e))
  BY <1>1, FS_Subset
<1>5. ASSUME NEW r \in Relays, Todo(e)' \subseteq Todo(e) \cup {r}
      PROVE  Cardinality(Todo(e)') <= Cardinality(Todo(e)) + 1
  <2>1. /\ IsFiniteSet(Todo(e) \cup {r})
        /\ Cardinality(Todo(e) \cup {r}) \in {Cardinality(Todo(e)), Cardinality(Todo(e)) + 1}
    BY <1>1, FS_AddElement
  <2>2. Cardinality(Todo(e)') <= Cardinality(Todo(e) \cup {r})
    BY <1>5, <2>1, FS_Subset
  <2>3. QED  BY <1>2, <2>1, <2>2
<1>6. ASSUME NEW r \in Todo(e), Todo(e)' \subseteq Todo(e) \ {r}
      PROVE  Cardinality(Todo(e)') <= Cardinality(Todo(e)) - 1
  <2>1. /\ IsFiniteSet(Todo(e) \ {r})
        /\ Cardinality(Todo(e) \ {r}) = Cardinality(Todo(e)) - 1
    BY <1>1, FS_RemoveElement
  <2>2. QED  BY <1>6, <2>1, FS_Subset
<1>7. QED  BY <1>2, <1>3, <1>4, <1>5, <1>6

\* Every step keeps every event within its budget.
LEMMA StepBudget == IInv /\ IInv' /\ PublishesWithinBudget /\ [Next]_vars => PublishesWithinBudget'
<1> SUFFICES ASSUME IInv, IInv', PublishesWithinBudget, [Next]_vars, NEW e \in Events
             PROVE  tries'[e] + Cardinality(Todo(e)') <= row'[e].attempts
  BY DEF PublishesWithinBudget, Todo
<1>1. /\ TypeOK /\ TypeOK' /\ LockedIsClaimable /\ row[e] \in Rows
      /\ row[e].attempts \in Int /\ row[e].attempts <= MaxAttempts
      /\ tries[e] + Cardinality(Todo(e)) <= row[e].attempts
  BY ConstantsAssumption DEF IInv, TypeOK, Rows, PublishesWithinBudget, Todo
<1>2. ASSUME tries'[e] = tries[e], Todo(e)' \subseteq Todo(e), row[e].attempts <= row'[e].attempts
      PROVE  tries'[e] + Cardinality(Todo(e)') <= row'[e].attempts
  BY <1>1, <1>2, BudgetKept
<1>3. ASSUME UNCHANGED <<row, tries>>, Todo(e)' \subseteq Todo(e)
      PROVE  tries'[e] + Cardinality(Todo(e)') <= row'[e].attempts
  BY <1>1, <1>2, <1>3
<1>4. ASSUME NEW x \in Events, Commit(x)
      PROVE  tries'[e] + Cardinality(Todo(e)') <= row'[e].attempts
  <2>1. PICK k : row' = [row EXCEPT ![x].in = TRUE, ![x].kind = k]
    BY <1>4 DEF Commit
  <2>2. [row[x] EXCEPT !.in = TRUE, !.kind = k].attempts = row[x].attempts
    BY <1>1 DEF TypeOK, Rows
  <2>3. row'[e].attempts = row[e].attempts
    BY <1>1, <2>1, <2>2 DEF TypeOK
  <2>4. QED  BY <1>1, <1>2, <1>4, <2>3 DEF Commit, Delivery, Todo
<1>5. CASE TimePasses
  BY <1>1, <1>2, <1>5, TimeMovesWaits DEF TimePasses, Delivery, Todo
<1>6. ASSUME NEW r \in Relays, Tick(r)
      PROVE  tries'[e] + Cardinality(Todo(e)') <= row'[e].attempts
  BY <1>1, <1>3, <1>6 DEF Tick, Delivery, Todo, TypeOK
<1>7. ASSUME NEW r \in Relays, ClaimRows(r), tries' = tries, Todo(e)' \subseteq Todo(e) \cup {r},
             e \notin Batch(r) => Todo(e)' \subseteq Todo(e)
      PROVE  tries'[e] + Cardinality(Todo(e)') <= row'[e].attempts
  <2>1. CASE e \in Batch(r)
    <3>1. Claimed(e).attempts = row[e].attempts + 1
      BY <1>1 DEF Claimed, Rows
    <3>2. row'[e].attempts = row[e].attempts + 1
      BY <1>7, <2>1, <3>1 DEF ClaimRows
    <3>3. QED  BY <1>1, <1>7, <3>2, BudgetKept
  <2>2. CASE e \notin Batch(r)
    BY <1>1, <1>2, <1>7, <2>2, ClaimMovesBatch
  <2>3. QED  BY <2>1, <2>2
<1>8. ASSUME NEW r \in Relays, Claim(r)
      PROVE  tries'[e] + Cardinality(Todo(e)') <= row'[e].attempts
  BY <1>1, <1>7, <1>8 DEF Claim, Delivery, Todo, TypeOK
<1>9. ASSUME NEW r \in Relays, ClaimFails(r)
      PROVE  tries'[e] + Cardinality(Todo(e)') <= row'[e].attempts
  <2>1. tries' = tries /\ Todo(e)' \subseteq Todo(e)
    BY <1>1, <1>9 DEF ClaimFails, Delivery, Todo, TypeOK
  <2>2. QED  BY <1>3, <1>7, <1>9, <2>1 DEF ClaimFails
<1>10. ASSUME NEW r \in Relays, NEW x \in Events, Dispatch(r, x)
       PROVE  tries'[e] + Cardinality(Todo(e)') <= row'[e].attempts
  <2>1. /\ at[r][x] = "todo" /\ row' = row
        /\ \E stage \in {"park", "publish"} : at' = [at EXCEPT ![r][x] = stage]
        /\ tries' = tries \/ tries' = [tries EXCEPT ![x] = @ + 1]
    BY <1>10 DEF Dispatch, MayDispatch, Goto
  <2>2. Todo(e)' \subseteq Todo(e) /\ (x = e => r \in Todo(e) /\ r \notin Todo(e)')
    BY <1>1, <2>1 DEF Todo, TypeOK
  <2>3. tries'[e] = tries[e] \/ (x = e /\ tries'[e] = tries[e] + 1)
    BY <1>1, <2>1 DEF TypeOK
  <2>4. CASE tries'[e] = tries[e]
    BY <1>1, <1>2, <2>1, <2>2, <2>4
  <2>5. CASE x = e /\ tries'[e] = tries[e] + 1
    <3>1. r \in Todo(e) /\ Todo(e)' \subseteq Todo(e) \ {r} /\ row'[e].attempts = row[e].attempts
      BY <2>1, <2>2, <2>5
    <3>2. QED  BY <1>1, <2>5, <3>1, BudgetKept
  <2>6. QED  BY <2>3, <2>4, <2>5
<1>11. ASSUME NEW r \in Relays, NEW x \in Events, NEW stage \in Stages \ {"todo"}, Goto(r, x, stage)
       PROVE  Todo(e)' \subseteq Todo(e)
  BY <1>1, <1>11 DEF Goto, Todo, TypeOK
<1>12. ASSUME NEW r \in Relays, NEW x \in Events, Mark(r, x)
       PROVE  tries'[e] + Cardinality(Todo(e)') <= row'[e].attempts
  <2>1. [row[x] EXCEPT !.done = TRUE, !.wait = 0].attempts = row[x].attempts
    BY <1>1 DEF TypeOK, Rows
  <2>2. row'[e].attempts = row[e].attempts
    BY <1>1, <1>12, <2>1 DEF Mark, TypeOK
  <2>3. QED  BY <1>1, <1>2, <1>11, <1>12, <2>2 DEF Mark, Delivery, Stages
<1>13. ASSUME NEW r \in Relays, NEW x \in Events, Park(r, x)
       PROVE  tries'[e] + Cardinality(Todo(e)') <= row'[e].attempts
  <2>1. row'[e] = row[e] \/ row'[e].attempts = MaxAttempts
    BY <1>1, <1>13 DEF Park, Parked, TypeOK, Rows
  <2>2. QED  BY <1>1, <1>2, <1>11, <1>13, <2>1 DEF Park, Delivery, Stages
<1>14. ASSUME NEW r \in Relays, NEW x \in Events, NEW l \in Listeners,
              Handle(r, x, l) \/ Reject(r, x, l) \/ Land(r, x, l)
       PROVE  tries'[e] + Cardinality(Todo(e)') <= row'[e].attempts
  <2>1. UNCHANGED <<row, tries>>
    BY <1>14 DEF Handle, Reject, Land, Delivery
  <2>2. at' = at \/ \E stage \in Stages \ {"todo"} : Goto(r, x, stage)
    BY <1>14 DEF Handle, Reject, Land, Goto, Stages
  <2>3. Todo(e)' \subseteq Todo(e)
    BY <1>11, <2>2 DEF Todo
  <2>4. QED  BY <1>3, <2>1, <2>3
<1>15. ASSUME NEW r \in Relays, TickEnds(r) \/ Crash(r) \/ Elect(r) \/ StepDown(r)
       PROVE  tries'[e] + Cardinality(Todo(e)') <= row'[e].attempts
  <2>1. UNCHANGED <<row, tries>>
    BY <1>15 DEF TickEnds, Crash, Elect, StepDown, Delivery
  <2>2. at' = at \/ \E s \in Relays : Released(s)
    BY <1>15 DEF TickEnds, Crash, Elect, StepDown
  <2>3. \A s \in Relays : at'[s][e] \in {at[s][e], "none"}
    <3>1. CASE at' = at
      BY <3>1
    <3>2. ASSUME NEW s \in Relays, Released(s)
          PROVE  \A q \in Relays : at'[q][e] \in {at[q][e], "none"}
      <4>1. \A q \in Relays : at'[q] = IF q = s THEN [x \in Events |-> "none"] ELSE at[q]
        BY <1>1, <3>2 DEF Released, TypeOK
      <4> QED BY <1>1, <4>1
    <3> QED BY <2>2, <3>1, <3>2
  <2>4. Todo(e)' \subseteq Todo(e)
    BY <2>3 DEF Todo
  <2>5. QED  BY <1>3, <2>1, <2>4
<1>16. CASE UNCHANGED vars
  BY <1>3, <1>16 DEF vars, Todo
<1>17. ASSUME NEW r \in Relays, NEW x \in Events, WriteFails(r, x)
       PROVE  tries'[e] + Cardinality(Todo(e)') <= row'[e].attempts
  BY <1>3, <1>11, <1>17 DEF WriteFails, Delivery, Stages
<1>18. QED
  BY <1>4, <1>5, <1>6, <1>8, <1>9, <1>10, <1>12, <1>13, <1>14, <1>15, <1>16, <1>17
     DEF Next, RelayStep

\* outbox-relay.service.ts:101-102: however many relays lead, crash or lose the answer
\* of a claim, no event is published more often than OUTBOX_MAX_ATTEMPTS allows.
THEOREM WithinBudget == Spec => []PublishesWithinBudget
<1>1. Init => PublishesWithinBudget
  <2>1. ASSUME Init, NEW e \in Events
        PROVE  tries[e] = 0 /\ row[e].attempts = 0 /\ {r \in Relays : at[r][e] = "todo"} = {}
    BY <2>1 DEF Init, NoRow
  <2>2. Cardinality({}) = 0  BY FS_EmptySet
  <2>3. ASSUME Init, NEW e \in Events
        PROVE  tries[e] + Cardinality({r \in Relays : at[r][e] = "todo"}) <= row[e].attempts
    <3>1. tries[e] = 0 /\ row[e].attempts = 0 /\ {r \in Relays : at[r][e] = "todo"} = {}
      BY <2>1, <2>3
    <3>2. QED  BY <2>2, <3>1
  <2>4. QED  BY <2>3 DEF PublishesWithinBudget
<1>2. IInv /\ IInv' /\ PublishesWithinBudget /\ [Next]_vars => PublishesWithinBudget'
  BY StepBudget
<1>3. QED  BY <1>1, <1>2, Inductive, PTL DEF Spec

------------------------------------------------------------------------------
(* Refinement *)

\* A step that keeps in, done and attempts of a row keeps the event's fate.
LEMMA FateFollowsRow ==
  ASSUME NEW e \in Events, row'[e].in = row[e].in, row'[e].done = row[e].done,
         row'[e].attempts = row[e].attempts
  PROVE  Fate(e)' = Fate(e)
  BY DEF Fate

\* Nothing is promised of an empty outbox.
LEMMA InitPromises == Init => Promise!Init
  BY DEF Init, NoRow, Fate, Promise!Init

\* Rows change their fate by spending their last attempt, or not at all.
LEMMA SpendingGivesUp ==
  ASSUME UNCHANGED handled,
         \A e \in Events : Fate(e)' = Fate(e) \/ (Fate(e) = "pending" /\ Fate(e)' = "given up")
  PROVE  Promise!GiveUp
<1> DEFINE spent == {e \in Events : Fate(e) = "pending" /\ Fate(e)' = "given up"}
<1>1. spent \in SUBSET {e \in Events : [x \in Events |-> Fate(x)][e] = "pending"}
  OBVIOUS
<1>2. [e \in Events |-> Fate(e)]'
        = [e \in Events |-> IF e \in spent THEN "given up" ELSE [x \in Events |-> Fate(x)][e]]
  OBVIOUS
<1>3. QED  BY <1>1, <1>2 DEF Promise!GiveUp

\* A claim gives up exactly the events whose last attempt it spends.
LEMMA ClaimPromises ==
  ASSUME IInv, NEW r \in Relays, ClaimRows(r), UNCHANGED handled
  PROVE  Promise!GiveUp
<1>1. ASSUME NEW e \in Events
      PROVE  Fate(e)' = Fate(e) \/ (Fate(e) = "pending" /\ Fate(e)' = "given up")
  <2>1. CASE e \notin Batch(r)
    BY <2>1, ClaimMovesBatch, FateFollowsRow DEF IInv
  <2>2. CASE e \in Batch(r)
    <3>1. Fate(e) = "pending"
      BY <2>2, ConstantsAssumption DEF IInv, LockedIsClaimable, Batch, Claimable, Fate, TypeOK, Rows
    <3>2. row'[e].in /\ ~row'[e].done
      BY <2>2, ClaimMovesBatch DEF IInv, LockedIsClaimable, Batch, Claimable
    <3>3. QED  BY <3>1, <3>2 DEF Fate
  <2>3. QED  BY <2>1, <2>2
<1>2. QED  BY <1>1, SpendingGivesUp

\* Each step of the relay is a step of the promise, or changes nothing it speaks of.
LEMMA StepPromises ==
  IInv /\ [Next]_vars => [Promise!Next]_<<[e \in Events |-> Fate(e)], handled>>
<1> SUFFICES ASSUME IInv, [Next]_vars
             PROVE  Promise!Next \/ UNCHANGED <<[e \in Events |-> Fate(e)], handled>>
  OBVIOUS
<1>1. ASSUME UNCHANGED <<row, handled>>
      PROVE  UNCHANGED <<[e \in Events |-> Fate(e)], handled>>
  BY <1>1 DEF Fate
<1>2. ASSUME NEW e \in Events, Commit(e)
      PROVE  Promise!Commit(e)
  <2>1. PICK k \in Kinds[e] : row' = [row EXCEPT ![e].in = TRUE, ![e].kind = k]
    BY <1>2 DEF Commit
  <2>2. ~row[e].in /\ ~row[e].done /\ row[e].attempts = 0 /\ UNCHANGED handled
    BY <1>2 DEF Commit, Delivery, IInv, UncommittedIsUntouched
  <2>3. \A x \in Events : x # e => row'[x] = row[x]
    BY <2>1 DEF IInv, TypeOK
  <2>4. row'[e].in /\ ~row'[e].done /\ row'[e].attempts = 0
    <3> DEFINE new == [row[e] EXCEPT !.in = TRUE, !.kind = k]
    <3>1. row[e] \in Rows  BY DEF IInv, TypeOK
    <3>2. new.in /\ new.done = row[e].done /\ new.attempts = row[e].attempts  BY <3>1 DEF Rows
    <3>3. row' = [row EXCEPT ![e] = new]  BY <2>1
    <3> HIDE DEF new
    <3>4. QED  BY <2>2, <3>2, <3>3 DEF IInv, TypeOK
  <2>5. Fate(e) = "absent" /\ Fate(e)' = "pending"
    BY <2>2, <2>4, ConstantsAssumption DEF Fate
  <2>6. \A x \in Events : x # e => Fate(x)' = Fate(x)  BY <2>3 DEF Fate
  <2>7. QED  BY <2>2, <2>5, <2>6 DEF Promise!Commit
<1>3. ASSUME TimePasses
      PROVE  UNCHANGED <<[e \in Events |-> Fate(e)], handled>>
  <2>1. \A e \in Events : Fate(e)' = Fate(e)
    BY <1>3, TimeMovesWaits, FateFollowsRow DEF IInv
  <2>2. QED  BY <1>3, <2>1 DEF TimePasses, Delivery
<1>4. ASSUME NEW r \in Relays, Claim(r)
      PROVE  Promise!GiveUp
  BY <1>4, ClaimPromises DEF Claim, Delivery
<1>5. ASSUME NEW r \in Relays, ClaimFails(r)
      PROVE  Promise!GiveUp \/ UNCHANGED <<[e \in Events |-> Fate(e)], handled>>
  <2>1. UNCHANGED handled  BY <1>5 DEF ClaimFails, Delivery
  <2>2. CASE ClaimRows(r)  BY <2>1, <2>2, ClaimPromises
  <2>3. CASE UNCHANGED row  BY <1>1, <2>1, <2>3
  <2>4. QED  BY <1>5, <2>2, <2>3 DEF ClaimFails
<1>6. ASSUME NEW e \in Events, NEW l \in Listeners, row[e].in, UNCHANGED row,
             handled' = [handled EXCEPT ![e] = @ \cup {l}]
      PROVE  Promise!Handle(e, l)
  <2>1. Fate(e) # "absent"  BY <1>6 DEF Fate
  <2>2. \A x \in Events : Fate(x)' = Fate(x)  BY <1>6 DEF Fate
  <2>3. QED  BY <1>6, <2>1, <2>2 DEF Promise!Handle
<1>7. ASSUME NEW r \in Relays, NEW e \in Events, NEW l \in Listeners, Handle(r, e, l)
      PROVE  Promise!Handle(e, l)
  BY <1>6, <1>7 DEF Handle, IInv, UncommittedIsUntouched
<1>8. ASSUME NEW r \in Relays, NEW e \in Events, NEW l \in Listeners, Land(r, e, l)
      PROVE  Promise!Handle(e, l)
  <2>1. row[<<r, e, l>>[2]].in  BY <1>8 DEF Land, IInv, UncommittedIsUntouched
  <2>2. QED  BY <1>6, <1>8, <2>1 DEF Land
<1>9. ASSUME NEW r \in Relays, NEW e \in Events, Mark(r, e)
      PROVE  Promise!Acknowledge(e) \/ UNCHANGED <<[x \in Events |-> Fate(x)], handled>>
  <2>1. handled[e] = Listeners /\ row[e].in /\ UNCHANGED handled
    BY <1>9 DEF Mark, Delivery, IInv, AwaitedOrHandled, UncommittedIsUntouched
  <2>2. \A x \in Events : x # e => row'[x] = row[x]  BY <1>9 DEF Mark, IInv, TypeOK
  <2>3. row'[e].in /\ row'[e].done
    <3>1. row[e] \in Rows  BY DEF IInv, TypeOK
    <3>2. [row[e] EXCEPT !.done = TRUE, !.wait = 0].in = row[e].in
          /\ [row[e] EXCEPT !.done = TRUE, !.wait = 0].done
      BY <3>1 DEF Rows
    <3>3. row'[e] = [row[e] EXCEPT !.done = TRUE, !.wait = 0]
      BY <1>9 DEF Mark, IInv, TypeOK
    <3>4. QED  BY <2>1, <3>2, <3>3
  <2>4. Fate(e)' = "delivered"  BY <2>3 DEF Fate
  <2>5. \A x \in Events : x # e => Fate(x)' = Fate(x)  BY <2>2 DEF Fate
  <2>6. Fate(e) \in {"pending", "given up", "delivered"}  BY <2>1 DEF Fate
  <2>7. CASE Fate(e) = "delivered"
    BY <2>1, <2>4, <2>5, <2>7
  <2>8. CASE Fate(e) # "delivered"
    BY <2>1, <2>4, <2>5, <2>6, <2>8 DEF Promise!Acknowledge
  <2>9. QED  BY <2>7, <2>8
<1>10. ASSUME NEW r \in Relays, NEW e \in Events, Park(r, e)
       PROVE  Promise!GiveUp
  <2>1. UNCHANGED handled /\ row[e].in
    BY <1>10 DEF Park, Delivery, IInv, UncommittedIsUntouched
  <2>2. \A x \in Events : x # e => row'[x] = row[x]  BY <1>10 DEF Park, IInv, TypeOK
  <2>3. row'[e].in = row[e].in /\ row'[e].done = row[e].done /\ row'[e].attempts = MaxAttempts
    <3>1. row[e] \in Rows  BY DEF IInv, TypeOK
    <3>2. row'[e] = Parked(e)  BY <1>10 DEF Park, IInv, TypeOK
    <3>3. QED  BY <3>1, <3>2 DEF Parked, Rows
  <2>4. Fate(e)' = Fate(e) \/ (Fate(e) = "pending" /\ Fate(e)' = "given up")
    BY <2>1, <2>3 DEF Fate
  <2>5. \A x \in Events : x # e => Fate(x)' = Fate(x)  BY <2>2 DEF Fate
  <2>6. QED  BY <2>1, <2>4, <2>5, SpendingGivesUp
<1>11. ASSUME NEW r \in Relays,
              \/ Tick(r) \/ TickEnds(r) \/ Crash(r) \/ Elect(r) \/ StepDown(r)
              \/ \E e \in Events : \/ Dispatch(r, e) \/ WriteFails(r, e)
                                   \/ \E l \in Listeners : Reject(r, e, l)
       PROVE  UNCHANGED <<row, handled>>
  BY <1>11 DEF Tick, TickEnds, Crash, Elect, StepDown, Dispatch, WriteFails, Reject, Delivery
<1>12. CASE UNCHANGED vars
  BY <1>1, <1>12 DEF vars
<1>13. QED
  BY <1>1, <1>2, <1>3, <1>4, <1>5, <1>7, <1>8, <1>9, <1>10, <1>11, <1>12
     DEF Next, RelayStep, Promise!Next

\* docs/scaling-to-services.md:14, 70: for every set of events, relays and listeners
\* the relay only takes steps that at-least-once delivery allows.
THEOREM RelayDelivers == Spec => DeliversAsPromised
  BY Inductive, InitPromises, StepPromises, PTL DEF Spec, DeliversAsPromised, Promise!Spec
==============================================================================
