------------------------- MODULE Idempotency_proofs -------------------------
(* Proofs about Idempotency, for every set of requests and all TTLs.       *)
EXTENDS Idempotency, TLAPS

\* What every leaf needs to know about the constants.
LEMMA ConstantFacts ==
  /\ RequestTimeout \in Nat /\ RedisDelay \in Nat /\ LockTtl \in Nat /\ RecordTtl \in Nat
  /\ RecordTtl > 0 /\ RequestTimeout + RedisDelay < LockTtl /\ LockTtl > 0
  /\ NoOne \notin Requests
BY TimingAssumption, NoOneAssumption

\* The first states satisfy the invariant.
LEMMA InitIInv == Init => IInv
BY ConstantFacts
   DEF Init, IInv, TypeOK, RecordIsAClaim, StageHolds, Results, NoRecord, Records, Sources, Replies,
       Emitted, Owns, Protected

\* The end of a request leaves its variables well typed.
LEMMA Finishing ==
  ASSUME TypeOK, NEW r \in Requests, Finish(r)
  PROVE  /\ src' \in [Requests -> Sources] /\ ctx' \in [Requests -> BOOLEAN]
         /\ left' \in [Requests -> Nat] /\ value' \in [Requests -> Emitted]
<1>1. src' \in [Requests -> Sources] BY DEF Finish, TypeOK, Sources
<1>2. ctx' \in [Requests -> BOOLEAN] BY DEF Finish, TypeOK
<1>3. left' \in [Requests -> Nat] BY DEF Finish, TypeOK
<1>4. value' \in [Requests -> Emitted] BY DEF Finish, TypeOK, Emitted
<1> QED BY <1>1, <1>2, <1>3, <1>4

\* One tick of a countdown.
LEMMA CountingDown ==
  ASSUME NEW f \in [Requests -> Nat]
  PROVE  /\ Countdown(f) \in [Requests -> Nat]
         /\ \A r \in Requests : Countdown(f)[r] = IF f[r] = 0 THEN 0 ELSE f[r] - 1
<1>1. ASSUME NEW n \in Nat PROVE (IF n = 0 THEN 0 ELSE n - 1) \in Nat
  <2>1. CASE n = 0 BY <2>1
  <2>2. CASE n # 0 BY <2>2
  <2> QED BY <2>1, <2>2
<1>2. ASSUME NEW r \in Requests PROVE (IF f[r] = 0 THEN 0 ELSE f[r] - 1) \in Nat
  BY <1>1, f[r] \in Nat
<1> QED BY <1>2 DEF Countdown

\* Taking a free lock makes the record the claim of r and leaves no request that
\* is still in time without its lock, since before none was.
LEMMA TakingTheLock ==
  ASSUME IInv, NEW r \in Requests, rec.state = "none", TakeLock(r)
  PROVE  /\ rec' \in Records /\ guard' \in [Requests -> Nat] /\ RecordIsAClaim'
         /\ Owns(r)' /\ rec'.ttl = LockTtl
         /\ \A q \in Requests : ~(ctx[q] /\ reply[q] = "none" /\ src[q] \in {"handler", "sending"})
BY ConstantFacts
   DEF IInv, TypeOK, RecordIsAClaim, StageHolds, Results, TakeLock, Records, Emitted, Owns, Protected

\* A compare-and-set of r leaves the lock of every other request alone.
LEMMA CompareAndSet ==
  ASSUME IInv, NEW r \in Requests, NEW body \in Emitted, CompleteIfOwner(r, body)
  PROVE  /\ rec' \in Records /\ guard' \in [Requests -> Nat] /\ RecordIsAClaim'
         /\ \A q \in Requests \ {r} : Owns(q) => rec' = rec
BY ConstantFacts
   DEF IInv, TypeOK, RecordIsAClaim, CompleteIfOwner, Records, Emitted, Owns, Protected

\* The owner's release removes the record and nobody else's.
LEMMA Releasing ==
  ASSUME IInv, NEW r \in Requests, Owns(r), ReleaseIfOwner(r)
  PROVE  /\ rec' \in Records /\ guard' \in [Requests -> Nat] /\ RecordIsAClaim'
         /\ \A q \in Requests \ {r} : Owns(q) => rec' = rec
BY ConstantFacts
   DEF IInv, TypeOK, RecordIsAClaim, ReleaseIfOwner, NoRecord, Records, Emitted, Owns, Protected

\* Every step of a request preserves the invariant.
LEMMA StepIInv == ASSUME IInv, NEW r \in Requests, Step(r) PROVE IInv'
<1> USE ConstantFacts DEF IInv
<1>1. CASE Arrive(r)
  BY <1>1 DEF Arrive, TypeOK, RecordIsAClaim, StageHolds, Results, Sources, Owns, Protected
<1>2. CASE Acquire(r)
  <2>1. TakeLock(r) /\ rec.state = "none" BY <1>2 DEF Acquire
  <2>2. TypeOK'
    <3>1. CASE Finish(r) BY <1>2, <2>1, <3>1, Finishing, TakingTheLock DEF Acquire, TypeOK
    <3>2. CASE ~Finish(r)
      BY <1>2, <2>1, <3>2, TakingTheLock DEF Acquire, TypeOK, Sources, Emitted
    <3> QED BY <3>1, <3>2
  <2>3. RecordIsAClaim' BY <2>1, TakingTheLock
  <2>4. ASSUME NEW q \in Requests PROVE StageHolds(q)'
    BY <1>2, <2>1, TakingTheLock DEF Acquire, TypeOK, StageHolds, Results, Finish, Owns
  <2> QED BY <2>2, <2>3, <2>4
<1>3. CASE AcquireReplyLost(r)
  <2>1. TakeLock(r) /\ rec.state = "none" BY <1>3 DEF AcquireReplyLost
  <2>2. TypeOK' BY <1>3, <2>1, TakingTheLock DEF AcquireReplyLost, TypeOK
  <2>3. RecordIsAClaim' BY <2>1, TakingTheLock
  <2>4. ASSUME NEW q \in Requests PROVE StageHolds(q)'
    BY <1>3, <2>1, TakingTheLock DEF AcquireReplyLost, TypeOK, StageHolds, Results
  <2> QED BY <2>2, <2>3, <2>4
<1>4. CASE LockTaken(r)
  BY <1>4 DEF LockTaken, TypeOK, RecordIsAClaim, StageHolds, Results, Sources, Owns, Protected
<1>5. CASE ReadRecord(r)
  <2>1. ReadOutcome(r) \in Replies /\ (ReadOutcome(r) = "replayed" => rec.by \in Requests)
    BY DEF ReadOutcome, Replies, RecordIsAClaim
  <2>2. TypeOK' BY <1>5, <2>1 DEF ReadRecord, Finish, TypeOK, Sources, Emitted
  <2>3. RecordIsAClaim' BY <1>5 DEF ReadRecord, RecordIsAClaim, Protected
  <2>4. ASSUME NEW q \in Requests PROVE StageHolds(q)'
    BY <1>5 DEF ReadRecord, Finish, TypeOK, StageHolds, Results, Owns
  <2> QED BY <2>2, <2>3, <2>4
<1>6. CASE AcquireFails(r)
  <2>1. TypeOK'
    <3>1. CASE Finish(r) BY <1>6, <3>1, Finishing DEF AcquireFails, TypeOK
    <3>2. CASE ~Finish(r) BY <1>6, <3>2 DEF AcquireFails, TypeOK, Sources
    <3> QED BY <3>1, <3>2
  <2>2. RecordIsAClaim' BY <1>6 DEF AcquireFails, RecordIsAClaim, Protected
  <2>3. ASSUME NEW q \in Requests PROVE StageHolds(q)'
    BY <1>6 DEF AcquireFails, Finish, TypeOK, StageHolds, Results, Owns
  <2> QED BY <2>1, <2>2, <2>3
<1>7. CASE Commit(r)
  BY <1>7 DEF Commit, TypeOK, RecordIsAClaim, StageHolds, Results, Owns, Protected
<1>8. ASSUME NEW v \in Results, Return(r, v) PROVE IInv'
  <2>1. TypeOK'
    <3>1. CASE Finish(r) BY <1>8, <3>1, Finishing DEF Return, TypeOK
    <3>2. CASE ~Finish(r) BY <1>8, <3>2 DEF Return, TypeOK, Sources, Emitted, Results
    <3> QED BY <3>1, <3>2
  <2>2. RecordIsAClaim' BY <1>8 DEF Return, RecordIsAClaim, Protected
  <2>3. ASSUME NEW q \in Requests PROVE StageHolds(q)'
    BY <1>8 DEF Return, Finish, TypeOK, Records, StageHolds, Results, Owns
  <2> QED BY <2>1, <2>2, <2>3
<1>9. CASE Respond(r)
  <2>1. /\ rec' \in Records /\ guard' \in [Requests -> Nat] /\ RecordIsAClaim'
        /\ \A q \in Requests \ {r} : Owns(q) => rec' = rec
    <3>1. CASE UNCHANGED <<rec, guard>>
      BY <3>1 DEF TypeOK, RecordIsAClaim, Protected
    <3>2. CASE ctx[r] /\ value[r] = "ok" /\ CompleteIfOwner(r, "ok")
      BY <3>2, CompareAndSet DEF Emitted
    <3>3. CASE ctx[r] /\ value[r] = "rejected" /\ ReleaseIfOwner(r)
      <4>1. Owns(r) BY <1>9, <3>3 DEF Respond, StageHolds, Results
      <4> QED BY <3>3, <4>1, Releasing
    <3> QED BY <1>9, <3>1, <3>2, <3>3 DEF Respond, StoreOutcome
  <2>2. TypeOK'
    <3>1. value[r] # "none" /\ value[r] # "empty"
      BY <1>9 DEF Respond, StageHolds, Results
    <3> QED BY <1>9, <2>1, <3>1, Finishing DEF Respond, TypeOK, Emitted, Replies
  <2>3. ASSUME NEW q \in Requests PROVE StageHolds(q)'
    BY <1>9, <2>1 DEF Respond, Finish, TypeOK, StageHolds, Results, Owns
  <2> QED BY <2>1, <2>2, <2>3
<1>10. CASE CompleteLate(r)
  <2>1. /\ rec' \in Records /\ guard' \in [Requests -> Nat] /\ RecordIsAClaim'
        /\ \A q \in Requests \ {r} : Owns(q) => rec' = rec
    <3>1. CASE UNCHANGED <<rec, guard>>
      BY <3>1 DEF TypeOK, RecordIsAClaim, Protected
    <3>2. CASE CompleteIfOwner(r, value[r])
      BY <3>2, CompareAndSet DEF TypeOK
    <3> QED BY <1>10, <3>1, <3>2 DEF CompleteLate
  <2>2. TypeOK' BY <1>10, <2>1, Finishing DEF CompleteLate, TypeOK
  <2>3. ASSUME NEW q \in Requests PROVE StageHolds(q)'
    BY <1>10, <2>1 DEF CompleteLate, Finish, TypeOK, StageHolds, Results, Owns
  <2> QED BY <2>1, <2>2, <2>3
<1>11. CASE TimeoutFires(r)
  BY <1>11 DEF TimeoutFires, TypeOK, RecordIsAClaim, StageHolds, Results, Replies, Owns, Protected
<1>12. CASE Crash(r)
  BY <1>12 DEF Crash, Finish, TypeOK, RecordIsAClaim, StageHolds, Results, Sources, Emitted, Replies, Owns,
               Protected
<1> QED BY <1>1, <1>2, <1>3, <1>4, <1>5, <1>6, <1>7, <1>8, <1>9, <1>10, <1>11, <1>12 DEF Step

\* Time passes for the record and for its claim alike, and a request that is
\* still in time has ticks left, hence its lock more than one.
LEMMA TickIInv == IInv /\ Tick => IInv'
<1> SUFFICES ASSUME IInv, Tick PROVE IInv'
  OBVIOUS
<1> USE ConstantFacts DEF IInv
<1>1. /\ left' \in [Requests -> Nat] /\ guard' \in [Requests -> Nat]
      /\ \A r \in Requests : /\ left'[r] = IF left[r] = 0 THEN 0 ELSE left[r] - 1
                             /\ guard'[r] = IF guard[r] = 0 THEN 0 ELSE guard[r] - 1
  BY CountingDown DEF Tick, TypeOK
<1>2. rec' \in Records
  BY DEF Tick, TypeOK, Records, NoRecord, Emitted
<1>3. TypeOK' BY <1>1, <1>2 DEF Tick, TypeOK
<1>4. RecordIsAClaim'
  BY <1>1, <1>2 DEF Tick, TypeOK, Records, NoRecord, RecordIsAClaim, Protected
<1>5. ASSUME NEW r \in Requests PROVE StageHolds(r)'
  <2>1. Unanswered(r) => left[r] > 0 BY DEF Tick, NothingOverdue
  <2>2. Owns(r) /\ rec.ttl > 1 => Owns(r)' /\ rec'.ttl = rec.ttl - 1
    BY DEF Tick, Owns, TypeOK, Records
  <2> QED BY <1>1, <2>1, <2>2 DEF Tick, StageHolds, Results, Unanswered, TypeOK, Records
<1> QED BY <1>3, <1>4, <1>5

\* Every step preserves the invariant.
LEMMA NextIInv == IInv /\ [Next]_vars => IInv'
<1> SUFFICES ASSUME IInv, [Next]_vars PROVE IInv'
  OBVIOUS
<1>1. CASE Tick BY <1>1, TickIInv
<1>2. ASSUME NEW r \in Requests, Step(r) PROVE IInv' BY <1>2, StepIInv
<1>3. CASE UNCHANGED vars
  BY <1>3 DEF vars, IInv, TypeOK, RecordIsAClaim, StageHolds, Results, Owns, Protected
<1> QED BY <1>1, <1>2, <1>3 DEF Next

\* The inductive invariant: a live record is exactly the claim of one request,
\* and a request in time holds a lock that outlives its timer.
THEOREM Inductive == Spec => []IInv
BY InitIInv, NextIInv, PTL DEF Spec

\* Type correctness.
THEOREM Typed == Spec => []TypeOK
BY Inductive, PTL DEF IInv

\* env.validation.ts:177, for every timeout below the lock TTL.
THEOREM FinishingOwns == Spec => []FinishingRequestOwnsItsLock
<1>1. IInv => FinishingRequestOwnsItsLock
  BY DEF IInv, StageHolds, Results, FinishingRequestOwnsItsLock, Owns
<1> QED BY <1>1, Inductive, PTL

\* One claim on the key at a time, for any number of requests and retries.
THEOREM OneClaimAtATime == Spec => []ClaimsNeverOverlap
<1>1. IInv => ClaimsNeverOverlap
  BY DEF IInv, RecordIsAClaim, ClaimsNeverOverlap
<1> QED BY <1>1, Inductive, PTL

\* What a retry is replayed cannot change under it before the record expires.
THEOREM CompletedStable == Spec => CompletedRecordIsStable
<1> DEFINE Stable == rec.state = "completed" => (rec' = NoRecord /\ rec.ttl = 1) \/ SameAnswer
<1>1. ASSUME IInv, Next PROVE Stable
  <2>1. rec \in Records BY <1>1 DEF IInv, TypeOK
  <2>2. CASE UNCHANGED rec BY <2>1, <2>2 DEF SameAnswer, Records
  <2>3. CASE Tick
    <3>1. CASE rec.ttl <= 1
      BY <1>1, <2>1, <2>3, <3>1 DEF Tick, IInv, RecordIsAClaim, Records
    <3>2. CASE rec.ttl > 1
      BY <2>1, <2>3, <3>2 DEF Tick, SameAnswer, Records
    <3> QED BY <2>1, <3>1, <3>2 DEF Records
  <2>4. ASSUME NEW r \in Requests, Step(r), rec.state = "completed" PROVE UNCHANGED rec
    BY <2>4 DEF Step, Arrive, Acquire, AcquireReplyLost, LockTaken, ReadRecord, AcquireFails,
                Commit, Return, Respond, StoreOutcome, CompleteIfOwner, ReleaseIfOwner, Owns,
                CompleteLate, TimeoutFires, Crash
  <2> QED BY <1>1, <2>2, <2>3, <2>4 DEF Next
<1>2. IInv /\ [Next]_vars => [Stable]_vars BY <1>1
<1> QED BY <1>2, Inductive, PTL DEF Spec, CompletedRecordIsStable
=============================================================================
