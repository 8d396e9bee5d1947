------------------------ MODULE EmailDelivery_proofs ------------------------
(***************************************************************************)
(* Machine-checked safety of EmailDelivery, for any events, worker slots,  *)
(* attempts, stalls, deliveries and faults.                                *)
(***************************************************************************)
EXTENDS EmailDelivery, FiniteSetTheorems, TLAPS

-----------------------------------------------------------------------------
(* Counting.                                                               *)

\* A subset of a finite set is no larger.
LEMMA Shrunk ==
  ASSUME NEW S, IsFiniteSet(S), NEW T, T \subseteq S
  PROVE  /\ Cardinality(S) \in Nat /\ Cardinality(T) \in Nat
         /\ Cardinality(T) <= Cardinality(S)
BY FS_Subset, FS_CardinalityType

\* Losing an element is losing one.
LEMMA Spent ==
  ASSUME NEW S, IsFiniteSet(S), NEW a \in S, NEW T, T \subseteq S \ {a}
  PROVE  /\ Cardinality(S) \in Nat /\ Cardinality(T) \in Nat
         /\ Cardinality(T) + 1 <= Cardinality(S)
<1>1. IsFiniteSet(S \ {a}) /\ Cardinality(S \ {a}) = Cardinality(S) - 1
  BY FS_RemoveElement
<1> QED BY <1>1, Shrunk, FS_CardinalityType

\* One more element is one more at most.
LEMMA Gained ==
  ASSUME NEW S, IsFiniteSet(S), NEW a, NEW T, T \subseteq S \cup {a}
  PROVE  /\ Cardinality(S) \in Nat /\ Cardinality(T) \in Nat
         /\ Cardinality(T) <= Cardinality(S) + 1
<1>. Cardinality(S) \in Nat
  BY FS_CardinalityType
<1>1. IsFiniteSet(S \cup {a}) /\ Cardinality(S \cup {a}) <= Cardinality(S) + 1
  BY FS_AddElement
<1>2. Cardinality(T) \in Nat /\ Cardinality(T) <= Cardinality(S \cup {a})
  BY <1>1, Shrunk
<1> QED BY <1>1, <1>2, FS_CardinalityType

\* An element for another leaves the size.
LEMMA Swapped ==
  ASSUME NEW S, IsFiniteSet(S), NEW a \in S, NEW b, NEW T, T \subseteq (S \ {a}) \cup {b}
  PROVE  /\ Cardinality(S) \in Nat /\ Cardinality(T) \in Nat
         /\ Cardinality(T) <= Cardinality(S)
<1>1. IsFiniteSet(S \ {a}) /\ Cardinality(S \ {a}) = Cardinality(S) - 1
  BY FS_RemoveElement
<1>2. Cardinality(T) \in Nat /\ Cardinality(T) <= Cardinality(S \ {a}) + 1
  BY <1>1, Gained
<1> QED BY <1>1, <1>2, FS_CardinalityType

\* Senders are slots and at most one token of the queue.
LEMMA SendersFinite ==
  ASSUME NEW e \in Events
  PROVE  IsFiniteSet(Senders(e))
<1>1. IsFiniteSet(Workers \cup {NoOne})
  BY WorkersAssumption, FS_AddElement
<1>2. Senders(e) \in SUBSET (Workers \cup {NoOne})
  BY DEF Senders
<1> QED BY <1>1, <1>2, FS_Subset

-----------------------------------------------------------------------------
(* Type correctness and the shape of jobs.                                 *)

\* The job records that actions write.
LEMMA JobRecords ==
  ASSUME TypeOK, NEW e \in Events
  PROVE  /\ [NoJob EXCEPT !.state = "waiting"] \in Jobs
         /\ [NoJob EXCEPT !.state = "waiting"].state = "waiting"
         /\ [NoJob EXCEPT !.state = "waiting"].owner = NoOne
         /\ [NoJob EXCEPT !.state = "waiting"].made = 0
         /\ \A s \in Resting :
              /\ Rest(e, s) \in Jobs
              /\ Rest(e, s).state = s /\ Rest(e, s).owner = NoOne
              /\ Rest(e, s).made = job[e].made /\ Rest(e, s).stalls = job[e].stalls
<1>1. job[e] \in Jobs
  BY DEF TypeOK
<1>2. ASSUME NEW s \in Resting
      PROVE  /\ Rest(e, s) \in Jobs
             /\ Rest(e, s).state = s /\ Rest(e, s).owner = NoOne
             /\ Rest(e, s).made = job[e].made /\ Rest(e, s).stalls = job[e].stalls
  BY <1>1 DEF Rest, Jobs
<1>3. /\ [NoJob EXCEPT !.state = "waiting"] \in Jobs
      /\ [NoJob EXCEPT !.state = "waiting"].state = "waiting"
      /\ [NoJob EXCEPT !.state = "waiting"].owner = NoOne
      /\ [NoJob EXCEPT !.state = "waiting"].made = 0
  BY LimitsAssumption DEF NoJob, Jobs, Resting
<1> QED BY <1>2, <1>3

\* What a stalled job becomes.
LEMMA RequeuedJob ==
  ASSUME TypeOK, NEW e \in Events, Requeued(e)
  PROVE  /\ job' \in [Events -> Jobs] /\ failures' \subseteq Events
         /\ \A f \in Events \ {e} : job'[f] = job[f]
         /\ job'[e].owner = NoOne /\ job'[e].state \in {"waiting", "failed"}
         /\ job'[e].made = job[e].made
<1> USE LimitsAssumption
<1> DEFINE again == [Rest(e, "waiting") EXCEPT !.stalls = @ + 1]
<1>1. CASE job[e].stalls < MaxStalls
  <2>1. /\ again \in Jobs /\ again.owner = NoOne
        /\ again.state = "waiting" /\ again.made = job[e].made
    BY <1>1, JobRecords DEF Resting, Jobs, TypeOK
  <2>2. job' = [job EXCEPT ![e] = again] /\ failures' = failures
    BY <1>1 DEF Requeued
  <2> HIDE DEF again
  <2> QED BY <2>1, <2>2 DEF TypeOK
<1>2. CASE ~(job[e].stalls < MaxStalls)
  BY <1>2, JobRecords DEF Requeued, Resting, TypeOK
<1> QED BY <1>1, <1>2

\* Steps of the producer and the queue keep types and shapes.
LEMMA QueueShape ==
  ASSUME TypeOK, JobsAreConsistent, NEW e \in Events,
         Enqueue(e) \/ BackoffEnds(e) \/ Reap(e) \/ OwnerDead(e) \/ LockLost(e)
  PROVE  TypeOK' /\ JobsAreConsistent'
<1> USE LimitsAssumption, NoOneAssumption
<1>1. CASE Enqueue(e)
  BY <1>1, JobRecords DEF Enqueue, TypeOK, JobsAreConsistent, Live, DeadLetters
<1>2. CASE BackoffEnds(e)
  BY <1>2, JobRecords DEF BackoffEnds, TypeOK, JobsAreConsistent, Live, DeadLetters, Resting
<1>3. CASE Reap(e)
  BY <1>3 DEF Reap, TypeOK, JobsAreConsistent, Live, DeadLetters, NoJob, Jobs, Resting
<1>4. CASE OwnerDead(e) \/ LockLost(e)
  <2>1. job[e].state = "active" /\ Requeued(e)
    BY <1>4 DEF OwnerDead, LockLost
  <2>2. /\ job' \in [Events -> Jobs] /\ failures' \subseteq Events
        /\ \A f \in Events \ {e} : job'[f] = job[f]
        /\ job'[e].owner = NoOne /\ job'[e].state \in {"waiting", "failed"}
        /\ job'[e].made = job[e].made
    BY <2>1, RequeuedJob
  <2>3. /\ UNCHANGED <<offered, run, marker, inbox, dlq>>
        /\ faults' \in 0..MaxFaults /\ mishaps' \in [Events -> Nat]
    BY <1>4 DEF OwnerDead, LockLost, Fault, Mishap, TypeOK
  <2>4. TypeOK'
    BY <2>2, <2>3 DEF TypeOK
  <2>5. JobsAreConsistent'
    BY <2>1, <2>2, <2>3 DEF JobsAreConsistent, Live
  <2> QED BY <2>4, <2>5
<1> QED BY <1>1, <1>2, <1>3, <1>4

\* Steps of a worker slot keep types and shapes.
LEMMA WorkerShape ==
  ASSUME TypeOK, JobsAreConsistent, NEW w \in Workers, NEW e \in Events,
         \/ Take(w, e) \/ Work(w, e) \/ CheckFails(w, e)
         \/ SendReplyLost(w, e) \/ MarkFails(w, e) \/ Crash(w, e)
  PROVE  TypeOK' /\ JobsAreConsistent'
<1> USE LimitsAssumption, NoOneAssumption
<1>1. CASE Take(w, e)
  <2> DEFINE taken == [job[e] EXCEPT !.state = "active", !.owner = w]
             new == [stage |-> "check", mail |-> e]
  <2>1. /\ taken \in Jobs /\ taken.state = "active" /\ taken.owner = w
        /\ taken.made = job[e].made
    BY DEF TypeOK, Jobs
  <2>2. new \in Runs /\ new.stage # "idle" /\ new.mail # NoOne
    BY DEF Runs, Stages
  <2>3. /\ job' = [job EXCEPT ![e] = taken] /\ run' = [run EXCEPT ![w] = new]
        /\ UNCHANGED <<offered, marker, inbox, failures, dlq, mishaps, faults>>
        /\ job[e].state = "waiting"
    BY <1>1 DEF Take, TypeOK, DeadLetters
  <2> HIDE DEF taken, new
  <2> QED BY <2>1, <2>2, <2>3 DEF TypeOK, JobsAreConsistent, Live
<1>2. CASE \/ Check(w, e) \/ CheckFails(w, e) \/ Send(w, e) \/ Refused(w, e)
           \/ SendReplyLost(w, e) \/ Mark(w, e) \/ MarkFails(w, e)
  <2>1. PICK s \in Stages \ {"idle"} : Goto(w, s)
    BY <1>2 DEF Check, CheckFails, Send, Refused, SendReplyLost, Mark, MarkFails, Stages
  <2>2. run[w].stage # "idle"
    BY <1>2 DEF Check, CheckFails, Send, Refused, SendReplyLost, Mark, MarkFails, At
  <2>3. /\ UNCHANGED <<offered, job, failures, dlq>>
        /\ marker' \subseteq Events /\ inbox' \in [Events -> Nat]
        /\ mishaps' \in [Events -> Nat] /\ faults' \in 0..MaxFaults
    BY <1>2 DEF Check, CheckFails, Send, Refused, SendReplyLost, Mark, MarkFails,
                Fault, Mishap, DeadLetters, TypeOK
  <2>4. run' \in [Workers -> Runs]
    BY <2>1 DEF Goto, TypeOK, Runs
  <2>5. TypeOK'
    BY <2>3, <2>4 DEF TypeOK
  <2>6. JobsAreConsistent'
    BY <2>1, <2>2, <2>3 DEF JobsAreConsistent, Live, Goto, TypeOK, Runs
  <2> QED BY <2>5, <2>6
<1>3. CASE Completed(w, e) \/ Failed(w, e) \/ Crash(w, e)
  <2>1. /\ run' = [run EXCEPT ![w] = Idle]
        /\ UNCHANGED <<offered, marker, inbox, dlq>>
        /\ mishaps' \in [Events -> Nat] /\ faults' \in 0..MaxFaults
    BY <1>3 DEF Completed, Failed, Crash, DeadLetters, Fault, Mishap, TypeOK
  <2>2. Idle \in Runs /\ Idle.stage = "idle" /\ Idle.mail = NoOne
    BY DEF Idle, Runs, Stages
  <2>3. /\ job' \in [Events -> Jobs] /\ failures' \subseteq Events
        /\ \A f \in Events \ {e} : job'[f] = job[f]
        /\ \/ job'[e] = job[e]
           \/ /\ job'[e].owner = NoOne
              /\ \/ job'[e].state \in {"completed", "failed"}
                 \/ job'[e].state = "delayed" /\ job'[e].made < MaxAttempts
    <3>1. CASE Completed(w, e)
      BY <3>1, JobRecords DEF Completed, Resting, TypeOK, DeadLetters
    <3>2. CASE Failed(w, e) /\ job[e].owner = w
      <4> DEFINE s == IF Retried(e) THEN "delayed" ELSE "failed"
                 base == Rest(e, s)
                 after == [base EXCEPT !.made = @ + 1]
      <4>1. job[e].made \in Nat /\ job[e].made < MaxAttempts
        BY <3>2 DEF JobsAreConsistent, Live, TypeOK, Jobs
      <4>2. /\ after \in Jobs /\ after.owner = NoOne
            /\ after.state = s /\ after.made = job[e].made + 1
        <5>1. /\ base \in Jobs /\ base.owner = NoOne
              /\ base.state = s /\ base.made = job[e].made
          <6>1. s \in Resting
            BY DEF Resting
          <6> QED BY <6>1, JobRecords
        <5> HIDE DEF base, s
        <5> QED BY <4>1, <5>1 DEF Jobs
      <4>3. /\ job' = [job EXCEPT ![e] = after]
            /\ failures' \in {failures, failures \cup {e}}
        BY <3>2 DEF Failed
      <4>4. s = "failed" \/ (s = "delayed" /\ job[e].made + 1 < MaxAttempts)
        BY DEF Retried
      <4> HIDE DEF s, base, after
      <4> QED BY <4>2, <4>3, <4>4 DEF TypeOK
    <3>3. CASE (Failed(w, e) /\ job[e].owner # w) \/ Crash(w, e)
      BY <3>3 DEF Failed, Crash, DeadLetters, TypeOK
    <3> QED BY <1>3, <3>1, <3>2, <3>3
  <2>4. TypeOK'
    BY <2>1, <2>2, <2>3 DEF TypeOK
  <2>5. JobsAreConsistent'
    BY <2>1, <2>2, <2>3 DEF JobsAreConsistent, Live, TypeOK
  <2> QED BY <2>4, <2>5
<1> QED BY <1>1, <1>2, <1>3 DEF Work

\* Steps of the dead-letter routing keep types and shapes.
LEMMA RouterShape ==
  ASSUME TypeOK, JobsAreConsistent, NEW e \in Events,
         RouteFailure(e) \/ FailureMissed(e) \/ Reconcile(e)
  PROVE  TypeOK' /\ JobsAreConsistent'
BY LimitsAssumption
   DEF RouteFailure, FailureMissed, Reconcile, Routed, Fault, TypeOK, JobsAreConsistent, Live

-----------------------------------------------------------------------------
(* Marking after the send.                                                 *)

\* Only a slot that sent the e-mail, or saw the marker, marks and completes.
LEMMA SendBeforeCompletion ==
  ASSUME TypeOK, SentFirst, CompletedMeansSent, [Next]_vars
  PROVE  SentFirst' /\ CompletedMeansSent'
<1> USE DEF TypeOK, SentFirst, CompletedMeansSent, At
<1>1. CASE UNCHANGED vars
  BY <1>1 DEF vars
<1>2. ASSUME NEW e \in Events,
             \/ Enqueue(e) \/ BackoffEnds(e) \/ Reap(e) \/ OwnerDead(e) \/ LockLost(e)
             \/ RouteFailure(e) \/ FailureMissed(e) \/ Reconcile(e)
      PROVE  SentFirst' /\ CompletedMeansSent'
  <2>1. UNCHANGED <<run, marker, inbox>>
    BY <1>2 DEF Enqueue, BackoffEnds, Reap, OwnerDead, LockLost, RouteFailure,
                FailureMissed, Reconcile
  <2>2. \A f \in Events : job'[f].state = "completed" => job[f].state = "completed"
    <3>1. CASE Enqueue(e) \/ BackoffEnds(e)
      BY <3>1, JobRecords DEF Enqueue, BackoffEnds, Resting
    <3>2. CASE Reap(e)
      BY <3>2 DEF Reap, NoJob
    <3>3. CASE OwnerDead(e) \/ LockLost(e)
      BY <3>3, RequeuedJob DEF OwnerDead, LockLost
    <3>4. CASE RouteFailure(e) \/ FailureMissed(e) \/ Reconcile(e)
      BY <3>4 DEF RouteFailure, FailureMissed, Reconcile
    <3> QED BY <1>2, <3>1, <3>2, <3>3, <3>4
  <2> QED BY <2>1, <2>2
<1>3. ASSUME NEW e \in Events, NEW w \in Workers,
             \/ Take(w, e) \/ Work(w, e) \/ CheckFails(w, e)
             \/ SendReplyLost(w, e) \/ MarkFails(w, e) \/ Crash(w, e)
      PROVE  SentFirst' /\ CompletedMeansSent'
  <2>1. CASE Take(w, e)
    BY <2>1 DEF Take
  <2>2. CASE Check(w, e) \/ CheckFails(w, e) \/ Refused(w, e) \/ MarkFails(w, e)
    BY <2>2 DEF Check, CheckFails, Refused, MarkFails, Goto, DeadLetters, Runs
  <2>3. CASE Send(w, e) \/ SendReplyLost(w, e)
    <3>1. /\ inbox' = [inbox EXCEPT ![e] = inbox[e] + 1]
          /\ UNCHANGED <<job, marker>>
      BY <2>3 DEF Send, SendReplyLost
    <3>2. run[w].mail = e /\ \E s \in {"mark", "fail"} : Goto(w, s)
      BY <2>3 DEF Send, SendReplyLost
    <3>3. \A f \in Events : inbox'[f] >= inbox[f] /\ inbox[f] \in Nat
      BY <3>1
    <3>4. inbox'[e] > 0
      BY <3>1
    <3> QED BY <3>1, <3>2, <3>3, <3>4 DEF Goto, Runs
  <2>4. CASE Mark(w, e)
    BY <2>4 DEF Mark, Goto, Runs
  <2>5. CASE Completed(w, e)
    BY <2>5 DEF Completed, Idle, Rest
  <2>6. CASE Failed(w, e) \/ Crash(w, e)
    <3>1. /\ run' = [run EXCEPT ![w] = Idle] /\ UNCHANGED <<marker, inbox>>
          /\ \/ UNCHANGED job
             \/ \E s \in {"delayed", "failed"}, n \in Nat :
                  job' = [job EXCEPT ![e] = [Rest(e, s) EXCEPT !.made = n]]
      <4>1. CASE Crash(w, e)
        BY <4>1 DEF Crash
      <4>2. CASE Failed(w, e)
        <5>1. \A s \in {"delayed", "failed"} :
                Rest(e, s).made \in Nat
          BY JobRecords DEF Jobs, Resting
        <5>2. \/ UNCHANGED job
              \/ \E s \in {"delayed", "failed"} :
                   job' = [job EXCEPT ![e] = [Rest(e, s) EXCEPT !.made = Rest(e, s).made + 1]]
          BY <4>2 DEF Failed
        <5> QED BY <4>2, <5>1, <5>2 DEF Failed
      <4> QED BY <2>6, <4>1, <4>2
    <3>2. \A s \in {"delayed", "failed"}, n \in Nat :
            [Rest(e, s) EXCEPT !.made = n].state = s
      BY JobRecords DEF Jobs, Resting
    <3>3. \A f \in Events : job'[f].state = "completed" => job[f].state = "completed"
      <4>1. CASE UNCHANGED job
        BY <4>1
      <4>2. ASSUME NEW s \in {"delayed", "failed"}, NEW n \in Nat,
                   job' = [job EXCEPT ![e] = [Rest(e, s) EXCEPT !.made = n]]
            PROVE  \A f \in Events : job'[f].state = "completed" => job[f].state = "completed"
        <5>1. job'[e].state = s
          BY <3>2, <4>2 DEF TypeOK
        <5>2. \A f \in Events : f # e => job'[f] = job[f]
          BY <4>2 DEF TypeOK
        <5> QED BY <5>1, <5>2
      <4> QED BY <3>1, <4>1, <4>2
    <3> QED BY <3>1, <3>3 DEF Idle
  <2> QED BY <1>3, <2>1, <2>2, <2>3, <2>4, <2>5, <2>6 DEF Work
<1> QED BY <1>1, <1>2, <1>3 DEF Next, Work

-----------------------------------------------------------------------------
(* Counting the senders of an event.                                       *)

\* What another event's step leaves alone has no new senders.
LEMMA OthersUntouched ==
  ASSUME TypeOK, JobsAreConsistent, NEW f \in Events, NEW w \in Workers,
         f \in marker' <=> f \in marker,
         job'[f] = job[f],
         \A v \in Workers \ {w} : run'[v] = run[v],
         run'[w] = run[w] \/ (run[w].mail # f /\ run'[w].mail # f)
  PROVE  Senders(f)' \subseteq Senders(f)
<1>1. job[f].state = "active" => job[f].owner \in Workers
  BY DEF TypeOK, JobsAreConsistent, Jobs
<1>2. Loose(f)' => Loose(f)
  BY <1>1 DEF Loose, Executes
<1>3. \A v \in Workers :
        /\ run'[v].mail = f => run'[v] = run[v]
  OBVIOUS
<1> QED BY <1>2, <1>3 DEF Senders, At, Executes

\* A step that moves slot w from a stage of e to another one.
LEMMA Moved ==
  ASSUME TypeOK, JobsAreConsistent, NEW e \in Events, NEW w \in Workers,
         NEW s \in Stages, Goto(w, s), run[w].mail = e,
         UNCHANGED job, marker' = marker \/ marker' = marker \cup {e}
  PROVE  /\ \A x \in Senders(e)' : x = w \/ x \in Senders(e)
         /\ w \in Senders(e)' <=>
              s = "send" \/ (e \notin marker' /\ s \in {"check", "complete", "fail"})
<1>1. /\ run'[w].stage = s /\ run'[w].mail = e
      /\ \A v \in Workers \ {w} : run'[v] = run[v]
  BY DEF Goto, TypeOK, Runs
<1>2. job[e].state = "active" => job[e].owner \in Workers
  BY DEF TypeOK, JobsAreConsistent, Jobs
<1>3. Loose(e)' <=> Loose(e)
  BY <1>1, <1>2 DEF Loose, Executes
<1>4. w # NoOne
  BY NoOneAssumption
<1> QED BY <1>1, <1>3, <1>4 DEF Senders, At, Executes

\* Only SendReplyLost, MarkFails, Crash and LockLost, each a mishap, add a sender or
\* an e-mail that no sender pays for.
LEMMA SendersStayPaid ==
  ASSUME IInv, Next
  PROVE  SendersArePaid'
<1> USE DEF IInv
<1> SUFFICES ASSUME NEW f \in Events
             PROVE  (inbox[f] + Cardinality(Senders(f)) <= 1 + mishaps[f])'
  BY DEF SendersArePaid
<1> DEFINE S == Senders(f)
           T == Senders(f)'
<1>1. /\ inbox[f] \in Nat /\ mishaps[f] \in Nat /\ IsFiniteSet(S)
      /\ inbox[f] + Cardinality(S) <= 1 + mishaps[f]
  BY SendersFinite DEF TypeOK, SendersArePaid
<1>2. ASSUME inbox'[f] = inbox[f], mishaps'[f] = mishaps[f], T \subseteq S
      PROVE  inbox'[f] + Cardinality(T) <= 1 + mishaps'[f]
  <2>1. Cardinality(S) \in Nat /\ Cardinality(T) \in Nat /\ Cardinality(T) <= Cardinality(S)
    BY <1>1, <1>2, Shrunk
  <2> HIDE DEF S, T
  <2> QED BY <1>1, <1>2, <2>1
<1>3. ASSUME NEW a \in S, NEW b, inbox'[f] = inbox[f], mishaps'[f] = mishaps[f],
             T \subseteq (S \ {a}) \cup {b}
      PROVE  inbox'[f] + Cardinality(T) <= 1 + mishaps'[f]
  <2>1. Cardinality(S) \in Nat /\ Cardinality(T) \in Nat /\ Cardinality(T) <= Cardinality(S)
    BY <1>1, <1>3, Swapped
  <2> HIDE DEF S, T
  <2> QED BY <1>1, <1>3, <2>1
<1>4. ASSUME NEW a, inbox'[f] = inbox[f], mishaps'[f] = mishaps[f] + 1, T \subseteq S \cup {a}
      PROVE  inbox'[f] + Cardinality(T) <= 1 + mishaps'[f]
  <2>1. /\ Cardinality(S) \in Nat /\ Cardinality(T) \in Nat
        /\ Cardinality(T) <= Cardinality(S) + 1
    BY <1>1, <1>4, Gained
  <2> HIDE DEF S, T
  <2> QED BY <1>1, <1>4, <2>1
<1>5. PICK e \in Events :
        \/ Enqueue(e) \/ BackoffEnds(e) \/ Reap(e) \/ OwnerDead(e) \/ LockLost(e)
        \/ RouteFailure(e) \/ FailureMissed(e) \/ Reconcile(e)
        \/ \E w \in Workers :
             \/ Take(w, e) \/ Work(w, e)
             \/ CheckFails(w, e) \/ SendReplyLost(w, e) \/ MarkFails(w, e) \/ Crash(w, e)
  BY DEF Next
<1>6. CASE \/ Enqueue(e) \/ BackoffEnds(e) \/ Reap(e) \/ OwnerDead(e)
           \/ RouteFailure(e) \/ FailureMissed(e) \/ Reconcile(e)
  <2>1. UNCHANGED <<run, marker, inbox, mishaps>>
    BY <1>6 DEF Enqueue, BackoffEnds, Reap, OwnerDead, RouteFailure, FailureMissed, Reconcile
  <2>2. UNCHANGED job \/ (Loose(e) /\ \A g \in Events \ {e} : job'[g] = job[g])
    <3>1. CASE Enqueue(e) \/ BackoffEnds(e) \/ Reap(e)
      BY <3>1 DEF Enqueue, BackoffEnds, Reap, Loose, TypeOK
    <3>2. CASE OwnerDead(e)
      BY <3>2, RequeuedJob DEF OwnerDead, Loose
    <3>3. CASE RouteFailure(e) \/ FailureMissed(e) \/ Reconcile(e)
      BY <3>3 DEF RouteFailure, FailureMissed, Reconcile
    <3> QED BY <1>6, <3>1, <3>2, <3>3
  <2>3. Loose(f)' => Loose(f)
    BY <2>1, <2>2 DEF Loose, Executes
  <2>4. T \subseteq S
    BY <2>1, <2>3 DEF Senders, At, Executes
  <2> QED BY <1>2, <2>1, <2>4
<1>7. CASE LockLost(e)
  <2>1. UNCHANGED <<run, marker, inbox>> /\ Mishap(e) /\ Requeued(e)
    BY <1>7 DEF LockLost
  <2>2. CASE f = e
    <3>1. T \subseteq S \cup {NoOne}
      BY <2>1 DEF Senders, At, Executes
    <3>2. mishaps'[f] = mishaps[f] + 1
      BY <2>1, <2>2 DEF Mishap, TypeOK
    <3> QED BY <1>4, <2>1, <3>1, <3>2
  <2>3. CASE f # e
    <3>1. job'[f] = job[f] /\ mishaps'[f] = mishaps[f]
      BY <2>1, <2>3, RequeuedJob DEF Mishap, TypeOK
    <3>2. T \subseteq S
      BY <2>1, <3>1 DEF Senders, At, Executes, Loose
    <3> QED BY <1>2, <2>1, <3>1, <3>2
  <2> QED BY <2>2, <2>3
<1>8. ASSUME NEW w \in Workers,
             \/ Take(w, e) \/ Work(w, e)
             \/ CheckFails(w, e) \/ SendReplyLost(w, e) \/ MarkFails(w, e) \/ Crash(w, e)
      PROVE  inbox'[f] + Cardinality(T) <= 1 + mishaps'[f]
  <2>1. CASE f # e
    <3>1. f \in marker' <=> f \in marker
      BY <1>8, <2>1 DEF Take, Work, Check, CheckFails, Send, Refused, SendReplyLost, Mark,
                        MarkFails, Completed, Failed, Crash
    <3>2. job'[f] = job[f]
      BY <1>8, <2>1 DEF Take, Work, Check, CheckFails, Send, Refused, SendReplyLost, Mark,
                        MarkFails, Completed, Failed, Crash, TypeOK
    <3>3. inbox'[f] = inbox[f] /\ mishaps'[f] = mishaps[f]
      BY <1>8, <2>1 DEF Take, Work, Check, CheckFails, Send, Refused, SendReplyLost, Mark,
                        MarkFails, Completed, Failed, Crash, Mishap, TypeOK
    <3>4. run[w].mail # f
      BY <1>8, <2>1, NoOneAssumption
         DEF Take, Work, Check, CheckFails, Send, Refused, SendReplyLost, Mark,
             MarkFails, Completed, Failed, Crash, At, Executes, Idle
    <3>5. /\ \A v \in Workers \ {w} : run'[v] = run[v]
          /\ run'[w].mail # f
      <4>1. CASE Take(w, e)
        BY <4>1, <2>1 DEF Take, TypeOK
      <4>2. CASE Completed(w, e) \/ Failed(w, e) \/ Crash(w, e)
        BY <4>2, NoOneAssumption DEF Completed, Failed, Crash, Idle, TypeOK
      <4>3. CASE \E s \in Stages : Goto(w, s)
        BY <4>3, <3>4 DEF Goto, TypeOK, Runs
      <4> QED BY <1>8, <4>1, <4>2, <4>3
              DEF Work, Check, CheckFails, Send, Refused, SendReplyLost, Mark, MarkFails, Stages
    <3>6. T \subseteq S
      BY <3>1, <3>2, <3>4, <3>5, OthersUntouched
    <3> QED BY <1>2, <3>3, <3>6
  <2>2. CASE f = e /\ Take(w, e)
    <3>1. /\ UNCHANGED <<marker, inbox, mishaps>>
          /\ run' = [run EXCEPT ![w] = [stage |-> "check", mail |-> e]]
          /\ job' = [job EXCEPT ![e].state = "active", ![e].owner = w]
          /\ job[e].state = "waiting"
      BY <2>2 DEF Take
    <3>2. ~Loose(e)'
      BY <3>1 DEF Loose, Executes, TypeOK, Jobs
    <3>3. T \subseteq (S \ {NoOne}) \cup {w}
      BY <2>2, <3>1, <3>2, NoOneAssumption DEF Senders, At, Executes, TypeOK
    <3>4. CASE e \in marker
      <4>1. T \subseteq S
        BY <2>2, <3>1, <3>4 DEF Senders, At, Executes, TypeOK
      <4> QED BY <1>2, <3>1, <4>1
    <3>5. CASE e \notin marker
      <4>1. NoOne \in S
        BY <2>2, <3>1, <3>5 DEF Senders, Loose
      <4> QED BY <1>3, <3>1, <3>3, <4>1
    <3> QED BY <3>4, <3>5
  <2>3. CASE f = e /\ (Check(w, e) \/ CheckFails(w, e) \/ Refused(w, e) \/ Mark(w, e))
    <3>1. /\ UNCHANGED <<job, inbox, mishaps>>
          /\ marker' = marker \/ marker' = marker \cup {e}
          /\ run[w].mail = e
      BY <2>3 DEF Check, CheckFails, Refused, Mark, At
    <3>2. T \subseteq S
      <4>1. CASE Check(w, e) \/ CheckFails(w, e)
        <5>1. PICK s \in {"send", "fail", "complete"} :
                Goto(w, s) /\ (e \in marker => s # "send") /\ UNCHANGED marker
          BY <4>1 DEF Check, CheckFails
        <5>2. e \notin marker => w \in S
          BY <2>3, <4>1 DEF Check, CheckFails, Senders, At, Executes
        <5> QED BY <2>3, <3>1, <5>1, <5>2, Moved DEF Stages
      <4>2. CASE Refused(w, e)
        <5>1. Goto(w, "fail") /\ w \in S
          BY <2>3, <4>2 DEF Refused, Senders, At
        <5> QED BY <2>3, <3>1, <5>1, Moved DEF Stages
      <4>3. CASE Mark(w, e)
        <5>1. Goto(w, "complete") /\ e \in marker'
          BY <4>3 DEF Mark
        <5> QED BY <2>3, <3>1, <5>1, Moved DEF Stages
      <4> QED BY <2>3, <4>1, <4>2, <4>3
    <3> QED BY <1>2, <3>1, <3>2
  <2>4. CASE f = e /\ Send(w, e)
    <3>1. /\ UNCHANGED <<job, marker, mishaps>> /\ inbox'[e] = inbox[e] + 1
          /\ run[w].mail = e /\ Goto(w, "mark") /\ w \in S
      BY <2>4 DEF Send, Senders, At, TypeOK
    <3>2. T \subseteq S \ {w}
      BY <2>4, <3>1, Moved DEF Stages
    <3>3. /\ Cardinality(S) \in Nat /\ Cardinality(T) \in Nat
          /\ Cardinality(T) + 1 <= Cardinality(S)
      BY <1>1, <3>1, <3>2, Spent
    <3> HIDE DEF S, T
    <3> QED BY <1>1, <2>4, <3>1, <3>3
  <2>5. CASE f = e /\ SendReplyLost(w, e)
    <3>1. /\ UNCHANGED <<job, marker>> /\ inbox'[e] = inbox[e] + 1
          /\ mishaps'[e] = mishaps[e] + 1
          /\ run[w].mail = e /\ Goto(w, "fail") /\ w \in S
      BY <2>5 DEF SendReplyLost, Mishap, Senders, At, TypeOK
    <3>2. T \subseteq S
      BY <2>5, <3>1, Moved DEF Stages
    <3>3. Cardinality(S) \in Nat /\ Cardinality(T) \in Nat /\ Cardinality(T) <= Cardinality(S)
      BY <1>1, <3>2, Shrunk
    <3> HIDE DEF S, T
    <3> QED BY <1>1, <2>5, <3>1, <3>3
  <2>6. CASE f = e /\ MarkFails(w, e)
    <3>1. /\ UNCHANGED <<job, marker, inbox>> /\ mishaps'[e] = mishaps[e] + 1
          /\ run[w].mail = e /\ Goto(w, "complete")
      BY <2>6 DEF MarkFails, Mishap, At, TypeOK
    <3>2. T \subseteq S \cup {w}
      BY <2>6, <3>1, Moved DEF Stages
    <3> QED BY <1>4, <2>6, <3>1, <3>2
  <2>7. CASE f = e /\ (Completed(w, e) \/ Failed(w, e))
    <3>1. /\ UNCHANGED <<marker, inbox, mishaps>> /\ run' = [run EXCEPT ![w] = Idle]
          /\ run[w].mail = e /\ run[w].stage \in {"complete", "fail"}
          /\ job[e].owner # w => UNCHANGED job
      BY <2>7 DEF Completed, Failed, At
    <3>2. \A v \in Workers : run'[v].mail = e => v # w /\ run'[v] = run[v]
      BY <3>1, NoOneAssumption DEF Idle, TypeOK
    <3>3. T \subseteq (S \ {w}) \cup {NoOne}
      BY <2>7, <3>1, <3>2 DEF Senders, At, Executes
    <3>4. CASE e \in marker
      <4>1. T \subseteq S
        BY <2>7, <3>1, <3>2, <3>4 DEF Senders, At, Executes
      <4> QED BY <1>2, <2>7, <3>1, <4>1
    <3>5. CASE e \notin marker
      <4>1. w \in S
        BY <2>7, <3>1, <3>5 DEF Senders, Executes
      <4> QED BY <1>3, <2>7, <3>1, <3>3, <4>1
    <3> QED BY <3>4, <3>5
  <2>8. CASE f = e /\ Crash(w, e)
    <3>1. /\ UNCHANGED <<job, marker, inbox>> /\ mishaps'[e] = mishaps[e] + 1
          /\ run' = [run EXCEPT ![w] = Idle]
      BY <2>8 DEF Crash, Mishap, TypeOK
    <3>2. \A v \in Workers : run'[v].mail = e => run'[v] = run[v]
      BY <3>1, NoOneAssumption DEF Idle, TypeOK
    <3>3. T \subseteq S \cup {NoOne}
      BY <2>8, <3>1, <3>2 DEF Senders, At, Executes
    <3> QED BY <1>4, <2>8, <3>1, <3>3
  <2> QED BY <1>8, <2>1, <2>2, <2>3, <2>4, <2>5, <2>6, <2>7, <2>8 DEF Work
<1> QED BY <1>5, <1>6, <1>7, <1>8

-----------------------------------------------------------------------------
(* Theorems.                                                               *)

\* The initial state satisfies the invariant.
LEMMA InitIInv == Init => IInv
<1> SUFFICES ASSUME Init PROVE IInv
  OBVIOUS
<1> USE LimitsAssumption, NoOneAssumption DEF Init
<1>1. TypeOK
  BY DEF TypeOK, NoJob, Idle, Jobs, Runs, Resting, Stages
<1>2. JobsAreConsistent /\ SentFirst /\ CompletedMeansSent
  BY DEF JobsAreConsistent, SentFirst, CompletedMeansSent, Live, At, NoJob, Idle
<1>3. SendersArePaid
  <2> SUFFICES ASSUME NEW e \in Events
               PROVE  inbox[e] + Cardinality(Senders(e)) <= 1 + mishaps[e]
    BY DEF SendersArePaid
  <2>1. Senders(e) \subseteq {NoOne}
    BY DEF Senders, At, Executes, Idle
  <2>2. IsFiniteSet({NoOne}) /\ Cardinality({NoOne}) = 1
    BY FS_Singleton
  <2>3. Cardinality(Senders(e)) \in Nat /\ Cardinality(Senders(e)) <= 1
    BY <2>1, <2>2, Shrunk
  <2> QED BY <2>3
<1> QED BY <1>1, <1>2, <1>3 DEF IInv

\* Every step keeps the invariant.
LEMMA NextIInv == IInv /\ [Next]_vars => IInv'
<1> SUFFICES ASSUME IInv, [Next]_vars PROVE IInv'
  OBVIOUS
<1>1. CASE UNCHANGED vars
  BY <1>1 DEF vars, IInv, TypeOK, JobsAreConsistent, SentFirst, CompletedMeansSent,
              SendersArePaid, Live, At, Senders, Loose, Executes
<1>2. CASE Next
  <2>1. TypeOK' /\ JobsAreConsistent'
    BY <1>2, QueueShape, WorkerShape, RouterShape DEF IInv, Next
  <2>2. SentFirst' /\ CompletedMeansSent'
    BY SendBeforeCompletion DEF IInv
  <2>3. SendersArePaid'
    BY <1>2, SendersStayPaid
  <2> QED BY <2>1, <2>2, <2>3 DEF IInv
<1> QED BY <1>1, <1>2

\* The count of mishaps bounds the duplicates (email-notification.processor.ts:59-88).
THEOREM Inductive == Spec => []IInv
BY InitIInv, NextIInv, PTL DEF Spec

\* Type correctness of the jobs, the slots and the counters.
THEOREM Typed == Spec => []TypeOK
<1>1. IInv => TypeOK
  BY DEF IInv
<1> QED BY <1>1, Inductive, PTL

\* A completed job has been sent, because the marker is written after the send
\* (email-notification.processor.ts:70-76).
THEOREM CompletedWasSent == Spec => []CompletedMeansSent
<1>1. IInv => CompletedMeansSent
  BY DEF IInv
<1> QED BY <1>1, Inductive, PTL

\* A second e-mail takes a mishap of its own, whatever the outbox redelivers, however
\* many slots and retries there are (docs/code-standards.md:287).
THEOREM NoFreeDuplicates == Spec => []DuplicatesNeedMishaps
<1>1. IInv => DuplicatesNeedMishaps
  <2> SUFFICES ASSUME IInv, NEW e \in Events
               PROVE  inbox[e] <= 1 + mishaps[e]
    BY DEF DuplicatesNeedMishaps
  <2>1. Cardinality(Senders(e)) \in Nat
    BY SendersFinite, FS_CardinalityType
  <2> QED BY <2>1 DEF IInv, TypeOK, SendersArePaid
<1> QED BY <1>1, Inductive, PTL
=============================================================================
