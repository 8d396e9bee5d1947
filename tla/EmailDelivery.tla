---------------------------- MODULE EmailDelivery ----------------------------
(***************************************************************************)
(* E-mails of the platform from the outbox to the mailbox or the           *)
(* dead-letter queue: the listener that enqueues a job named after the     *)
(* event (user-registered.listener.ts), the worker that sends it           *)
(* (email-notification.processor.ts), the router that copies failed jobs   *)
(* to the DLQ and the scheduler's reconciliation of it                     *)
(* (dead-letter-router.ts, dlq-monitor.task.ts).                           *)
(*                                                                         *)
(* The outbox delivers an event at least once (EventDelivery).  BullMQ is  *)
(* external: job[e] is what Redis knows of the job, run[w] what the worker *)
(* slot does.  The two part when a worker dies or loses the job's lock:    *)
(* BullMQ gives the job to another slot, and a worker that only stalled    *)
(* carries on.                                                             *)
(***************************************************************************)
EXTENDS Integers, FiniteSets

CONSTANTS
  Events,         \* user.registered events, each the id of one job
  Workers,        \* worker slots
  NoOne,          \* no slot, no event
  MaxAttempts,    \* attempts of RETRIED_JOB_OPTIONS
  MaxStalls,      \* BullMQ's maxStalledCount
  MaxDeliveries,  \* bound: deliveries of one event by the outbox
  MaxFaults       \* bound: crashes, lost locks and failed commands

ASSUME NoOneAssumption == NoOne \notin Workers \cup Events
ASSUME WorkersAssumption == IsFiniteSet(Workers)
ASSUME LimitsAssumption ==
  MaxAttempts \in Nat \ {0} /\ MaxStalls \in Nat /\ MaxDeliveries \in Nat /\ MaxFaults \in Nat

VARIABLES
  offered,  \* offered[e]: how often the listener enqueued e
  job,      \* job[e]: the job in the source queue
  run,      \* run[w]: what worker slot w executes
  marker,   \* events with an email:sent marker
  inbox,    \* inbox[e]: how many e-mails the SMTP server accepted
  failures, \* "failed" events the router has not seen yet
  dlq,      \* events with an entry in the dead-letter queue
  mishaps,  \* history: mishaps[e], crashes and lost locks, replies and markers
  faults

vars == <<offered, job, run, marker, inbox, failures, dlq, mishaps, faults>>

Resting == {"none", "waiting", "delayed", "completed", "failed"}
Stages  == {"idle", "check", "send", "mark", "complete", "fail"}
NoJob   == [state |-> "none", owner |-> NoOne, made |-> 0, stalls |-> 0]
Idle    == [stage |-> "idle", mail |-> NoOne]

Jobs == [state : Resting \cup {"active"}, owner : Workers \cup {NoOne},
         made : 0..MaxAttempts, stalls : 0..MaxStalls]
Runs == [stage : Stages, mail : Events \cup {NoOne}]

TypeOK ==
  /\ offered \in [Events -> 0..MaxDeliveries]
  /\ job \in [Events -> Jobs]
  /\ run \in [Workers -> Runs]
  /\ marker \subseteq Events
  /\ inbox \in [Events -> Nat]
  /\ failures \subseteq Events
  /\ dlq \subseteq Events
  /\ mishaps \in [Events -> Nat]
  /\ faults \in 0..MaxFaults

Init ==
  /\ offered = [e \in Events |-> 0]
  /\ job = [e \in Events |-> NoJob]
  /\ run = [w \in Workers |-> Idle]
  /\ marker = {} /\ failures = {} /\ dlq = {}
  /\ inbox = [e \in Events |-> 0]
  /\ mishaps = [e \in Events |-> 0]
  /\ faults = 0

Fault     == faults < MaxFaults /\ faults' = faults + 1
Mishap(e) == mishaps' = [mishaps EXCEPT ![e] = @ + 1]
Rest(e, state)  == [job[e] EXCEPT !.state = state, !.owner = NoOne]
Goto(w, stage)  == run' = [run EXCEPT ![w].stage = stage]
At(w, stage, e) == run[w].stage = stage /\ run[w].mail = e
Executes(w, e)  == run[w].mail = e
DeadLetters     == <<failures, dlq>>

-----------------------------------------------------------------------------
(* The producer and the job's life in the queue.                           *)

\* handle: the add is void while a job of this id exists, ended or not.
Enqueue(e) ==
  /\ offered[e] < MaxDeliveries
  /\ offered' = [offered EXCEPT ![e] = @ + 1]
  /\ job' = IF job[e].state = "none" THEN [job EXCEPT ![e] = [NoJob EXCEPT !.state = "waiting"]]
                                     ELSE job
  /\ UNCHANGED <<run, marker, inbox, DeadLetters, mishaps, faults>>

BackoffEnds(e) ==
  /\ job[e].state = "delayed"
  /\ job' = [job EXCEPT ![e] = Rest(e, "waiting")]
  /\ UNCHANGED <<offered, run, marker, inbox, DeadLetters, mishaps, faults>>

\* removeOnComplete and removeOnFail.  A failed job lives long enough (30 days,
\* 1000 failures) for the reconciliation to dead-letter it; so does the marker (30
\* days) for the outbox, which has nothing left to redeliver by then.
Reap(e) ==
  /\ \/ job[e].state = "completed"
     \/ job[e].state = "failed" /\ (e \in dlq \/ job[e].made < MaxAttempts)
  /\ job' = [job EXCEPT ![e] = NoJob]
  /\ UNCHANGED <<offered, run, marker, inbox, DeadLetters, mishaps, faults>>

-----------------------------------------------------------------------------
(* EmailNotificationProcessor.process.                                     *)

Take(w, e) ==
  /\ run[w] = Idle
  /\ job[e].state = "waiting"
  /\ job' = [job EXCEPT ![e].state = "active", ![e].owner = w]
  /\ run' = [run EXCEPT ![w] = [stage |-> "check", mail |-> e]]
  /\ UNCHANGED <<offered, marker, inbox, DeadLetters, mishaps, faults>>

\* A worker that never looks for the marker.
CheckNothing(w, e) ==
  /\ At(w, "check", e)
  /\ Goto(w, "send")
  /\ UNCHANGED <<offered, job, marker, inbox, DeadLetters, mishaps, faults>>

\* A worker that claims the marker before it sends.
ClaimFirst(w, e) ==
  /\ At(w, "check", e)
  /\ marker' = marker \cup {e}
  /\ Goto(w, IF e \in marker THEN "complete" ELSE "send")
  /\ UNCHANGED <<offered, job, inbox, DeadLetters, mishaps, faults>>

Check(w, e) ==
  /\ At(w, "check", e)
  /\ Goto(w, IF e \in marker THEN "complete" ELSE "send")
  /\ UNCHANGED <<offered, job, marker, inbox, DeadLetters, mishaps, faults>>

\* Redis answered the lookup with an error: the attempt fails unsent.
CheckFails(w, e) ==
  /\ At(w, "check", e)
  /\ Fault
  /\ Goto(w, "fail")
  /\ UNCHANGED <<offered, job, marker, inbox, DeadLetters, mishaps>>

Send(w, e) ==
  /\ At(w, "send", e)
  /\ inbox' = [inbox EXCEPT ![e] = @ + 1]
  /\ Goto(w, "mark")
  /\ UNCHANGED <<offered, job, marker, DeadLetters, mishaps, faults>>

Refused(w, e) ==
  /\ At(w, "send", e)
  /\ Goto(w, "fail")
  /\ UNCHANGED <<offered, job, marker, inbox, DeadLetters, mishaps, faults>>

\* The server accepted the message and the connection broke: the attempt fails.
SendReplyLost(w, e) ==
  /\ At(w, "send", e)
  /\ Fault /\ Mishap(e)
  /\ inbox' = [inbox EXCEPT ![e] = @ + 1]
  /\ Goto(w, "fail")
  /\ UNCHANGED <<offered, job, marker, DeadLetters>>

Mark(w, e) ==
  /\ At(w, "mark", e)
  /\ marker' = marker \cup {e}
  /\ Goto(w, "complete")
  /\ UNCHANGED <<offered, job, inbox, DeadLetters, mishaps, faults>>

\* The error is logged and the job completes without its marker.
MarkFails(w, e) ==
  /\ At(w, "mark", e)
  /\ Fault /\ Mishap(e)
  /\ Goto(w, "complete")
  /\ UNCHANGED <<offered, job, marker, inbox, DeadLetters>>

\* The worker reports to BullMQ, which only listens to the holder of the lock.
Completed(w, e) ==
  /\ At(w, "complete", e)
  /\ job' = IF job[e].owner = w THEN [job EXCEPT ![e] = Rest(e, "completed")] ELSE job
  /\ run' = [run EXCEPT ![w] = Idle]
  /\ UNCHANGED <<offered, marker, inbox, DeadLetters, mishaps, faults>>

\* The budget compared one attempt too late.
RetriedOnceMore(e) == job[e].made < MaxAttempts

Retried(e) == job[e].made + 1 < MaxAttempts

Failed(w, e) ==
  /\ At(w, "fail", e)
  /\ run' = [run EXCEPT ![w] = Idle]
  /\ \/ /\ job[e].owner = w
        /\ job' = [job EXCEPT ![e] =
             [Rest(e, IF Retried(e) THEN "delayed" ELSE "failed") EXCEPT !.made = @ + 1]]
        /\ failures' = IF Retried(e) THEN failures ELSE failures \cup {e}
     \/ /\ job[e].owner # w
        /\ UNCHANGED <<job, failures>>
  /\ UNCHANGED <<offered, marker, inbox, dlq, mishaps, faults>>

Crash(w, e) ==
  /\ run[w].stage # "idle" /\ Executes(w, e)
  /\ Fault /\ Mishap(e)
  /\ run' = [run EXCEPT ![w] = Idle]
  /\ UNCHANGED <<offered, job, marker, inbox, DeadLetters>>

-----------------------------------------------------------------------------
(* BullMQ's check for stalled jobs: back to waiting, or failed for good with *)
(* the attempts it had.                                                      *)

Requeued(e) ==
  IF job[e].stalls < MaxStalls
  THEN /\ job' = [job EXCEPT ![e] = [Rest(e, "waiting") EXCEPT !.stalls = @ + 1]]
       /\ UNCHANGED failures
  ELSE /\ job' = [job EXCEPT ![e] = Rest(e, "failed")]
       /\ failures' = failures \cup {e}

\* The worker that held the job is gone.
OwnerDead(e) ==
  /\ job[e].state = "active"
  /\ ~Executes(job[e].owner, e)
  /\ Requeued(e)
  /\ UNCHANGED <<offered, run, marker, inbox, dlq, mishaps, faults>>

\* It is alive, but did not renew the lock in time; it carries on.
LockLost(e) ==
  /\ job[e].state = "active"
  /\ Executes(job[e].owner, e)
  /\ Fault /\ Mishap(e)
  /\ Requeued(e)
  /\ UNCHANGED <<offered, run, marker, inbox, dlq>>

-----------------------------------------------------------------------------
(* Dead letters.                                                           *)

\* The budget compared the wrong way round the boundary.
ExceedsBudget(e) == job[e].made > MaxAttempts

Exhausted(e) == job[e].made >= MaxAttempts

\* routeFailedJobToDlq; the DLQ entry is named after the job.  A failed add is
\* only logged.
Routed(e) ==
  IF job[e].state # "none" /\ Exhausted(e)
  THEN \/ dlq' = dlq \cup {e} /\ UNCHANGED faults
       \/ Fault /\ UNCHANGED dlq
  ELSE UNCHANGED <<dlq, faults>>

RouteFailure(e) ==
  /\ e \in failures
  /\ failures' = failures \ {e}
  /\ Routed(e)
  /\ UNCHANGED <<offered, job, run, marker, inbox, mishaps>>

\* QueueEvents reads from '$': what is emitted during a restart is missed.
FailureMissed(e) ==
  /\ e \in failures
  /\ Fault
  /\ failures' = failures \ {e}
  /\ UNCHANGED <<offered, job, run, marker, inbox, dlq, mishaps>>

\* reconcilePair for one failed job that has no DLQ entry yet.
Reconcile(e) ==
  /\ job[e].state = "failed" /\ e \notin dlq
  /\ Routed(e)
  /\ UNCHANGED <<offered, job, run, marker, inbox, failures, mishaps>>

-----------------------------------------------------------------------------
Work(w, e) ==
  \/ Check(w, e) \/ Send(w, e) \/ Refused(w, e) \/ Mark(w, e)
  \/ Completed(w, e) \/ Failed(w, e)

Next ==
  \E e \in Events :
    \/ Enqueue(e) \/ BackoffEnds(e) \/ Reap(e) \/ OwnerDead(e) \/ LockLost(e)
    \/ RouteFailure(e) \/ FailureMissed(e) \/ Reconcile(e)
    \/ \E w \in Workers :
         \/ Take(w, e) \/ Work(w, e)
         \/ CheckFails(w, e) \/ SendReplyLost(w, e) \/ MarkFails(w, e) \/ Crash(w, e)

Spec == Init /\ [][Next]_vars

\* Workers take jobs and finish what they run, BullMQ looks for stalled jobs and
\* delayed ones, and the reconciliation's cron fires.  Nothing is fair about the
\* producer, the reaper or the router.
Fairness ==
  \A e \in Events :
    /\ WF_vars(BackoffEnds(e)) /\ WF_vars(OwnerDead(e)) /\ WF_vars(Reconcile(e))
    /\ WF_vars(\E w \in Workers : Take(w, e))
    /\ \A w \in Workers : WF_vars(Work(w, e))

FairSpec == Spec /\ Fairness
-----------------------------------------------------------------------------
(* Properties.                                                             *)

\* email-notification.processor.ts:70-71: marking after the send never loses an
\* e-mail; whatever crashes and stalls happen, a completed job has been sent.
CompletedMeansSent ==
  \A e \in Events : job[e].state = "completed" => inbox[e] > 0

\* docs/code-standards.md:287: a second e-mail takes a crash, a lost lock, a lost
\* SMTP reply or a lost marker of its own.  Redeliveries of the outbox, retries and
\* reaped jobs never send one.
DuplicatesNeedMishaps ==
  \A e \in Events : inbox[e] <= 1 + mishaps[e]

\* dlq-monitor.task.ts:75-79: an event that was enqueued ends in the mailbox or in
\* the DLQ, though "failed" events get lost, unless the job died of its stalls.
EveryMailSettles ==
  \A e \in Events :
    job[e].state = "waiting"
      ~> \/ inbox[e] > 0 \/ e \in dlq
         \/ job[e].state = "failed" /\ job[e].made < MaxAttempts

\* dead-letter.module.ts:17-19: "copies any terminally-failed job into the DLQ".
\* The code breaks this: see the run stalled_dead_letter.
FailedJobsAreDeadLettered ==
  \A e \in Events : job[e].state = "failed" ~> e \in dlq
-----------------------------------------------------------------------------
(* The inductive invariant.                                                *)

Live(e) == job[e].state \in {"waiting", "delayed", "active"}

\* A live job has an attempt left, only an active one has an owner, and a slot
\* that executes something executes an event.
JobsAreConsistent ==
  /\ \A e \in Events : /\ Live(e) => job[e].made < MaxAttempts
                       /\ job[e].owner # NoOne <=> job[e].state = "active"
  /\ \A w \in Workers : run[w].stage = "idle" <=> run[w].mail = NoOne

\* A marker, and a slot about to mark or complete, follow an accepted send.
SentFirst ==
  /\ \A e \in Events : e \in marker => inbox[e] > 0
  /\ \A w \in Workers, e \in Events :
       At(w, "mark", e) \/ At(w, "complete", e) => inbox[e] > 0

\* No slot holds the job and executes it: the queue may hand it out again.
Loose(e) == ~(job[e].state = "active" /\ Executes(job[e].owner, e))

\* What may still send e without a mishap: a slot past the check and, until the
\* marker is set, a slot that may come to it again and the queue.
Senders(e) ==
  {w \in Workers : \/ At(w, "send", e)
                   \/ /\ e \notin marker
                      /\ Executes(w, e) /\ run[w].stage \in {"check", "complete", "fail"}}
  \cup {x \in {NoOne} : e \notin marker /\ Loose(e)}

\* Every send uses up a sender, and only a mishap makes one.
SendersArePaid ==
  \A e \in Events : inbox[e] + Cardinality(Senders(e)) <= 1 + mishaps[e]

IInv == TypeOK /\ JobsAreConsistent /\ SentFirst /\ CompletedMeansSent /\ SendersArePaid
=============================================================================
