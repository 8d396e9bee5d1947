----------------------------- MODULE OutboxRelay -----------------------------
(***************************************************************************)
(* The transactional outbox: rows committed with the producer's change,    *)
(* and the relays (one per scheduler replica) that claim them in batches,  *)
(* publish each to its listeners and mark it processed                     *)
(* (libs/infra/messaging/src/lib/outbox-relay.service.ts).                 *)
(*                                                                         *)
(* A relay's tick is three transactions' worth of steps: the claim takes   *)
(* row locks (FOR UPDATE SKIP LOCKED), then commits attempts and the next  *)
(* visible time; the rows of one aggregate are then dispatched one after   *)
(* the other, different aggregates concurrently; each outcome is written   *)
(* on its own.  Leadership is an input: LeaderLease shows when two relays  *)
(* may both hold it.  Time counts the shortest back-off interval.          *)
(***************************************************************************)
EXTENDS Integers, FiniteSets

CONSTANTS
  Events,       \* a set of naturals: the order of (createdAt, id)
  Relays,
  Listeners,    \* consumers of every event: audit log, notifications, mail
  Stream,       \* Stream[e]: the event's aggregateId
  Kinds,        \* Kinds[e]: what e's payload may be, a subset of AllKinds
  BatchSize,    \* OUTBOX_BATCH_SIZE
  Concurrency,  \* OUTBOX_DISPATCH_CONCURRENCY
  MaxAttempts,  \* OUTBOX_MAX_ATTEMPTS
  RetryBase,    \* OUTBOX_RETRY_BASE_MS
  RetryMax,     \* OUTBOX_RETRY_MAX_MS
  MaxFaults     \* bound on failed calls, crashes and lost leaderships

\* "malformed": the envelope does not parse or is newer than the relay;
\* "refused": a listener may refuse it on a business rule.
AllKinds == {"good", "malformed", "refused"}

ASSUME ConstantsAssumption ==
  /\ Events \subseteq Nat
  /\ IsFiniteSet(Events) /\ IsFiniteSet(Relays)
  /\ DOMAIN Stream = Events
  /\ Kinds \in [Events -> SUBSET AllKinds]
  /\ {BatchSize, Concurrency, MaxAttempts, RetryBase, RetryMax} \subseteq Nat \ {0}
  /\ MaxFaults \in Nat

VARIABLES
  row,      \* row[e]: the outbox_events row
  at,       \* at[r][e]: how far relay r's tick is with e
  waiting,  \* waiting[r][e]: listeners of e that relay r still awaits
  stray,    \* listener calls still running after a publish was given up on
  handled,  \* handled[e]: listeners in which e took effect
  leader,   \* relays whose isLeader() is true
  tries,    \* history: how often e was taken up for publishing
  overran,  \* history: events whose back-off ended while a relay held them
  faults

vars == <<row, at, waiting, stray, handled, leader, tries, overran, faults>>

Stages == {"none", "locked", "todo", "publish", "mark", "park", "over"}

NoRow == [in |-> FALSE, kind |-> "good", done |-> FALSE, attempts |-> 0, wait |-> 0]

Rows == [in : BOOLEAN, kind : AllKinds, done : BOOLEAN,
         attempts : 0..MaxAttempts, wait : 0..RetryMax]

TypeOK ==
  /\ row \in [Events -> Rows]
  /\ at \in [Relays -> [Events -> Stages]]
  /\ waiting \in [Relays -> [Events -> SUBSET Listeners]]
  /\ stray \subseteq Relays \X Events \X Listeners
  /\ handled \in [Events -> SUBSET Listeners]
  /\ leader \subseteq Relays
  /\ tries \in [Events -> Nat]
  /\ overran \subseteq Events
  /\ faults \in 0..MaxFaults

Init ==
  /\ row = [e \in Events |-> NoRow]
  /\ at = [r \in Relays |-> [e \in Events |-> "none"]]
  /\ waiting = [r \in Relays |-> [e \in Events |-> {}]]
  /\ stray = {}
  /\ handled = [e \in Events |-> {}]
  /\ leader = {}
  /\ tries = [e \in Events |-> 0]
  /\ overran = {}
  /\ faults = 0

------------------------------------------------------------------------------
Fault == faults < MaxFaults /\ faults' = faults + 1

Idle(r)     == \A e \in Events : at[r][e] = "none"
Holds(r, e) == at[r][e] \in {"todo", "publish", "mark", "park"}
Active      == {"publish", "mark", "park"}
Delivery    == <<stray, handled, tries>>

\* A trigger or OutboxPublisher writes the row inside the producer's
\* transaction; writes to one aggregate do not overlap.
Commit(e) ==
  /\ ~row[e].in
  /\ \A d \in Events : d < e /\ Stream[d] = Stream[e] => row[d].in
  /\ \E k \in Kinds[e] : row' = [row EXCEPT ![e].in = TRUE, ![e].kind = k]
  /\ UNCHANGED <<at, waiting, leader, overran, faults, Delivery>>

------------------------------------------------------------------------------
(* Claim *)

\* A claim that forgets the attempt budget.
EvenExhausted(e) == row[e].in /\ ~row[e].done /\ row[e].wait = 0

Claimable(e) == /\ row[e].in /\ ~row[e].done
                /\ row[e].attempts < MaxAttempts
                /\ row[e].wait = 0

Locked(e) == \E r \in Relays : at[r][e] = "locked"

\* ORDER BY "createdAt", id LIMIT BatchSize over the rows nobody has locked.
FirstUnlocked ==
  LET open == {e \in Events : Claimable(e) /\ ~Locked(e)}
  IN  {e \in open : Cardinality({d \in open : d < e}) < BatchSize}

Tick(r) ==
  /\ r \in leader
  /\ Idle(r)
  /\ FirstUnlocked # {}
  /\ at' = [at EXCEPT ![r] = [e \in Events |-> IF e \in FirstUnlocked THEN "locked" ELSE "none"]]
  /\ UNCHANGED <<row, waiting, leader, overran, faults, Delivery>>

Batch(r) == {e \in Events : at[r][e] = "locked"}

\* power() of the attempts made before this one, capped.
Shorter(a, b) == IF a < b THEN a ELSE b
Backoff(attempts) == Shorter(RetryBase * 2^attempts, RetryMax)

\* Arithmetic that the provers lack: powers of two are positive.
ASSUME BackoffAssumption == \A n \in 0..MaxAttempts : Backoff(n) \in 1..RetryMax

\* Claims that leave the visible time, or the attempt, to the error handler.
ClaimedUnstamped(e) == [row[e] EXCEPT !.attempts = @ + 1]
ClaimedUncounted(e) == [row[e] EXCEPT !.wait = Backoff(row[e].attempts)]

Claimed(e) == [row[e] EXCEPT !.attempts = @ + 1, !.wait = Backoff(row[e].attempts)]

ClaimRows(r) == row' = [e \in Events |-> IF e \in Batch(r) THEN Claimed(e) ELSE row[e]]

Claim(r) ==
  /\ Batch(r) # {}
  /\ ClaimRows(r)
  /\ at' = [at EXCEPT ![r] = [e \in Events |-> IF e \in Batch(r) THEN "todo" ELSE "none"]]
  /\ overran' = overran \ {e \in Batch(r) : \A s \in Relays : ~Holds(s, e)}
  /\ UNCHANGED <<waiting, leader, faults, Delivery>>

\* The transaction rolls back, or commits with its answer lost: the attempts
\* are then spent on rows nobody publishes.
ClaimFails(r) ==
  /\ Batch(r) # {}
  /\ Fault
  /\ ClaimRows(r) \/ UNCHANGED row
  /\ at' = [at EXCEPT ![r] = [e \in Events |-> "none"]]
  /\ UNCHANGED <<waiting, leader, overran, Delivery>>

------------------------------------------------------------------------------
(* Dispatch *)

\* Groups whose worker is busy: some row is under way, or finished with more to do.
Begun(r, s) ==
  /\ \E e \in Events : Stream[e] = s /\ at[r][e] \in Active \cup {"over"}
  /\ \E e \in Events : Stream[e] = s /\ at[r][e] \in Active \cup {"todo"}

BusyGroups(r) == {s \in {Stream[e] : e \in Events} : Begun(r, s)}

\* UPDATE ... RETURNING promises no order, so any row of the group may be next.
MayDispatch(r, e) ==
  /\ at[r][e] = "todo"
  /\ \A d \in Events : Stream[d] = Stream[e] => at[r][d] \notin Active
  /\ Stream[e] \in BusyGroups(r) \/ Cardinality(BusyGroups(r)) < Concurrency

Goto(r, e, stage) == at' = [at EXCEPT ![r][e] = stage]

\* A malformed event is parked unpublished.
Dispatch(r, e) ==
  /\ MayDispatch(r, e)
  /\ IF row[e].kind = "malformed"
     THEN /\ Goto(r, e, "park")
          /\ UNCHANGED <<waiting, tries>>
     ELSE /\ Goto(r, e, "publish")
          /\ waiting' = [waiting EXCEPT ![r][e] = Listeners]
          /\ tries' = [tries EXCEPT ![e] = @ + 1]
  /\ UNCHANGED <<row, stray, handled, leader, overran, faults>>

\* emitAsync that resolves with the first listener rather than with all of them.
FirstAnswerEnds(r, e, l) == l \in waiting[r][e]

LastAnswer(r, e, l) == waiting[r][e] = {l}

\* emitAsync awaits every listener; the last one ends the publish.
Handle(r, e, l) ==
  /\ at[r][e] = "publish"
  /\ l \in waiting[r][e]
  /\ handled' = [handled EXCEPT ![e] = @ \cup {l}]
  /\ waiting' = [waiting EXCEPT ![r][e] = IF LastAnswer(r, e, l) THEN {} ELSE @ \ {l}]
  /\ at' = IF LastAnswer(r, e, l) THEN [at EXCEPT ![r][e] = "mark"] ELSE at
  /\ UNCHANGED <<row, stray, leader, tries, overran, faults>>

\* isDomainException(err) && err.permanent, and a version that takes every
\* error for one.
RefusesAlways(e) == row[e].in
RefusesForGood(e) == row[e].kind = "refused"

\* The first rejection ends the publish; the other listeners run on.  A
\* permanent one parks the row, anything else only records the error.
Reject(r, e, l) ==
  /\ at[r][e] = "publish"
  /\ l \in waiting[r][e]
  /\ \/ RefusesForGood(e) /\ Goto(r, e, "park") /\ UNCHANGED faults
     \/ Fault /\ Goto(r, e, "over")
  /\ stray' = stray \cup {<<r, e, k>> : k \in waiting[r][e] \ {l}}
  /\ waiting' = [waiting EXCEPT ![r][e] = {}]
  /\ UNCHANGED <<row, handled, leader, tries, overran>>

Land(r, e, l) ==
  /\ <<r, e, l>> \in stray
  /\ stray' = stray \ {<<r, e, l>>}
  /\ handled' = [handled EXCEPT ![e] = @ \cup {l}]
  /\ UNCHANGED <<row, at, waiting, leader, tries, overran, faults>>

\* Both updates wait for a claim that has the row locked.
Mark(r, e) ==
  /\ at[r][e] = "mark" /\ ~Locked(e)
  /\ Goto(r, e, "over")
  /\ row' = [row EXCEPT ![e].done = TRUE, ![e].wait = 0]
  /\ UNCHANGED <<waiting, leader, overran, faults, Delivery>>

ParkedAsDone(e) == [row[e] EXCEPT !.done = TRUE]

Parked(e) == [row[e] EXCEPT !.attempts = MaxAttempts]

Park(r, e) ==
  /\ at[r][e] = "park" /\ ~Locked(e)
  /\ Goto(r, e, "over")
  /\ row' = [row EXCEPT ![e] = Parked(e)]
  /\ UNCHANGED <<waiting, leader, overran, faults, Delivery>>

\* The outcome could not be written: logged, and the row is left as claimed.
WriteFails(r, e) ==
  /\ at[r][e] \in {"mark", "park"}
  /\ Fault
  /\ Goto(r, e, "over")
  /\ UNCHANGED <<row, waiting, leader, overran, Delivery>>

Released(r) == at' = [at EXCEPT ![r] = [e \in Events |-> "none"]]

TickEnds(r) ==
  /\ \E e \in Events : at[r][e] = "over"
  /\ \A e \in Events : at[r][e] \in {"none", "over"}
  /\ Released(r)
  /\ UNCHANGED <<row, waiting, leader, overran, faults, Delivery>>

\* The process dies, with its open transaction and its running listeners.
Crash(r) ==
  /\ Fault
  /\ Released(r)
  /\ waiting' = [waiting EXCEPT ![r] = [e \in Events |-> {}]]
  /\ stray' = {c \in stray : c[1] # r}
  /\ leader' = leader \ {r}
  /\ UNCHANGED <<row, handled, tries, overran>>

------------------------------------------------------------------------------
(* Environment *)

Elect(r) ==
  /\ r \notin leader
  /\ leader' = leader \cup {r}
  /\ UNCHANGED <<row, at, waiting, overran, faults, Delivery>>

\* isLeader() turns false, or onModuleDestroy stops the timer; a running tick
\* goes on to its end.
StepDown(r) ==
  /\ r \in leader
  /\ Fault
  /\ leader' = leader \ {r}
  /\ UNCHANGED <<row, at, waiting, overran, Delivery>>

TimePasses ==
  /\ \E e \in Events : row[e].wait > 0
  /\ row' = [e \in Events |-> [row[e] EXCEPT !.wait = IF @ = 0 THEN 0 ELSE @ - 1]]
  /\ overran' = overran \cup {e \in Events : row[e].wait = 1 /\ \E r \in Relays : Holds(r, e)}
  /\ UNCHANGED <<at, waiting, leader, faults, Delivery>>

------------------------------------------------------------------------------
RelayStep(r) ==
  \/ Tick(r) \/ Claim(r) \/ TickEnds(r)
  \/ \E e \in Events : \/ Dispatch(r, e) \/ Mark(r, e) \/ Park(r, e)
                       \/ \E l \in Listeners : Handle(r, e, l)

Next ==
  \/ TimePasses
  \/ \E e \in Events : Commit(e)
  \/ \E r \in Relays :
       \/ RelayStep(r) \/ ClaimFails(r) \/ Crash(r) \/ Elect(r) \/ StepDown(r)
       \/ \E e \in Events : \/ WriteFails(r, e)
                            \/ \E l \in Listeners : Reject(r, e, l) \/ Land(r, e, l)

Spec == Init /\ [][Next]_vars

\* The poll timer fires while the process lives, its promises settle, and the
\* lease finds some relay to lead (SomeoneLeads of LeaderLease).
Fairness ==
  /\ WF_vars(TimePasses)
  /\ \A r \in Relays : WF_vars(RelayStep(r))
  /\ \A r \in Relays : WF_vars(leader = {} /\ Elect(r))

FairSpec == Spec /\ Fairness

------------------------------------------------------------------------------
(* Invariants behind the properties *)

LocksAreExclusive ==
  \A e \in Events, r, s \in Relays : at[r][e] = "locked" /\ at[s][e] = "locked" => r = s

LockedIsClaimable == \A e \in Events, r \in Relays : at[r][e] = "locked" => Claimable(e)

UncommittedIsUntouched ==
  /\ \A e \in Events : ~row[e].in => ~row[e].done /\ row[e].attempts = 0
  /\ \A e \in Events, r \in Relays : at[r][e] # "none" => row[e].in
  /\ \A c \in stray : row[c[2]].in

AwaitedOrHandled ==
  \A e \in Events, r \in Relays :
    /\ at[r][e] = "publish" => handled[e] \cup waiting[r][e] = Listeners
    /\ at[r][e] = "mark" => handled[e] = Listeners

VisibleMeansOverrun ==
  \A e \in Events, r \in Relays : Holds(r, e) /\ ~row[e].done /\ row[e].wait = 0 => e \in overran

------------------------------------------------------------------------------
(* Properties *)

\* outbox-relay.service.ts:29-30, 253-263: a row is only marked processed after
\* every listener took the event, whatever other relays did to the row meanwhile.
ProcessedMeansHandled == \A e \in Events : row[e].done => handled[e] = Listeners

\* outbox-relay.service.ts:167-169: the claim stamps the visible time, so a second
\* relay can hold a row only once the first outlasted the back-off.
OverlapNeedsASlowBatch ==
  \A e \in Events, r, s \in Relays :
    r # s /\ Holds(r, e) /\ Holds(s, e) => e \in overran

IInv == /\ TypeOK /\ LocksAreExclusive /\ LockedIsClaimable /\ UncommittedIsUntouched
        /\ AwaitedOrHandled /\ VisibleMeansOverrun
        /\ ProcessedMeansHandled /\ OverlapNeedsASlowBatch

\* outbox-relay.service.ts:101-102: each publish was paid for by an attempt, so an
\* event is published at most OUTBOX_MAX_ATTEMPTS times, over all relays together.
PublishesWithinBudget ==
  \A e \in Events : tries[e] + Cardinality({r \in Relays : at[r][e] = "todo"}) <= row[e].attempts

\* docs/scaling-to-services.md:14: at-least-once.  With fewer failures than
\* attempts, a good event reaches every listener and is marked processed.
GoodEventsAreProcessed ==
  \A e \in Events : (row[e].in /\ row[e].kind = "good") ~> row[e].done

\* docs/scaling-to-services.md:14, 70: the relay implements the abstract delivery.
Fate(e) == IF ~row[e].in THEN "absent" ELSE IF row[e].done THEN "delivered"
           ELSE IF row[e].attempts = MaxAttempts THEN "given up" ELSE "pending"

Promise == INSTANCE EventDelivery WITH fate <- [e \in Events |-> Fate(e)]

DeliversAsPromised == Promise!Spec
==============================================================================
