----------------------------- MODULE LeaderLease -----------------------------
(***************************************************************************)
(* RedisLeaderLease (libs/infra/redis): one Redis key that makes one       *)
(* replica the scheduler leader, or the metrics collector leader.          *)
(*                                                                         *)
(* A replica's timer starts a tick whether or not the last one ended, so   *)
(* several may be in flight.  Each awaits one command on the replica's     *)
(* connection, which executes and answers in order.  When the connection   *)
(* breaks, ioredis sends unanswered commands again after reconnecting; an  *)
(* impatient client (maxRetriesPerRequest 1, the metrics collector) fails  *)
(* them first, a patient one (null, the scheduler's queue client) waits.   *)
(* Time is a countdown of the key's TTL.                                   *)
(***************************************************************************)
EXTENDS Integers, Sequences

CONSTANTS
  Replicas,     \* each with a token of its own
  NoOne,        \* the key does not exist
  LeaseTtl,     \* LEASE_TTL_MS, in ticks of the clock
  Patient,      \* commands wait for a connection without limit
  MaxInFlight,  \* bound: ticks of one replica in flight
  MaxCuts       \* bound: broken connections

ASSUME NoOneAssumption == NoOne \notin Replicas
ASSUME ConstantsAssumption ==
  LeaseTtl \in Nat \ {0} /\ Patient \in BOOLEAN /\ MaxInFlight \in Nat /\ MaxCuts \in Nat

VARIABLES
  owner,   \* the token in the key
  ttl,     \* what is left of the key's life
  leader,  \* leader[r]: what isLeader() answers
  mode,    \* mode[r]: running, or in the course of stop()
  pending, \* pending[r]: the unanswered commands of r's connection, in order
  conn,    \* conn[r]: the connection is up
  age,     \* history: time since Redis last granted or extended the lease to r
  cuts

vars == <<owner, ttl, leader, mode, pending, conn, age, cuts>>

Commands == {"renew", "acquire", "release", "resign"}
Answers  == {"none", "yes", "no"}
Pending  == [cmd : Commands, answer : Answers]
Modes    == {"running", "stopping", "releasing", "stopped"}

TypeOK ==
  /\ owner \in Replicas \cup {NoOne}
  /\ ttl \in 0..LeaseTtl
  /\ leader \in [Replicas -> BOOLEAN]
  /\ mode \in [Replicas -> Modes]
  /\ pending \in [Replicas -> Seq(Pending)]
  /\ conn \in [Replicas -> BOOLEAN]
  /\ age \in [Replicas -> 0..LeaseTtl]
  /\ cuts \in 0..MaxCuts

Init ==
  /\ owner = NoOne
  /\ ttl = 0
  /\ leader = [r \in Replicas |-> FALSE]
  /\ mode = [r \in Replicas |-> "running"]
  /\ pending = [r \in Replicas |-> <<>>]
  /\ conn = [r \in Replicas |-> TRUE]
  /\ age = [r \in Replicas |-> LeaseTtl]
  /\ cuts = 0

Sent(cmd) == [cmd |-> cmd, answer |-> "none"]
Key == <<owner, ttl, age>>
Net == <<conn, cuts>>

----------------------------------------------------------------------------
(* The replica.                                                            *)

\* tick(): a leader renews, a follower tries to acquire.
Timer(r) ==
  /\ mode[r] = "running"
  /\ Len(pending[r]) < MaxInFlight
  /\ pending' = [pending EXCEPT ![r] =
       Append(@, Sent(IF leader[r] THEN "renew" ELSE "acquire"))]
  /\ UNCHANGED <<leader, mode, Key, Net>>

\* What runTick does with an answer: the command it sends next, or the new flag.
\* A renew or an acquire answered after stop() was called changes no flag, and a
\* lease that was acquired is given back.
NextCommands(r, cmd, answer) ==
  IF mode[r] = "running"
    THEN IF cmd = "renew" /\ answer = "no" THEN <<Sent("acquire")>> ELSE <<>>
    ELSE IF cmd = "acquire" /\ answer = "yes" THEN <<Sent("release")>> ELSE <<>>

NextFlag(r, cmd, answer) ==
  IF mode[r] # "running" \/ (cmd = "renew" /\ answer = "yes") THEN leader[r]
                                                   ELSE cmd = "acquire" /\ answer = "yes"

Deliver(r) ==
  /\ pending[r] # <<>>
  /\ LET p == Head(pending[r]) IN
     /\ p.cmd # "resign" /\ p.answer # "none"
     /\ pending' = [pending EXCEPT ![r] = Tail(@) \o NextCommands(r, p.cmd, p.answer)]
     /\ leader' = [leader EXCEPT ![r] = NextFlag(r, p.cmd, p.answer)]
  /\ UNCHANGED <<mode, Key, Net>>

\* A catch that only logs.
FailsQuietly(r) ==
  /\ ~Patient /\ ~conn[r]
  /\ pending[r] # <<>> /\ Head(pending[r]).cmd # "resign"
  /\ pending' = [pending EXCEPT ![r] = Tail(@)]
  /\ UNCHANGED <<leader, mode, Key, Net>>

\* runTick's catch: an error of any command drops leadership.
Fails(r) ==
  /\ ~Patient /\ ~conn[r]
  /\ pending[r] # <<>> /\ Head(pending[r]).cmd # "resign"
  /\ pending' = [pending EXCEPT ![r] = Tail(@)]
  /\ leader' = [leader EXCEPT ![r] = FALSE]
  /\ UNCHANGED <<mode, Key, Net>>

\* stop(): no new tick, wait for those in flight, then release if still leader.
Stop(r) ==
  /\ mode[r] = "running"
  /\ mode' = [mode EXCEPT ![r] = "stopping"]
  /\ UNCHANGED <<leader, pending, Key, Net>>

\* Without waiting for the ticks in flight.
DrainedAtOnce(r) ==
  /\ mode[r] = "stopping"
  /\ mode' = [mode EXCEPT ![r] = "stopped"]
  /\ leader' = [leader EXCEPT ![r] = FALSE]
  /\ UNCHANGED <<pending, Key, Net>>

Drained(r) ==
  /\ mode[r] = "stopping" /\ pending[r] = <<>>
  /\ \/ /\ leader[r]
        /\ pending' = [pending EXCEPT ![r] = <<Sent("resign")>>]
        /\ mode' = [mode EXCEPT ![r] = "releasing"]
     \/ /\ ~leader[r]
        /\ mode' = [mode EXCEPT ![r] = "stopped"]
        /\ UNCHANGED pending
  /\ UNCHANGED <<leader, Key, Net>>

\* The release is answered, or fails: the flag falls either way.
Resigned(r) ==
  /\ mode[r] = "releasing"
  /\ pending[r] # <<>>
  /\ Head(pending[r]).answer # "none" \/ (~Patient /\ ~conn[r])
  /\ pending' = [pending EXCEPT ![r] = <<>>]
  /\ leader' = [leader EXCEPT ![r] = FALSE]
  /\ mode' = [mode EXCEPT ![r] = "stopped"]
  /\ UNCHANGED <<Key, Net>>

----------------------------------------------------------------------------
(* Redis and the network.                                                  *)

\* A lease extended by a TTL instead of to a TTL, and a key set without PX.
GrantOnTop(r)  == owner' = r /\ ttl' = ttl + LeaseTtl /\ age' = [age EXCEPT ![r] = 0]
GrantForever(r) == owner' = r /\ ttl' = 0 /\ age' = [age EXCEPT ![r] = 0]

Grant(r) == owner' = r /\ ttl' = LeaseTtl /\ age' = [age EXCEPT ![r] = 0]
Free(r)  == owner' = NoOne /\ ttl' = 0 /\ age' = [age EXCEPT ![r] = LeaseTtl]

\* SET without NX.
AcquireAlways(r) == TRUE

\* RENEW_SCRIPT and RELEASE_SCRIPT compare the token, SET NX wants no key.
Renewable(r)  == owner = r
Acquirable(r) == owner = NoOne
Releasable(r) == owner = r

Succeeds(r, cmd) ==
  \/ cmd = "renew"   /\ Renewable(r)
  \/ cmd = "acquire" /\ Acquirable(r)
  \/ cmd \in {"release", "resign"} /\ Releasable(r)

Effect(r, cmd) ==
  IF ~Succeeds(r, cmd) THEN UNCHANGED Key
  ELSE IF cmd \in {"renew", "acquire"} THEN Grant(r) ELSE Free(r)

Execute(r) ==
  /\ conn[r]
  /\ \E i \in 1..Len(pending[r]) :
       /\ pending[r][i].answer = "none"
       /\ \A j \in 1..(i - 1) : pending[r][j].answer # "none"
       /\ pending' = [pending EXCEPT ![r][i].answer =
                        IF Succeeds(r, pending[r][i].cmd) THEN "yes" ELSE "no"]
       /\ Effect(r, pending[r][i].cmd)
  /\ UNCHANGED <<leader, mode, Net>>

\* Answers under way are lost with the connection; their commands are sent again.
Cut(r) ==
  /\ conn[r] /\ cuts < MaxCuts
  /\ cuts' = cuts + 1
  /\ conn' = [conn EXCEPT ![r] = FALSE]
  /\ pending' = [pending EXCEPT ![r] = [i \in 1..Len(@) |-> Sent(@[i].cmd)]]
  /\ UNCHANGED <<leader, mode, Key>>

Reconnect(r) ==
  /\ ~conn[r]
  /\ conn' = [conn EXCEPT ![r] = TRUE]
  /\ UNCHANGED <<leader, mode, pending, Key, cuts>>

\* A tick of the clock; at the end of its TTL Redis deletes the key.
TimePasses ==
  /\ ttl > 0
  /\ ttl' = ttl - 1
  /\ owner' = IF ttl = 1 THEN NoOne ELSE owner
  /\ age' = [r \in Replicas |-> IF age[r] < LeaseTtl THEN age[r] + 1 ELSE age[r]]
  /\ UNCHANGED <<leader, mode, pending, Net>>

----------------------------------------------------------------------------
Next ==
  \/ \E r \in Replicas :
       \/ Timer(r) \/ Deliver(r) \/ Fails(r) \/ Stop(r) \/ Drained(r) \/ Resigned(r)
       \/ Execute(r) \/ Cut(r) \/ Reconnect(r)
  \/ TimePasses

Spec == Init /\ [][Next]_vars

\* Timers fire, answers are handled, Redis serves a connection that is up and time
\* passes.  Nothing makes a broken connection come back, and nobody has to stop.
Fairness ==
  /\ \A r \in Replicas :
       /\ WF_vars(Timer(r)) /\ WF_vars(Deliver(r)) /\ WF_vars(Fails(r))
       /\ WF_vars(Drained(r)) /\ WF_vars(Resigned(r)) /\ WF_vars(Execute(r))
  /\ WF_vars(TimePasses)

FairSpec == Spec /\ Fairness
----------------------------------------------------------------------------
\* The inductive invariant: the time since a replica's last grant mirrors the key's
\* TTL while it owns the key, and is a whole TTL otherwise.
OwnershipIsAge ==
  \A r \in Replicas :
    /\ owner = r => ttl > 0 /\ age[r] + ttl = LeaseTtl
    /\ owner # r => age[r] = LeaseTtl

(* Properties.                                                             *)

\* Two running replicas lead at once only when one of them has not had its lease
\* extended for a whole TTL: no renewal, release or late answer of a stalled holder
\* ever takes the lease from its successor (RENEW_SCRIPT, RELEASE_SCRIPT, SET NX).
SplitBrainNeedsAnExpiredLease ==
  \A r, q \in Replicas :
    /\ r # q
    /\ leader[r] /\ mode[r] = "running"
    /\ leader[q] /\ mode[q] = "running"
    => age[r] = LeaseTtl \/ age[q] = LeaseTtl

\* When stop() returns, no tick of the replica is still under way that could acquire
\* the lease or raise the flag afterwards ("stop racing an in-flight tick").
StoppedReplicaIsQuiet ==
  \A r \in Replicas : mode[r] = "stopped" => pending[r] = <<>> /\ ~leader[r]

IInv == TypeOK /\ OwnershipIsAge /\ StoppedReplicaIsQuiet

\* As long as a running replica reaches Redis, one of those leads again and again:
\* overlapping ticks, lost answers and dead holders only delay it (runTick).
SomeoneLeads ==
  \/ []<>(\E r \in Replicas : leader[r] /\ conn[r] /\ mode[r] = "running")
  \/ <>[](\A r \in Replicas : ~conn[r] \/ mode[r] # "running")

\* A running leader whose lease another replica holds steps down, even if it never
\* reaches Redis again
\* ("Fail closed: drop leadership so a healthy replica takes over and we never
\* double-write while Redis is flaky", runTick).
CutOffLeaderStepsDown ==
  \A r \in Replicas :
    (leader[r] /\ mode[r] = "running" /\ owner \notin {r, NoOne})
      ~> (~leader[r] \/ owner = r \/ mode[r] # "running")
=============================================================================
