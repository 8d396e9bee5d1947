------------------------- MODULE LeaderLease_proofs -------------------------
(***************************************************************************)
(* Machine-checked safety of LeaderLease, for any replicas, TTL and bounds.*)
(***************************************************************************)
EXTENDS LeaderLease, TLAPS

\* A command just sent is a well-formed pending entry.
LEMMA SentIsPending ==
  ASSUME NEW cmd \in Commands
  PROVE  Sent(cmd) \in Pending
BY DEF Sent, Pending, Answers

\* The initial state satisfies the invariant.
LEMMA InitIInv == Init => IInv
BY NoOneAssumption, ConstantsAssumption
   DEF Init, IInv, TypeOK, OwnershipIsAge, StoppedReplicaIsQuiet, Modes, Pending

\* Steps of a replica that leave the key alone.
LEMMA ReplicaSteps ==
  ASSUME IInv, NEW r \in Replicas,
         Timer(r) \/ Deliver(r) \/ Fails(r) \/ Stop(r) \/ Drained(r) \/ Resigned(r)
  PROVE  IInv'
<1> USE ConstantsAssumption DEF IInv, TypeOK
<1>1. OwnershipIsAge'
  BY DEF OwnershipIsAge, Timer, Deliver, Fails, Stop, Drained, Resigned, Key
<1>2. CASE Timer(r)
  <2> DEFINE cmd == IF leader[r] THEN "renew" ELSE "acquire"
  <2>1. Sent(cmd) \in Pending
    BY SentIsPending DEF Commands
  <2>2. Append(pending[r], Sent(cmd)) \in Seq(Pending)
    BY <2>1
  <2>3. TypeOK'
    BY <1>2, <2>2 DEF Timer, Key, Net
  <2>4. StoppedReplicaIsQuiet'
    BY <1>2 DEF Timer, StoppedReplicaIsQuiet
  <2> QED BY <1>1, <2>3, <2>4
<1>3. CASE Deliver(r)
  <2> DEFINE p == Head(pending[r])
             next == NextCommands(r, p.cmd, p.answer)
  <2>1. pending[r] \in Seq(Pending) /\ pending[r] # <<>>
    BY <1>3 DEF Deliver
  <2>2. next \in Seq(Pending)
    BY SentIsPending DEF NextCommands, Commands
  <2>3. Tail(pending[r]) \in Seq(Pending)
    BY <2>1
  <2>4. Tail(pending[r]) \o next \in Seq(Pending)
    BY <2>2, <2>3
  <2>5. NextFlag(r, p.cmd, p.answer) \in BOOLEAN
    BY DEF NextFlag
  <2>6. /\ pending' = [pending EXCEPT ![r] = Tail(pending[r]) \o next]
        /\ leader' = [leader EXCEPT ![r] = NextFlag(r, p.cmd, p.answer)]
        /\ UNCHANGED <<mode, Key, Net>>
    BY <1>3 DEF Deliver
  <2> HIDE DEF next, p
  <2>7. TypeOK'
    BY <2>4, <2>5, <2>6 DEF Key, Net
  <2>8. mode[r] # "stopped"
    BY <2>1 DEF StoppedReplicaIsQuiet
  <2>9. StoppedReplicaIsQuiet'
    BY <2>6, <2>8 DEF StoppedReplicaIsQuiet
  <2> QED BY <1>1, <2>7, <2>9
<1>4. CASE Fails(r)
  <2>1. pending[r] \in Seq(Pending) /\ pending[r] # <<>>
    BY <1>4 DEF Fails
  <2>2. Tail(pending[r]) \in Seq(Pending)
    BY <2>1
  <2>3. TypeOK'
    BY <1>4, <2>2 DEF Fails, Key, Net
  <2>4. StoppedReplicaIsQuiet'
    BY <1>4 DEF Fails, StoppedReplicaIsQuiet
  <2> QED BY <1>1, <2>3, <2>4
<1>5. CASE Stop(r)
  <2>1. TypeOK'
    BY <1>5 DEF Stop, Key, Net, Modes
  <2>2. StoppedReplicaIsQuiet'
    BY <1>5 DEF Stop, StoppedReplicaIsQuiet
  <2> QED BY <1>1, <2>1, <2>2
<1>6. CASE Drained(r)
  <2>1. <<Sent("resign")>> \in Seq(Pending)
    BY SentIsPending DEF Commands
  <2>2. TypeOK'
    BY <1>6, <2>1 DEF Drained, Key, Net, Modes
  <2>3. StoppedReplicaIsQuiet'
    BY <1>6 DEF Drained, StoppedReplicaIsQuiet
  <2> QED BY <1>1, <2>2, <2>3
<1>7. CASE Resigned(r)
  <2>1. TypeOK'
    BY <1>7 DEF Resigned, Key, Net, Modes
  <2>2. StoppedReplicaIsQuiet'
    BY <1>7 DEF Resigned, StoppedReplicaIsQuiet
  <2> QED BY <1>1, <2>1, <2>2
<1> QED BY <1>2, <1>3, <1>4, <1>5, <1>6, <1>7

\* A command served by Redis grants, frees or leaves the key, never another's.
LEMMA ExecuteIInv ==
  ASSUME IInv, NEW r \in Replicas, Execute(r)
  PROVE  IInv'
<1> USE NoOneAssumption, ConstantsAssumption DEF IInv, TypeOK
<1> PICK i \in 1..Len(pending[r]) :
      /\ pending[r][i].answer = "none"
      /\ pending' = [pending EXCEPT ![r][i].answer =
                       IF Succeeds(r, pending[r][i].cmd) THEN "yes" ELSE "no"]
      /\ Effect(r, pending[r][i].cmd)
  BY DEF Execute
<1> DEFINE cmd == pending[r][i].cmd
           ans == IF Succeeds(r, cmd) THEN "yes" ELSE "no"
           entry == [pending[r][i] EXCEPT !.answer = ans]
<1>1. pending[r] \in Seq(Pending) /\ pending[r][i] \in Pending
  OBVIOUS
<1>2. entry \in Pending
  BY <1>1 DEF Pending, Answers
<1>3. [pending[r] EXCEPT ![i] = entry] \in Seq(Pending)
  BY <1>1, <1>2
<1>4. pending' = [pending EXCEPT ![r] = [pending[r] EXCEPT ![i] = entry]]
  OBVIOUS
<1>5. pending' \in [Replicas -> Seq(Pending)]
  BY <1>3, <1>4
<1>6. Effect(r, cmd) /\ UNCHANGED <<leader, mode, Net>>
  BY DEF Execute
<1>7. StoppedReplicaIsQuiet'
  <2>1. pending[r] # <<>>
    BY <1>1
  <2>2. mode[r] # "stopped"
    BY <2>1 DEF StoppedReplicaIsQuiet
  <2> HIDE DEF entry
  <2> QED BY <1>4, <1>6, <2>2 DEF StoppedReplicaIsQuiet
<1>8. CASE UNCHANGED Key
  BY <1>5, <1>6, <1>7, <1>8 DEF Key, Net, OwnershipIsAge
<1>9. CASE Grant(r) /\ (owner = r \/ owner = NoOne)
  <2>1. TypeOK'
    BY <1>5, <1>6, <1>9 DEF Grant, Net
  <2>2. OwnershipIsAge'
    BY <1>9 DEF Grant, OwnershipIsAge
  <2> QED BY <1>7, <2>1, <2>2
<1>10. CASE Free(r) /\ owner = r
  <2>1. TypeOK'
    BY <1>5, <1>6, <1>10 DEF Free, Net
  <2>2. OwnershipIsAge'
    BY <1>10 DEF Free, OwnershipIsAge
  <2> QED BY <1>7, <2>1, <2>2
<1> QED BY <1>6, <1>8, <1>9, <1>10
     DEF Effect, Succeeds, Renewable, Acquirable, Releasable

\* The network and the clock.
LEMMA EnvironmentSteps ==
  ASSUME IInv, TimePasses \/ \E r \in Replicas : Cut(r) \/ Reconnect(r)
  PROVE  IInv'
<1> USE NoOneAssumption, ConstantsAssumption DEF IInv, TypeOK
<1>1. ASSUME NEW r \in Replicas, Cut(r)
      PROVE  IInv'
  <2> DEFINE resent == [i \in 1..Len(pending[r]) |-> Sent(pending[r][i].cmd)]
  <2>1. pending[r] \in Seq(Pending) /\ Len(pending[r]) \in Nat
    OBVIOUS
  <2>2. \A i \in 1..Len(pending[r]) : Sent(pending[r][i].cmd) \in Pending
    <3> TAKE i \in 1..Len(pending[r])
    <3>1. pending[r][i] \in Pending
      BY <2>1
    <3>2. pending[r][i].cmd \in Commands
      BY <3>1 DEF Pending
    <3> QED BY <3>2, SentIsPending
  <2>3. resent \in Seq(Pending)
    BY <2>1, <2>2
  <2>4. pending[r] = <<>> => resent = <<>>
    OBVIOUS
  <2>5. pending' = [pending EXCEPT ![r] = resent] /\ UNCHANGED <<leader, mode, Key>>
    BY <1>1 DEF Cut
  <2> HIDE DEF resent
  <2>6. TypeOK'
    BY <1>1, <2>3, <2>5 DEF Cut, Key
  <2>7. OwnershipIsAge'
    BY <2>5 DEF OwnershipIsAge, Key
  <2>8. StoppedReplicaIsQuiet'
    BY <2>4, <2>5 DEF StoppedReplicaIsQuiet
  <2> QED BY <2>6, <2>7, <2>8
<1>2. ASSUME NEW r \in Replicas, Reconnect(r)
      PROVE  IInv'
  BY <1>2 DEF Reconnect, Key, OwnershipIsAge, StoppedReplicaIsQuiet
<1>3. CASE TimePasses
  <2>1. TypeOK'
    BY <1>3 DEF TimePasses, Net
  <2>2. OwnershipIsAge'
    BY <1>3 DEF TimePasses, OwnershipIsAge
  <2>3. StoppedReplicaIsQuiet'
    BY <1>3 DEF TimePasses, StoppedReplicaIsQuiet
  <2> QED BY <2>1, <2>2, <2>3
<1> QED BY <1>1, <1>2, <1>3

\* The conjunction of all parts is inductive.
THEOREM Inductive == Spec => []IInv
<1>1. ASSUME IInv, [Next]_vars
      PROVE  IInv'
  <2>1. CASE UNCHANGED vars
    BY <1>1, <2>1 DEF vars, IInv, TypeOK, OwnershipIsAge, StoppedReplicaIsQuiet
  <2> QED BY <1>1, <2>1, ReplicaSteps, ExecuteIInv, EnvironmentSteps DEF Next
<1> QED BY InitIInv, <1>1, PTL DEF Spec

\* Every variable keeps its type.
THEOREM Typed == Spec => []TypeOK
<1>1. IInv => TypeOK
  BY DEF IInv
<1> QED BY <1>1, Inductive, PTL

\* Two running leaders at once: one of them has outlived its lease.  A stalled
\* holder's scripts never touch the lease of its successor.
THEOREM LeadersDoNotStealLeases == Spec => []SplitBrainNeedsAnExpiredLease
<1>1. IInv => SplitBrainNeedsAnExpiredLease
  BY DEF IInv, OwnershipIsAge, SplitBrainNeedsAnExpiredLease
<1> QED BY <1>1, Inductive, PTL

\* stop() leaves nothing behind that could acquire the lease again.
THEOREM StopIsFinal == Spec => []StoppedReplicaIsQuiet
<1>1. IInv => StoppedReplicaIsQuiet
  BY DEF IInv
<1> QED BY <1>1, Inductive, PTL
=============================================================================
