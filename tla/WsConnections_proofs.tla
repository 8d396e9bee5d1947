------------------------- MODULE WsConnections_proofs -------------------------
(***************************************************************************)
(* Proofs about the WebSocket connections: types, the slots of the         *)
(* limiter, the leases of live sockets, revoked sessions and the cap, for  *)
(* any number of sockets, sessions and replicas.                           *)
(***************************************************************************)
EXTENDS WsConnections, FiniteSetTheorems, TLAPS

\* The scripts change one lease and keep it in its range.
LEMMA ScriptType ==
  ASSUME TypeOK, NEW s \in Sockets,
         NEW l \in {Acquired(s), Released(s), Renewed(s), LetGo(s), lease}
  PROVE  /\ l \in [Sockets -> 0..LeaseTtl]
         /\ \A t \in Sockets \ {s} : l[t] = lease[t]
BY ConstantsAssumption DEF TypeOK, Acquired, Released, Renewed, LetGo

\* A call of Redis changes one lease, and a failed one excuses the socket.
LEMMA CallType ==
  ASSUME TypeOK, NEW s \in Sockets,
         NEW l \in {Acquired(s), Released(s), Renewed(s), LetGo(s)}, Calls(s, l)
  PROVE  /\ lease' \in [Sockets -> 0..LeaseTtl]
         /\ \A t \in Sockets \ {s} : lease'[t] = lease[t]
         /\ excused \subseteq excused' /\ excused' \subseteq Sockets
         /\ \/ lease' = l /\ UNCHANGED <<excused, faults>>
            \/ s \in excused' /\ faults' = faults + 1
         /\ \A t \in Sockets \ {s} : t \in excused' => t \in excused
         /\ faults' \in 0..MaxFaults
<1>1. lease' \in {l, lease}
  BY DEF Calls
<1>2. lease' \in {Acquired(s), Released(s), Renewed(s), LetGo(s), lease}
  BY <1>1
<1>3. lease' \in [Sockets -> 0..LeaseTtl] /\ \A t \in Sockets \ {s} : lease'[t] = lease[t]
  BY <1>2, ScriptType
<1>4. faults' \in 0..MaxFaults
  BY ConstantsAssumption DEF Calls, TypeOK
<1> QED BY <1>3, <1>4 DEF Calls, TypeOK

\* Faults stay within their bound.
LEMMA FaultType ==
  ASSUME TypeOK, Fault
  PROVE  faults' \in 0..MaxFaults
BY ConstantsAssumption DEF TypeOK, Fault

\* The end of a round does not start anything.
LEMMA SettledType ==
  ASSUME NEW n, NEW r \in [Sockets -> {"none", "jitter", "queued", "checking", "done"}]
  PROVE  /\ Settled(n, r) \in [Sockets -> {"none", "jitter", "queued", "checking", "done"}]
         /\ \A t \in Sockets : r[t] \in {"jitter", "queued", "checking"} <=> Settled(n, r)[t] \in {"jitter", "queued", "checking"}
         /\ \A t \in Sockets : r[t] \in {"jitter", "queued", "checking"} => Settled(n, r)[t] = r[t]
         /\ \A t \in Sockets \ At(n) : Settled(n, r)[t] = r[t]
         /\ \A t \in Sockets : Settled(n, r)[t] # "none" => r[t] # "none"
         /\ (\E t \in At(n) : Settled(n, r)[t] # "none")
              => \E t \in At(n) : Settled(n, r)[t] \notin {"none", "done"}
BY DEF Settled, At

\* What a slot of the limiter may be given to.
LEMMA PassType ==
  ASSUME TypeOK, NEW s \in Sockets, round[s] = "checking", NEW r \in PassSlot(s)
  PROVE  /\ r \in [Sockets -> {"none", "jitter", "queued", "checking", "done"}]
         /\ r[s] = "done"
         /\ \/ r = [round EXCEPT ![s] = "done"] /\ \A t \in At(Home[s]) : round[t] # "queued"
            \/ \E t \in At(Home[s]) : round[t] = "queued"
                                      /\ r = [round EXCEPT ![s] = "done", ![t] = "checking"]
<1> DEFINE waiting == {t \in At(Home[s]) : round[t] = "queued"}
<1>1. CASE waiting = {}
  <2>1. r = [round EXCEPT ![s] = "done"]
    BY <1>1 DEF PassSlot
  <2> QED BY <1>1, <2>1 DEF TypeOK
<1>2. CASE waiting # {}
  <2>1. PICK t \in waiting : r = [round EXCEPT ![s] = "done", ![t] = "checking"]
    BY <1>2 DEF PassSlot
  <2>2. t \in At(Home[s]) /\ t \in Sockets /\ t # s /\ round[t] = "queued"
    BY <2>1 DEF At
  <2> QED BY <2>1, <2>2 DEF TypeOK
<1> QED BY <1>1, <1>2

\* TypeOK is preserved by every step.
LEMMA TypeStep ==
  ASSUME TypeOK, [Next]_vars
  PROVE  TypeOK'
<1> USE ConstantsAssumption
<1>1. CASE UNCHANGED vars
  BY <1>1 DEF TypeOK, vars
<1>2. CASE Tick
  <2>1. /\ lease' \in [Sockets -> 0..LeaseTtl] /\ jitter' \in [Sockets -> 0..Interval]
        /\ timer' \in [Nodes -> 0..Interval]
    BY <1>2 DEF Tick, Less, TypeOK
  <2>2. revoked' \in [Sessions -> 0..TooLate]
    BY <1>2 DEF Tick, TypeOK, TooLate
  <2> QED BY <1>2, <2>1, <2>2 DEF Tick, TypeOK
<1>3. ASSUME NEW s \in Sockets, Acquire(s) PROVE TypeOK'
  <2>1. Calls(s, Acquired(s))
    BY <1>3 DEF Acquire
  <2> QED BY <1>3, <2>1, CallType DEF Acquire, Move, TypeOK
<1>4. ASSUME NEW s \in Sockets, Refuse(s) PROVE TypeOK'
  BY <1>4, FaultType DEF Refuse, Move, TypeOK
<1>5. ASSUME NEW s \in Sockets, Connect(s) PROVE TypeOK'
  BY <1>5 DEF Connect, Move, TypeOK
<1>6. ASSUME NEW s \in Sockets, Reject(s) PROVE TypeOK'
  <2>1. Calls(s, Released(s))
    BY <1>6 DEF Reject
  <2> QED BY <1>6, <2>1, CallType DEF Reject, Move, TypeOK
<1>7. ASSUME NEW s \in Sockets, Close(s) PROVE TypeOK'
  <2>1. Calls(s, LetGo(s))
    BY <1>7 DEF Close
  <2> QED BY <1>7, <2>1, CallType DEF Close, Move, TypeOK
<1>8. ASSUME NEW s \in Sockets, CloseEarly(s) PROVE TypeOK'
  BY <1>8 DEF CloseEarly, TypeOK
<1>9. ASSUME NEW s \in Sockets, EnterLimiter(s) PROVE TypeOK'
  BY <1>9 DEF EnterLimiter, TypeOK
<1>10. ASSUME NEW s \in Sockets, Revalidate(s) PROVE TypeOK'
  <2>1. PICK r \in PassSlot(s) : round' = Settled(Home[s], r)
    BY <1>10 DEF Revalidate
  <2>2. round' \in [Sockets -> {"none", "jitter", "queued", "checking", "done"}]
    BY <1>10, <2>1, PassType, SettledType DEF Revalidate
  <2>3. phase' \in [Sockets -> {"new", "counted", "over", "connected", "gone"}]
    BY <1>10 DEF Revalidate, Move, TypeOK
  <2>4. /\ lease' \in [Sockets -> 0..LeaseTtl] /\ excused' \subseteq Sockets
        /\ faults' \in 0..MaxFaults
    <3>1. CASE Calls(s, Renewed(s)) \/ Calls(s, LetGo(s))
      BY <3>1, CallType
    <3>2. CASE /\ lease' \in {Renewed(s), LetGo(s), lease}
               /\ excused' \in {excused, excused \cup ({s} \cap held)}
               /\ UNCHANGED faults \/ Fault
      BY <3>2, ScriptType, FaultType DEF TypeOK
    <3> QED BY <1>10, <3>1, <3>2 DEF Revalidate
  <2> QED BY <1>10, <2>2, <2>3, <2>4 DEF Revalidate, TypeOK
<1>11. ASSUME NEW x \in Sessions, Revoke(x) PROVE TypeOK'
  BY <1>11 DEF Revoke, TypeOK, TooLate
<1>12. ASSUME NEW n \in Nodes, RoundTick(n) PROVE TypeOK'
  <2> DEFINE connected == {s \in At(n) : phase[s] = "connected"}
  <2>1. timer' \in [Nodes -> 0..Interval]
    BY <1>12 DEF RoundTick, TypeOK
  <2>2. CASE UNCHANGED <<round, jitter>>
    BY <1>12, <2>1, <2>2 DEF RoundTick, TypeOK
  <2>3. CASE /\ round' = [s \in Sockets |-> IF s \in connected THEN "jitter" ELSE round[s]]
             /\ \E j \in [connected -> 0..Interval] :
                  jitter' = [s \in Sockets |-> IF s \in connected THEN j[s] ELSE jitter[s]]
    <3>1. round' \in [Sockets -> {"none", "jitter", "queued", "checking", "done"}]
      BY <2>3 DEF TypeOK
    <3>2. PICK j \in [connected -> 0..Interval] :
            jitter' = [s \in Sockets |-> IF s \in connected THEN j[s] ELSE jitter[s]]
      BY <2>3
    <3>3. jitter' \in [Sockets -> 0..Interval]
      BY <3>2 DEF TypeOK
    <3> QED BY <1>12, <2>1, <3>1, <3>3 DEF RoundTick, TypeOK
  <2> QED BY <1>12, <2>2, <2>3 DEF RoundTick
<1>13. ASSUME NEW n \in Nodes, Stop(n) PROVE TypeOK'
  <2> DEFINE r == [s \in Sockets |-> IF s \in At(n) /\ round[s] = "jitter"
                                       THEN "done" ELSE round[s]]
  <2>1. r \in [Sockets -> {"none", "jitter", "queued", "checking", "done"}]
    BY DEF TypeOK
  <2>2. round' = Settled(n, r)
    BY <1>13 DEF Stop
  <2> HIDE DEF r
  <2>3. round' \in [Sockets -> {"none", "jitter", "queued", "checking", "done"}]
    BY <2>1, <2>2, SettledType
  <2> QED BY <1>13, <2>3 DEF Stop, TypeOK
<1>14. ASSUME NEW n \in Nodes, Vanish(n), excused' \subseteq Sockets,
              lease' \in [Sockets -> 0..LeaseTtl], faults' \in 0..MaxFaults
       PROVE  TypeOK'
  BY <1>14 DEF Vanish, TypeOK
<1>15. ASSUME NEW n \in Nodes, Down(n) PROVE TypeOK'
  <2>1. excused' \subseteq Sockets /\ lease' \in [Sockets -> 0..LeaseTtl]
    BY <1>15 DEF Down, ReleasedOnShutdown, At, TypeOK
  <2>2. faults' \in 0..MaxFaults
    BY <1>15 DEF Down, TypeOK
  <2> QED BY <1>14, <1>15, <2>1, <2>2 DEF Down
<1>16. ASSUME NEW n \in Nodes, Crash(n) PROVE TypeOK'
  <2>1. excused' \subseteq Sockets /\ lease' \in [Sockets -> 0..LeaseTtl]
    BY <1>16 DEF Crash, At, TypeOK
  <2> QED BY <1>14, <1>16, <2>1, FaultType DEF Crash
<1> QED BY <1>1, <1>2, <1>3, <1>4, <1>5, <1>6, <1>7, <1>8, <1>9, <1>10, <1>11, <1>12, <1>13,
           <1>15, <1>16 DEF Next, Handshake, RoundStep

----------------------------------------------------------------------------
(* The limiter.                                                            *)

\* The slots of one replica.
SlotsAreUsed(n) ==
  /\ Cardinality(Checking(n)) <= Concurrency
  /\ (\E s \in At(n) : round[s] = "queued") => Cardinality(Checking(n)) = Concurrency

\* A limiter runs finitely many checks.
LEMMA CheckingIsFinite ==
  ASSUME NEW n
  PROVE  IsFiniteSet(Checking(n)) /\ Cardinality(Checking(n)) \in Nat
BY ConstantsAssumption, FS_Subset, FS_CardinalityType DEF Checking, At

\* Where nobody starts or stops checking and nobody joins the queue, nothing changes.
LEMMA SlotsFrame ==
  ASSUME NEW n, SlotsAreUsed(n),
         \A t \in At(n) : (round'[t] = "checking" <=> round[t] = "checking")
                          /\ (round'[t] = "queued" => round[t] = "queued")
  PROVE  SlotsAreUsed(n)'
<1>1. Checking(n)' = Checking(n)
  BY DEF Checking
<1>2. (\E t \in At(n) : round'[t] = "queued") => (\E t \in At(n) : round[t] = "queued")
  OBVIOUS
<1> QED BY <1>1, <1>2 DEF SlotsAreUsed

\* Without anybody checking or queued, the slots are free.
LEMMA SlotsEmpty ==
  ASSUME NEW n, \A t \in At(n) : round'[t] \notin {"checking", "queued"}
  PROVE  SlotsAreUsed(n)'
<1>1. Checking(n)' = {}
  BY DEF Checking
<1>2. Cardinality(Checking(n)') = 0
  BY <1>1, FS_EmptySet
<1> QED BY <1>2, ConstantsAssumption DEF SlotsAreUsed

\* The task that ends its jitter takes a free slot, or waits when there is none.
LEMMA EnterKeepsSlots ==
  ASSUME TypeOK, NEW s \in Sockets, EnterLimiter(s), SlotsAreUsed(Home[s])
  PROVE  SlotsAreUsed(Home[s])'
<1> DEFINE n == Home[s]
<1> USE ConstantsAssumption
<1>1. IsFiniteSet(Checking(n)) /\ Cardinality(Checking(n)) \in Nat
  BY CheckingIsFinite
<1>2. s \in At(n) /\ s \notin Checking(n)
  BY DEF EnterLimiter, At, Checking
<1>3. CASE Cardinality(Checking(n)) < Concurrency
  <2>1. round' = [round EXCEPT ![s] = "checking"]
    BY <1>3 DEF EnterLimiter
  <2>2. Checking(n)' = Checking(n) \cup {s}
    BY <1>2, <2>1 DEF Checking, TypeOK, At
  <2>3. Cardinality(Checking(n)') = Cardinality(Checking(n)) + 1
    BY <1>1, <1>2, <2>2, FS_AddElement
  <2>4. \A t \in At(n) : round'[t] # "queued"
    BY <1>3, <1>1, <2>1 DEF SlotsAreUsed, TypeOK, At
  <2> QED BY <1>1, <1>3, <2>3, <2>4 DEF SlotsAreUsed
<1>4. CASE ~(Cardinality(Checking(n)) < Concurrency)
  <2>1. round' = [round EXCEPT ![s] = "queued"]
    BY <1>4 DEF EnterLimiter
  <2>2. Checking(n)' = Checking(n)
    BY <1>2, <2>1 DEF Checking, TypeOK, At
  <2> QED BY <1>1, <1>4, <2>2 DEF SlotsAreUsed
<1> QED BY <1>3, <1>4

\* The slot of a finished task goes to one that waits.
LEMMA PassKeepsSlots ==
  ASSUME TypeOK, NEW s \in Sockets, round[s] = "checking", SlotsAreUsed(Home[s]),
         NEW r \in PassSlot(s), round' = Settled(Home[s], r)
  PROVE  SlotsAreUsed(Home[s])'
<1> DEFINE n == Home[s]
<1> USE ConstantsAssumption
<1>1. IsFiniteSet(Checking(n)) /\ Cardinality(Checking(n)) \in Nat
  BY CheckingIsFinite
<1>2. s \in At(n) /\ s \in Checking(n)
  BY DEF At, Checking
<1>3. Cardinality(Checking(n) \ {s}) = Cardinality(Checking(n)) - 1
      /\ IsFiniteSet(Checking(n) \ {s})
  BY <1>1, <1>2, FS_RemoveElement
<1>4. \A t \in At(n) : /\ round'[t] = "checking" <=> r[t] = "checking"
                       /\ round'[t] = "queued" => r[t] = "queued"
  BY PassType, SettledType DEF At
<1>5. CASE r = [round EXCEPT ![s] = "done"] /\ \A t \in At(n) : round[t] # "queued"
  <2>1. Checking(n)' = Checking(n) \ {s}
    BY <1>4, <1>5, <1>2 DEF Checking, TypeOK, At
  <2>2. \A t \in At(n) : round'[t] # "queued"
    BY <1>4, <1>5 DEF TypeOK, At
  <2> QED BY <1>1, <1>3, <2>1, <2>2 DEF SlotsAreUsed
<1>6. ASSUME NEW u \in At(n), round[u] = "queued",
             r = [round EXCEPT ![s] = "done", ![u] = "checking"]
      PROVE  SlotsAreUsed(n)'
  <2>1. u \in Sockets /\ u # s /\ u \notin Checking(n) \ {s}
    BY <1>6 DEF At, Checking
  <2> DEFINE rest == Checking(n) \ {s}
  <2>2. \A t \in At(n) : r[t] = "checking" <=> t = u \/ (t # s /\ round[t] = "checking")
    BY <1>6, <2>1 DEF TypeOK, At
  <2>3. \A t \in At(n) : round'[t] = "checking" <=> t = u \/ t \in rest
    BY <1>4, <2>2 DEF Checking
  <2>4. Checking(n)' = rest \cup {u}
    BY <2>3, <1>6 DEF Checking
  <2> HIDE DEF rest
  <2>5. Cardinality(rest \cup {u}) = Cardinality(rest) + 1
    BY <1>3, <2>1, FS_AddElement DEF rest
  <2>6. Cardinality(Checking(n)') = Cardinality(Checking(n))
    BY <1>1, <1>3, <2>4, <2>5 DEF rest
  <2>7. Cardinality(Checking(n)) = Concurrency
    BY <1>6 DEF SlotsAreUsed
  <2> QED BY <2>6, <2>7 DEF SlotsAreUsed
<1> QED BY <1>5, <1>6, PassType

\* Every step keeps the slots of every replica.
LEMMA SlotsStep ==
  ASSUME TypeOK, \A n \in Nodes : SlotsAreUsed(n), [Next]_vars
  PROVE  \A n \in Nodes : SlotsAreUsed(n)'
<1> USE ConstantsAssumption
<1> SUFFICES ASSUME NEW n \in Nodes PROVE SlotsAreUsed(n)'
  OBVIOUS
<1>1. CASE UNCHANGED round
  BY <1>1, SlotsFrame
<1>2. ASSUME NEW s \in Sockets, EnterLimiter(s) PROVE SlotsAreUsed(n)'
  <2>1. CASE n = Home[s]
    BY <1>2, <2>1, EnterKeepsSlots
  <2>2. CASE n # Home[s]
    <3>1. \A t \in At(n) : round'[t] = round[t]
      BY <1>2, <2>2 DEF EnterLimiter, TypeOK, At
    <3> QED BY <3>1, SlotsFrame
  <2> QED BY <2>1, <2>2
<1>3. ASSUME NEW s \in Sockets, Revalidate(s) PROVE SlotsAreUsed(n)'
  <2>1. PICK r \in PassSlot(s) : round' = Settled(Home[s], r) /\ round[s] = "checking"
    BY <1>3 DEF Revalidate
  <2>2. CASE n = Home[s]
    BY <2>1, <2>2, PassKeepsSlots
  <2>3. CASE n # Home[s]
    <3>1. \A t \in At(n) : t \in Sockets \ At(Home[s]) /\ t # s
      BY <2>3 DEF At
    <3>2. \A t \in At(n) : r[t] = round[t]
      BY <2>1, <3>1, PassType DEF TypeOK
    <3>3. \A t \in At(n) : round'[t] = round[t]
      BY <2>1, <3>1, <3>2, PassType, SettledType
    <3> QED BY <3>3, SlotsFrame
  <2> QED BY <2>2, <2>3
<1>4. ASSUME NEW m \in Nodes, RoundTick(m), ~UNCHANGED round PROVE SlotsAreUsed(n)'
  <2>1. ~InFlight(m)
        /\ round' = [s \in Sockets |-> IF s \in {t \in At(m) : phase[t] = "connected"}
                                         THEN "jitter" ELSE round[s]]
    BY <1>4 DEF RoundTick
  <2>2. CASE n = m
    <3>1. \A t \in At(n) : round'[t] \notin {"checking", "queued"}
      BY <2>1, <2>2 DEF InFlight, At
    <3> QED BY <3>1, SlotsEmpty
  <2>3. CASE n # m
    <3>1. \A t \in At(n) : round'[t] = round[t]
      BY <2>1, <2>3 DEF At
    <3> QED BY <3>1, SlotsFrame
  <2> QED BY <2>2, <2>3
<1>5. ASSUME NEW m \in Nodes, Stop(m) PROVE SlotsAreUsed(n)'
  <2> DEFINE r == [s \in Sockets |-> IF s \in At(m) /\ round[s] = "jitter"
                                       THEN "done" ELSE round[s]]
  <2>1. r \in [Sockets -> {"none", "jitter", "queued", "checking", "done"}]
    BY DEF TypeOK
  <2>2. round' = Settled(m, r)
    BY <1>5 DEF Stop
  <2>3. \A t \in Sockets : (r[t] = "checking" <=> round[t] = "checking")
                           /\ (r[t] = "queued" <=> round[t] = "queued")
    OBVIOUS
  <2> HIDE DEF r
  <2>4. \A t \in Sockets : (round'[t] = "checking" <=> round[t] = "checking")
                           /\ (round'[t] = "queued" => round[t] = "queued")
    BY <2>1, <2>2, <2>3, SettledType
  <2> QED BY <2>4, SlotsFrame DEF At
<1>6. ASSUME NEW m \in Nodes, Vanish(m) PROVE SlotsAreUsed(n)'
  <2>1. round' = [s \in Sockets |-> IF s \in At(m) THEN "none" ELSE round[s]]
    BY <1>6 DEF Vanish
  <2>2. CASE n = m
    <3>1. \A t \in At(n) : round'[t] \notin {"checking", "queued"}
      BY <2>1, <2>2 DEF At
    <3> QED BY <3>1, SlotsEmpty
  <2>3. CASE n # m
    <3>1. \A t \in At(n) : round'[t] = round[t]
      BY <2>1, <2>3 DEF At
    <3> QED BY <3>1, SlotsFrame
  <2> QED BY <2>2, <2>3
<1>7. CASE Tick \/ (\E s \in Sockets : Handshake(s) \/ Close(s) \/ CloseEarly(s))
             \/ (\E x \in Sessions : Revoke(x)) \/ UNCHANGED vars
  <2>1. UNCHANGED round
    BY <1>7 DEF Tick, Handshake, Acquire, Refuse, Connect, Reject, Close, CloseEarly, Revoke, vars
  <2> QED BY <1>1, <2>1
<1> QED BY <1>1, <1>2, <1>3, <1>4, <1>5, <1>6, <1>7 DEF Next, RoundStep, Down, Crash

----------------------------------------------------------------------------
(* Rounds, handshakes, shutdown.                                           *)

\* Every step keeps a round in flight waiting for something.
LEMMA RoundsEndStep ==
  ASSUME TypeOK, RoundsEnd, [Next]_vars
  PROVE  RoundsEnd'
<1> USE ConstantsAssumption
<1> SUFFICES ASSUME NEW n \in Nodes, InFlight(n)'
             PROVE  \E s \in At(n) : round'[s] \notin {"none", "done"}
  BY DEF RoundsEnd, Idle
<1>1. CASE \A t \in At(n) : round'[t] = round[t]
  BY <1>1 DEF RoundsEnd, InFlight, Idle
<1>2. ASSUME NEW s \in Sockets, EnterLimiter(s)
      PROVE  \E t \in At(n) : round'[t] \notin {"none", "done"}
  BY <1>1, <1>2 DEF EnterLimiter, TypeOK, At
<1>3. ASSUME NEW s \in Sockets, Revalidate(s)
      PROVE  \E t \in At(n) : round'[t] \notin {"none", "done"}
  <2>1. PICK r \in PassSlot(s) : round' = Settled(Home[s], r) /\ round[s] = "checking"
    BY <1>3 DEF Revalidate
  <2>2. CASE n = Home[s]
    BY <2>1, <2>2, PassType, SettledType DEF InFlight
  <2>3. CASE n # Home[s]
    <3>1. \A t \in At(n) : t \in Sockets \ At(Home[s]) /\ t # s
      BY <2>3 DEF At
    <3>2. \A t \in At(n) : r[t] = round[t]
      BY <2>1, <3>1, PassType DEF TypeOK
    <3>3. \A t \in At(n) : round'[t] = round[t]
      BY <2>1, <3>1, <3>2, PassType, SettledType
    <3> QED BY <1>1, <3>3
  <2> QED BY <2>2, <2>3
<1>4. ASSUME NEW m \in Nodes, RoundTick(m), ~UNCHANGED round
      PROVE  \E t \in At(n) : round'[t] \notin {"none", "done"}
  <2>1. ~InFlight(m)
        /\ round' = [s \in Sockets |-> IF s \in {t \in At(m) : phase[t] = "connected"}
                                         THEN "jitter" ELSE round[s]]
    BY <1>4 DEF RoundTick
  <2> QED BY <1>1, <2>1 DEF InFlight, At
<1>5. ASSUME NEW m \in Nodes, Stop(m)
      PROVE  \E t \in At(n) : round'[t] \notin {"none", "done"}
  <2> DEFINE r == [s \in Sockets |-> IF s \in At(m) /\ round[s] = "jitter"
                                       THEN "done" ELSE round[s]]
  <2>1. r \in [Sockets -> {"none", "jitter", "queued", "checking", "done"}]
        /\ \A t \in Sockets \ At(m) : r[t] = round[t]
    BY DEF TypeOK
  <2>2. round' = Settled(m, r)
    BY <1>5 DEF Stop
  <2> HIDE DEF r
  <2>3. CASE n = m
    BY <2>1, <2>2, <2>3, SettledType DEF InFlight
  <2>4. CASE n # m
    <3>1. \A t \in At(n) : t \in Sockets \ At(m)
      BY <2>4 DEF At
    <3>2. \A t \in At(n) : round'[t] = round[t]
      BY <2>1, <2>2, <3>1, SettledType
    <3> QED BY <1>1, <3>2
  <2> QED BY <2>3, <2>4
<1>6. ASSUME NEW m \in Nodes, Vanish(m)
      PROVE  \E t \in At(n) : round'[t] \notin {"none", "done"}
  <2>1. round' = [s \in Sockets |-> IF s \in At(m) THEN "none" ELSE round[s]]
    BY <1>6 DEF Vanish
  <2> QED BY <1>1, <2>1 DEF InFlight, At
<1>7. CASE Tick \/ (\E s \in Sockets : Handshake(s) \/ Close(s) \/ CloseEarly(s))
             \/ (\E x \in Sessions : Revoke(x)) \/ UNCHANGED vars
  <2>1. UNCHANGED round
    BY <1>7 DEF Tick, Handshake, Acquire, Refuse, Connect, Reject, Close, CloseEarly, Revoke, vars
  <2> QED BY <1>1, <2>1
<1> QED BY <1>1, <1>2, <1>3, <1>4, <1>5, <1>6, <1>7 DEF Next, RoundStep, Down, Crash

\* Every step leaves the replicas that are down without sockets.
LEMMA DownIsEmptyStep ==
  ASSUME TypeOK, DownIsEmpty, [Next]_vars
  PROVE  DownIsEmpty'
<1> USE ConstantsAssumption
<1>1. CASE UNCHANGED <<phase, node>>
  BY <1>1 DEF DownIsEmpty
<1>2. ASSUME NEW s \in Sockets, UNCHANGED node, NEW p, Move(s, p),
             p = "gone" \/ node[Home[s]] # "down"
      PROVE  DownIsEmpty'
  BY <1>2 DEF DownIsEmpty, Move, TypeOK
<1>3. ASSUME NEW s \in Sockets, Handshake(s) PROVE DownIsEmpty'
  <2>1. CASE Acquire(s)
    BY <1>2, <2>1 DEF Acquire
  <2>2. CASE Refuse(s)
    BY <1>2, <2>2 DEF Refuse
  <2>3. CASE Connect(s)
    <3>1. node[Home[s]] # "down"
      BY <2>3 DEF Connect, DownIsEmpty
    <3> QED BY <1>2, <2>3, <3>1 DEF Connect
  <2>4. CASE Reject(s)
    <3>1. node[Home[s]] # "down"
      BY <2>4 DEF Reject, DownIsEmpty
    <3> QED BY <1>2, <2>4, <3>1 DEF Reject
  <2> QED BY <1>3, <2>1, <2>2, <2>3, <2>4 DEF Handshake
<1>4. ASSUME NEW s \in Sockets, Revalidate(s) PROVE DownIsEmpty'
  BY <1>1, <1>2, <1>4 DEF Revalidate
<1>5. ASSUME NEW s \in Sockets, Close(s) PROVE DownIsEmpty'
  BY <1>2, <1>5 DEF Close
<1>6. ASSUME NEW n \in Nodes, Stop(n) PROVE DownIsEmpty'
  BY <1>6 DEF Stop, DownIsEmpty, TypeOK
<1>7. ASSUME NEW n \in Nodes, Vanish(n) PROVE DownIsEmpty'
  BY <1>7 DEF Vanish, DownIsEmpty, TypeOK, At
<1>8. CASE Tick \/ (\E s \in Sockets : CloseEarly(s) \/ EnterLimiter(s))
             \/ (\E x \in Sessions : Revoke(x)) \/ (\E n \in Nodes : RoundTick(n)) \/ UNCHANGED vars
  <2>1. UNCHANGED <<phase, node>>
    BY <1>8 DEF Tick, CloseEarly, EnterLimiter, Revoke, RoundTick, vars
  <2> QED BY <1>1, <2>1
<1> QED BY <1>3, <1>4, <1>5, <1>6, <1>7, <1>8 DEF Next, RoundStep, Down, Crash

\* A handshake: its session held at its start, its lease is as new.
Young(s) ==
  /\ phase[s] \in {"counted", "over"} => revoked[SessionOf[s]] <= 1
  /\ phase[s] = "counted" /\ s \notin excused => lease[s] = LeaseTtl

\* Every step keeps the handshakes in the middleware fresh.
LEMMA HandshakesStep ==
  ASSUME TypeOK, HandshakesAreFresh, [Next]_vars
  PROVE  HandshakesAreFresh'
<1> USE ConstantsAssumption
<1>0. \A t \in Sockets : Young(t)
  BY DEF HandshakesAreFresh, Young
<1> SUFFICES ASSUME NEW t \in Sockets PROVE Young(t)'
  BY DEF HandshakesAreFresh, Young
<1>1. ASSUME \/ phase'[t] = phase[t] /\ lease'[t] = lease[t]
             \/ phase'[t] \notin {"counted", "over"},
             UNCHANGED revoked, t \in excused => t \in excused'
      PROVE  Young(t)'
  BY <1>0, <1>1 DEF Young
<1>2. CASE UNCHANGED vars
  BY <1>1, <1>2 DEF vars
<1>3. CASE Tick
  BY <1>3 DEF Tick, Quiet, Young
<1>4. ASSUME NEW s \in Sockets, Acquire(s) PROVE Young(t)'
  <2>1. Calls(s, Acquired(s)) /\ revoked[SessionOf[s]] = 0 /\ UNCHANGED revoked
    BY <1>4 DEF Acquire, Valid
  <2>2. CASE s # t
    <3>1. phase'[t] = phase[t] /\ lease'[t] = lease[t] /\ (t \in excused => t \in excused')
      BY <1>4, <2>1, <2>2, CallType DEF Acquire, Move, TypeOK
    <3> QED BY <1>1, <2>1, <3>1
  <2>3. CASE s = t
    <3>1. CASE faults' # faults
      <4>1. phase'[t] = "connected"
        BY <1>4, <2>3, <3>1 DEF Acquire, Move, TypeOK
      <4> QED BY <4>1 DEF Young
    <3>2. CASE faults' = faults
      <4>1. lease' = Acquired(s)
        BY <2>1, <3>2 DEF Calls, TypeOK
      <4>2. lease'[t] = LeaseTtl
        BY <2>3, <4>1 DEF Acquired, TypeOK
      <4> QED BY <2>1, <2>3, <4>2 DEF Young
    <3> QED BY <3>1, <3>2
  <2> QED BY <2>2, <2>3
<1>5. ASSUME NEW s \in Sockets, Refuse(s) PROVE Young(t)'
  BY <1>1, <1>5 DEF Refuse, Move, TypeOK
<1>6. ASSUME NEW s \in Sockets, Connect(s) PROVE Young(t)'
  BY <1>1, <1>6 DEF Connect, Move, TypeOK
<1>7. ASSUME NEW s \in Sockets, Reject(s) \/ Close(s) PROVE Young(t)'
  <2>1. /\ Calls(s, Released(s)) \/ Calls(s, LetGo(s))
        /\ UNCHANGED revoked
    BY <1>7 DEF Reject, Close
  <2>2. \E p \in {"connected", "gone"} : Move(s, p)
    BY <1>7 DEF Reject, Close
  <2>3. \/ phase'[t] = phase[t] /\ lease'[t] = lease[t]
        \/ phase'[t] \notin {"counted", "over"}
    BY <2>1, <2>2, CallType DEF Move, TypeOK
  <2>4. t \in excused => t \in excused'
    BY <2>1, CallType
  <2> QED BY <1>1, <2>1, <2>3, <2>4
<1>8. ASSUME NEW s \in Sockets, CloseEarly(s) \/ EnterLimiter(s) PROVE Young(t)'
  BY <1>1, <1>8 DEF CloseEarly, EnterLimiter
<1>9. ASSUME NEW s \in Sockets, Revalidate(s) PROVE Young(t)'
  <2>1. UNCHANGED revoked /\ (t \in excused => t \in excused')
    BY <1>9, CallType DEF Revalidate
  <2>2. CASE t = s
    <3>1. phase'[t] \notin {"counted", "over"}
      BY <1>9, <2>2 DEF Revalidate, Move, TypeOK
    <3> QED BY <1>1, <2>1, <3>1
  <2>3. CASE t # s
    <3>1. phase'[t] = phase[t]
      BY <1>9, <2>3 DEF Revalidate, Move, TypeOK
    <3>2. lease'[t] = lease[t]
      <4>1. CASE Calls(s, Renewed(s)) \/ Calls(s, LetGo(s))
        BY <2>3, <4>1, CallType
      <4>2. CASE lease' \in {Renewed(s), LetGo(s), lease}
        BY <2>3, <4>2, ScriptType
      <4> QED BY <1>9, <4>1, <4>2 DEF Revalidate
    <3> QED BY <1>1, <2>1, <3>1, <3>2
  <2> QED BY <2>2, <2>3
<1>10. ASSUME NEW x \in Sessions, Revoke(x) PROVE Young(t)'
  <2>1. revoked'[SessionOf[t]] \in {revoked[SessionOf[t]], 1}
    BY <1>10 DEF Revoke, TypeOK
  <2> QED BY <1>0, <1>10, <2>1 DEF Revoke, Young
<1>11. ASSUME NEW n \in Nodes, RoundTick(n) \/ Stop(n) PROVE Young(t)'
  BY <1>1, <1>11 DEF RoundTick, Stop
<1>12. ASSUME NEW n \in Nodes, Down(n) \/ Crash(n) PROVE Young(t)'
  <2>1. UNCHANGED revoked /\ (t \in excused => t \in excused')
    BY <1>12 DEF Down, Crash, Vanish
  <2>2. CASE t \in At(n)
    <3>1. phase'[t] = "gone"
      BY <1>12, <2>2 DEF Down, Crash, Vanish
    <3> QED BY <1>1, <2>1, <3>1
  <2>3. CASE t \notin At(n)
    <3>1. phase'[t] = phase[t] /\ lease'[t] = lease[t]
      BY <1>12, <2>3 DEF Down, Crash, Vanish, ReleasedOnShutdown
    <3> QED BY <1>1, <2>1, <3>1
  <2> QED BY <2>2, <2>3
<1> QED BY <1>2, <1>3, <1>4, <1>5, <1>6, <1>7, <1>8, <1>9, <1>10, <1>11, <1>12
        DEF Next, Handshake, RoundStep

----------------------------------------------------------------------------
(* Checks come in time.                                                    *)

\* Socket s is neither waiting for its turn nor at it.
Between == {"none", "done", "jitter"}

\* What RoundsKeepUp says of one replica that runs.
KeepsUp(n) ==
  \/ InItsPeriod(n) /\ IdleCanWait(n, 2 * Interval)
  \/ Overdue(n) /\ IdleCanWait(n, Interval)

\* Whoever can wait can wait for less.
LEMMA WaitLess ==
  ASSUME TypeOK, NEW s \in Sockets, NEW d \in Int, NEW e \in Int, e <= d, CanWait(s, d)
  PROVE  CanWait(s, e)
<1>1. lease[s] \in Int /\ revoked[SessionOf[s]] \in Int /\ Interval \in Int
  BY ConstantsAssumption DEF TypeOK
<1> QED BY <1>1 DEF CanWait

\* A step of one socket: all others wait as before, and it can wait as long as any
\* socket ever has to, or its turn has come.
LEMMA OneSocket ==
  ASSUME TypeOK, TypeOK', RoundsKeepUp, NEW s \in Sockets,
         UNCHANGED <<revoked, jitter, node, timer>>,
         \A t \in Sockets \ {s} : phase'[t] = phase[t] /\ lease'[t] = lease[t],
         \A t \in Sockets : round'[t] = "jitter" => round[t] = "jitter",
         \A t \in Sockets \ {s} : round'[t] \in {"none", "done"} => round[t] \in {"none", "done"},
         \A n \in Nodes : InFlight(n)' => InFlight(n),
         held \subseteq held', excused \subseteq excused',
         phase'[s] = "connected" =>
           \/ CanWait(s, 3 * Interval)'
           \/ CanWait(s, 0)' /\ round'[s] \notin Between
  PROVE  RoundsKeepUp'
<1> USE ConstantsAssumption
<1>1. ASSUME NEW t \in Sockets \ {s}, NEW d \in Int, CanWait(t, d)
      PROVE  CanWait(t, d)'
  BY <1>1 DEF CanWait
<1>2. ASSUME NEW d \in 0..3 * Interval, phase'[s] = "connected",
             d = 0 \/ round'[s] \in Between
      PROVE  CanWait(s, d)'
  <2>1. CASE CanWait(s, 3 * Interval)'
    <3>1. lease'[s] \in Int /\ revoked'[SessionOf[s]] \in Int /\ Interval \in Int
      BY DEF TypeOK
    <3> QED BY <2>1, <3>1 DEF CanWait
  <2> QED BY <1>2, <2>1
<1>3. \A t \in Sockets : /\ jitter[t] \in 0..Interval /\ jitter'[t] = jitter[t]
                         /\ 0..Interval \subseteq 0..3 * Interval /\ 0..Interval \subseteq Int
  BY DEF TypeOK
<1>4. \A n \in Nodes : timer[n] \in 0..Interval /\ timer'[n] = timer[n] /\ node'[n] = node[n]
  BY DEF TypeOK
<1>5. \A t \in Sockets : phase'[t] = "connected" => CanWait(t, 0)'
  BY <1>1, <1>2 DEF RoundsKeepUp
<1>6. \A t \in Sockets : phase'[t] = "connected" /\ round'[t] = "jitter" /\ node'[Home[t]] = "up"
                           => CanWait(t, jitter[t])'
  <2> SUFFICES ASSUME NEW t \in Sockets, phase'[t] = "connected", round'[t] = "jitter",
                      node'[Home[t]] = "up"
               PROVE  CanWait(t, jitter[t])'
    OBVIOUS
  <2>1. CASE t = s
    BY <1>2, <1>3, <2>1 DEF Between, CanWait
  <2>2. CASE t # s
    <3>1. CanWait(t, jitter[t])
      BY <2>2 DEF RoundsKeepUp
    <3> QED BY <1>3, <2>2, <3>1 DEF CanWait
  <2> QED BY <2>1, <2>2
<1>7. ASSUME NEW n \in Nodes, node'[n] = "up" PROVE KeepsUp(n)'
  <2>1. ASSUME NEW d \in {Interval, 2 * Interval}, IdleCanWait(n, d)
        PROVE  IdleCanWait(n, d)'
    <3> SUFFICES ASSUME NEW t \in At(n), phase'[t] = "connected", round'[t] \in {"none", "done"}
                 PROVE  CanWait(t, timer[n] + d)'
      BY <1>4 DEF IdleCanWait, Idle
    <3>1. t \in Sockets /\ timer[n] + d \in 0..3 * Interval
      BY <1>4 DEF At
    <3>2. CASE t = s
      <4>1. CASE CanWait(s, 3 * Interval)'
        BY <1>4, <3>1, <3>2, <4>1 DEF CanWait, TypeOK
      <4> QED BY <3>2, <4>1 DEF Between
    <3>3. CASE t # s
      <4>1. CanWait(t, timer[n] + d)
        BY <2>1, <3>1, <3>3 DEF IdleCanWait, Idle
      <4> QED BY <1>4, <3>1, <3>3, <4>1 DEF CanWait
    <3> QED BY <3>2, <3>3
  <2>2. InItsPeriod(n) => InItsPeriod(n)'
    BY <1>3, <1>4 DEF InItsPeriod, At
  <2>3. Overdue(n) => Overdue(n)'
    BY <1>3, <1>4 DEF Overdue, At
  <2>4. KeepsUp(n)
    BY <1>4, <1>7 DEF RoundsKeepUp, KeepsUp
  <2> QED BY <2>1, <2>2, <2>3, <2>4 DEF KeepsUp
<1> QED BY <1>3, <1>5, <1>6, <1>7 DEF RoundsKeepUp, KeepsUp, CanWait

\* The handshake, the disconnect and the check of one socket.
LEMMA SocketStepKeepsUp ==
  ASSUME TypeOK, TypeOK', RoundsKeepUp, HandshakesAreFresh, NEW s \in Sockets,
         Handshake(s) \/ RoundStep(s) \/ Close(s) \/ CloseEarly(s)
  PROVE  RoundsKeepUp'
<1> USE ConstantsAssumption
<1>1. ASSUME UNCHANGED <<round, revoked, jitter, node, timer>>, held \subseteq held',
             NEW p, Move(s, p), excused \subseteq excused',
             \A t \in Sockets \ {s} : lease'[t] = lease[t],
             p = "connected" => CanWait(s, 3 * Interval)'
      PROVE  RoundsKeepUp'
  <2>1. \A t \in Sockets \ {s} : phase'[t] = phase[t]
    BY <1>1 DEF Move, TypeOK
  <2>2. phase'[s] = p
    BY <1>1 DEF Move, TypeOK
  <2>3. \A n \in Nodes : InFlight(n)' => InFlight(n)
    BY <1>1 DEF InFlight
  <2> QED BY <1>1, <2>1, <2>2, <2>3, OneSocket
<1>2. CASE Acquire(s)
  <2>1. Calls(s, Acquired(s)) /\ revoked[SessionOf[s]] = 0
    BY <1>2 DEF Acquire, Valid
  <2>2. excused \subseteq excused' /\ \A t \in Sockets \ {s} : lease'[t] = lease[t]
    BY <2>1, CallType
  <2>3. faults' # faults => CanWait(s, 3 * Interval)'
    <3>1. faults' # faults => s \in excused'
      BY <2>1, CallType
    <3> QED BY <1>2, <2>1, <3>1 DEF Acquire, CanWait
  <2> QED BY <1>1, <1>2, <2>2, <2>3 DEF Acquire
<1>3. CASE Refuse(s)
  BY <1>1, <1>3 DEF Refuse
<1>4. CASE Connect(s)
  <2>1. revoked[SessionOf[s]] <= 1 /\ (s \notin excused => lease[s] = LeaseTtl)
    BY <1>4 DEF Connect, HandshakesAreFresh
  <2>2. CanWait(s, 3 * Interval)'
    <3>1. UNCHANGED <<lease, revoked>> /\ s \in held' /\ (s \notin excused' => s \notin excused)
      BY <1>4 DEF Connect
    <3>2. revoked[SessionOf[s]] \in Int
      BY DEF TypeOK
    <3> QED BY <2>1, <3>1, <3>2 DEF CanWait, RenewalsAreTimely
  <2>3. excused \subseteq excused' /\ held \subseteq held' /\ \E p : Move(s, p)
    BY <1>4 DEF Connect
  <2> QED BY <1>1, <1>4, <2>2, <2>3 DEF Connect
<1>5. CASE Reject(s)
  <2>1. Calls(s, Released(s)) /\ revoked[SessionOf[s]] <= 1
    BY <1>5 DEF Reject, HandshakesAreFresh
  <2>2. excused \subseteq excused' /\ \A t \in Sockets \ {s} : lease'[t] = lease[t]
    BY <2>1, CallType
  <2>3. faults' # faults => CanWait(s, 3 * Interval)'
    <3>1. faults' # faults => s \in excused'
      BY <2>1, CallType
    <3>2. revoked[SessionOf[s]] \in Int
      BY DEF TypeOK
    <3> QED BY <1>5, <2>1, <3>1, <3>2 DEF Reject, CanWait
  <2> QED BY <1>1, <1>5, <2>2, <2>3 DEF Reject
<1>6. CASE Close(s)
  <2>1. excused \subseteq excused' /\ \A t \in Sockets \ {s} : lease'[t] = lease[t]
    BY <1>6, CallType DEF Close
  <2> QED BY <1>1, <1>6, <2>1 DEF Close
<1>7. CASE CloseEarly(s)
  <2>1. phase'[s] # "connected" /\ UNCHANGED <<phase, round, lease>>
    BY <1>7 DEF CloseEarly
  <2>2. \A n \in Nodes : InFlight(n)' => InFlight(n)
    BY <2>1 DEF InFlight
  <2> QED BY <1>7, <2>1, <2>2, OneSocket DEF CloseEarly
<1>8. CASE EnterLimiter(s)
  <2>1. \A t \in Sockets \ {s} : round'[t] = round[t]
    BY <1>8 DEF EnterLimiter, TypeOK
  <2>2. round'[s] \in {"checking", "queued"}
    BY <1>8 DEF EnterLimiter, TypeOK
  <2>3. \A n \in Nodes : InFlight(n)' => InFlight(n)
    BY <1>8, <2>1 DEF InFlight, EnterLimiter
  <2>4. phase'[s] = "connected" => CanWait(s, 0)'
    BY <1>8 DEF RoundsKeepUp, EnterLimiter, CanWait
  <2>5. \A t \in Sockets : round'[t] = "jitter" => round[t] = "jitter"
    BY <2>1, <2>2
  <2>6. UNCHANGED <<phase, lease, revoked, jitter, node, timer, held, excused>>
    BY <1>8 DEF EnterLimiter
  <2>7. \A t \in Sockets \ {s} : round'[t] \in {"none", "done"} => round[t] \in {"none", "done"}
    BY <2>1
  <2>8. phase'[s] = "connected" => CanWait(s, 0)' /\ round'[s] \notin Between
    BY <2>2, <2>4 DEF Between
  <2> QED BY <2>3, <2>5, <2>6, <2>7, <2>8, OneSocket
<1>9. CASE Revalidate(s)
  <2>1. PICK r \in PassSlot(s) : round' = Settled(Home[s], r) /\ round[s] = "checking"
    BY <1>9 DEF Revalidate
  <2>2. /\ r \in [Sockets -> {"none", "jitter", "queued", "checking", "done"}]
        /\ r[s] = "done"
        /\ \A t \in Sockets \ {s} : r[t] = round[t] \/ (round[t] = "queued" /\ r[t] = "checking")
    <3>1. /\ r \in [Sockets -> {"none", "jitter", "queued", "checking", "done"}]
          /\ r[s] = "done"
      BY <2>1, PassType
    <3>2. CASE r = [round EXCEPT ![s] = "done"]
      BY <3>1, <3>2 DEF TypeOK
    <3>3. ASSUME NEW u \in At(Home[s]), round[u] = "queued",
                 r = [round EXCEPT ![s] = "done", ![u] = "checking"]
          PROVE  \A t \in Sockets \ {s} : r[t] = round[t] \/ (round[t] = "queued" /\ r[t] = "checking")
      BY <3>3 DEF TypeOK, At
    <3> QED BY <2>1, <3>1, <3>2, <3>3, PassType
  <2>3. \A t \in Sockets : round'[t] = "jitter" => round[t] = "jitter"
    BY <2>1, <2>2, SettledType
  <2>4. \A t \in Sockets \ {s} : round'[t] \in {"none", "done"} => round[t] \in {"none", "done"}
    BY <2>1, <2>2, SettledType
  <2>5. \A n \in Nodes : InFlight(n)' => InFlight(n)
    <3> SUFFICES ASSUME NEW n \in Nodes, NEW t \in At(n), round'[t] # "none"
                 PROVE  InFlight(n)
      BY DEF InFlight, At
    <3>1. t \in Sockets /\ r[t] # "none"
      BY <2>1, <2>2, SettledType DEF At
    <3>2. round[t] # "none"
      BY <2>1, <2>2, <3>1
    <3> QED BY <3>2 DEF InFlight
  <2>6. UNCHANGED <<revoked, jitter, node, timer, held>>
    BY <1>9 DEF Revalidate
  <2>7. excused \subseteq excused' /\ \A t \in Sockets \ {s} : lease'[t] = lease[t]
    <3>1. CASE Calls(s, Renewed(s)) \/ Calls(s, LetGo(s))
      BY <3>1, CallType
    <3>2. CASE /\ lease' \in {Renewed(s), LetGo(s), lease}
               /\ excused' \in {excused, excused \cup ({s} \cap held)}
      BY <3>2, ScriptType
    <3> QED BY <1>9, <3>1, <3>2 DEF Revalidate
  <2>8. \A t \in Sockets \ {s} : phase'[t] = phase[t]
    BY <1>9 DEF Revalidate, Move, TypeOK
  <2>9. phase'[s] = "connected" => CanWait(s, 3 * Interval)'
    <3> SUFFICES ASSUME phase'[s] = "connected" PROVE CanWait(s, 3 * Interval)'
      OBVIOUS
    <3>1. /\ Valid(s) /\ phase[s] = "connected" /\ Calls(s, Renewed(s))
      BY <1>9 DEF Revalidate, Move, TypeOK, SessionHolds
    <3>2. CanWait(s, 0)
      BY <3>1 DEF RoundsKeepUp
    <3>3. s \in excused' \/ (lease' = Renewed(s) /\ s \notin excused)
      BY <3>1, CallType
    <3>4. RenewalsAreTimely /\ s \notin excused' => s \in held' /\ lease'[s] > 3 * Interval
      BY <2>6, <3>2, <3>3 DEF CanWait, Renewed, Acquired, RenewalsAreTimely, TypeOK
    <3> QED BY <2>6, <3>1, <3>4 DEF CanWait, Valid
  <2> QED BY <2>3, <2>4, <2>5, <2>6, <2>7, <2>8, <2>9, OneSocket
<1> QED BY <1>2, <1>3, <1>4, <1>5, <1>6, <1>7, <1>8, <1>9 DEF Handshake, RoundStep

\* What RoundsKeepUp says of one socket.
Waits(s) ==
  phase[s] = "connected" =>
    CanWait(s, 0) /\ (round[s] = "jitter" /\ node[Home[s]] = "up" => CanWait(s, jitter[s]))

\* RoundsKeepUp, socket by socket and replica by replica.
LEMMA KeepingUp ==
  RoundsKeepUp <=> /\ \A s \in Sockets : Waits(s)
                   /\ \A n \in Nodes : node[n] = "up" => KeepsUp(n)
BY DEF RoundsKeepUp, Waits, KeepsUp

\* A step of one replica disturbs no other.
LEMMA Elsewhere ==
  ASSUME TypeOK, RoundsKeepUp, NEW n \in Nodes,
         UNCHANGED <<held, revoked>>, excused \subseteq excused',
         \A t \in Sockets \ At(n) : phase'[t] = phase[t] /\ lease'[t] = lease[t]
                                    /\ round'[t] = round[t] /\ jitter'[t] = jitter[t],
         \A m \in Nodes \ {n} : timer'[m] = timer[m] /\ node'[m] = node[m]
  PROVE  /\ \A t \in Sockets \ At(n) : Waits(t)'
         /\ \A m \in Nodes \ {n} : node'[m] = "up" => KeepsUp(m)'
<1> USE ConstantsAssumption
<1>1. \A t \in Sockets \ At(n) : \A d \in Int : CanWait(t, d) => CanWait(t, d)'
  BY DEF CanWait
<1>2. \A t \in Sockets \ At(n) : Home[t] \in Nodes \ {n} /\ jitter[t] \in Int
  BY DEF At, TypeOK
<1>3. \A t \in Sockets : Waits(t)
  BY KeepingUp
<1>4. \A t \in Sockets \ At(n) : Waits(t)'
  <2> SUFFICES ASSUME NEW t \in Sockets \ At(n) PROVE Waits(t)'
    OBVIOUS
  <2>1. CanWait(t, 0) => CanWait(t, 0)'
    BY <1>1
  <2>2. CanWait(t, jitter[t]) => CanWait(t, jitter[t])'
    BY <1>1, <1>2 DEF CanWait
  <2>3. /\ phase'[t] = phase[t] /\ round'[t] = round[t]
        /\ node'[Home[t]] = node[Home[t]]
    BY <1>2
  <2> QED BY <1>3, <2>1, <2>2, <2>3 DEF Waits
<1>5. ASSUME NEW m \in Nodes \ {n}, node'[m] = "up" PROVE KeepsUp(m)'
  <2>1. \A t \in At(m) : t \in Sockets \ At(n)
    BY <1>5 DEF At
  <2>2. ASSUME NEW d \in Int, IdleCanWait(m, d) PROVE IdleCanWait(m, d)'
    <3> SUFFICES ASSUME NEW t \in At(m), phase'[t] = "connected", Idle(t)'
                 PROVE  CanWait(t, timer[m] + d)'
      BY DEF IdleCanWait, At
    <3>1. phase[t] = "connected" /\ Idle(t) /\ timer[m] + d \in Int
      BY <1>5, <2>1 DEF Idle, TypeOK
    <3>2. CanWait(t, timer[m] + d)
      BY <2>2, <3>1 DEF IdleCanWait
    <3> QED BY <1>5, <2>1, <3>2 DEF CanWait
  <2>3. InItsPeriod(m) => InItsPeriod(m)'
    BY <1>5, <2>1 DEF InItsPeriod, At
  <2>4. Overdue(m) => Overdue(m)'
    BY <1>5, <2>1 DEF Overdue, InFlight, At
  <2>5. KeepsUp(m)
    BY <1>5, KeepingUp
  <2> QED BY <2>2, <2>3, <2>4, <2>5 DEF KeepsUp
<1> QED BY <1>4, <1>5

\* A replica that stops, closes or crashes starts no more rounds.
LEMMA EndKeepsUp ==
  ASSUME TypeOK, RoundsKeepUp, NEW n \in Nodes, Stop(n) \/ Down(n) \/ Crash(n)
  PROVE  RoundsKeepUp'
<1> USE ConstantsAssumption
<1>1. CASE Stop(n)
  <2> DEFINE r == [s \in Sockets |-> IF s \in At(n) /\ round[s] = "jitter"
                                       THEN "done" ELSE round[s]]
  <2>1. r \in [Sockets -> {"none", "jitter", "queued", "checking", "done"}]
        /\ \A t \in Sockets \ At(n) : r[t] = round[t]
    BY DEF TypeOK
  <2>2. round' = Settled(n, r)
    BY <1>1 DEF Stop
  <2> HIDE DEF r
  <2>3. \A t \in Sockets \ At(n) : round'[t] = round[t] /\ jitter'[t] = jitter[t]
    BY <1>1, <2>1, <2>2, SettledType DEF Stop
  <2>4. node'[n] = "stopping" /\ \A m \in Nodes \ {n} : node'[m] = node[m]
    BY <1>1 DEF Stop, TypeOK
  <2>5. \A t \in At(n) : Waits(t)'
    <3>1. \A t \in At(n) : t \in Sockets /\ node'[Home[t]] # "up"
      BY <2>4 DEF At
    <3>2. \A t \in At(n) : phase'[t] = "connected" => CanWait(t, 0)'
      BY <1>1, <3>1 DEF Stop, RoundsKeepUp, CanWait
    <3> QED BY <3>1, <3>2 DEF Waits
  <2>6. /\ \A t \in Sockets \ At(n) : Waits(t)'
        /\ \A m \in Nodes \ {n} : node'[m] = "up" => KeepsUp(m)'
    BY <1>1, <2>3, <2>4, Elsewhere DEF Stop
  <2>7. /\ \A t \in Sockets : Waits(t)'
        /\ \A m \in Nodes : node'[m] = "up" => KeepsUp(m)'
    BY <2>4, <2>5, <2>6
  <2> QED BY <2>7 DEF RoundsKeepUp, Waits, KeepsUp
<1>2. CASE Down(n) \/ Crash(n)
  <2>1. Vanish(n) /\ excused \subseteq excused'
        /\ \A t \in Sockets \ At(n) : lease'[t] = lease[t]
    BY <1>2 DEF Down, Crash, ReleasedOnShutdown
  <2>2. \A t \in Sockets \ At(n) : phase'[t] = phase[t] /\ round'[t] = round[t]
                                   /\ jitter'[t] = jitter[t]
    BY <2>1 DEF Vanish
  <2>3. node'[n] = "down" /\ \A m \in Nodes \ {n} : node'[m] = node[m]
    BY <2>1 DEF Vanish, TypeOK
  <2>4. \A t \in At(n) : Waits(t)'
    BY <2>1 DEF Vanish, Waits, At
  <2>5. UNCHANGED <<held, revoked, timer>>
    BY <2>1 DEF Vanish
  <2>6. /\ \A t \in Sockets \ At(n) : Waits(t)'
        /\ \A m \in Nodes \ {n} : node'[m] = "up" => KeepsUp(m)'
    BY <2>1, <2>2, <2>3, <2>5, Elsewhere
  <2>7. /\ \A t \in Sockets : Waits(t)'
        /\ \A m \in Nodes : node'[m] = "up" => KeepsUp(m)'
    BY <2>3, <2>4, <2>6
  <2> QED BY <2>7 DEF RoundsKeepUp, Waits, KeepsUp
<1> QED BY <1>1, <1>2

\* A session that held until now leaves every socket three intervals.
LEMMA RevokeKeepsUp ==
  ASSUME TypeOK, RoundsKeepUp, NEW x \in Sessions, Revoke(x)
  PROVE  RoundsKeepUp'
<1> USE ConstantsAssumption
<1>1. UNCHANGED <<phase, held, lease, round, jitter, node, timer, excused>>
      /\ revoked[x] = 0 /\ revoked' = [revoked EXCEPT ![x] = 1]
  BY DEF Revoke
<1>2. \A t \in Sockets : \A d \in 0..3 * Interval : CanWait(t, d) => CanWait(t, d)'
  BY <1>1 DEF CanWait, TypeOK
<1>3. /\ \A t \in Sockets : 0 \in 0..3 * Interval /\ jitter[t] \in 0..3 * Interval
      /\ \A n \in Nodes : timer[n] + Interval \in 0..3 * Interval
                          /\ timer[n] + 2 * Interval \in 0..3 * Interval
  BY DEF TypeOK
<1>4. \A t \in Sockets : Waits(t)'
  <2> SUFFICES ASSUME NEW t \in Sockets PROVE Waits(t)'
    OBVIOUS
  <2>1. CanWait(t, 0) => CanWait(t, 0)'
    BY <1>2, <1>3
  <2>2. CanWait(t, jitter[t]) => CanWait(t, jitter[t])'
    BY <1>1, <1>2, <1>3 DEF CanWait
  <2>3. Waits(t)
    BY KeepingUp
  <2> QED BY <1>1, <2>1, <2>2, <2>3 DEF Waits
<1>5. ASSUME NEW n \in Nodes, node'[n] = "up" PROVE KeepsUp(n)'
  <2>1. ASSUME NEW d \in {Interval, 2 * Interval}, IdleCanWait(n, d) PROVE IdleCanWait(n, d)'
    <3> SUFFICES ASSUME NEW t \in At(n), phase'[t] = "connected", Idle(t)'
                 PROVE  CanWait(t, timer[n] + d)'
      BY DEF IdleCanWait, At
    <3>1. phase[t] = "connected" /\ Idle(t) /\ timer[n] + d \in 0..3 * Interval /\ t \in Sockets
      BY <1>1, <1>3, <2>1 DEF Idle, At
    <3>2. CanWait(t, timer[n] + d)
      BY <2>1, <3>1 DEF IdleCanWait
    <3> QED BY <1>1, <1>2, <3>1, <3>2 DEF CanWait
  <2>2. InItsPeriod(n) => InItsPeriod(n)'
    BY <1>1 DEF InItsPeriod, At
  <2>3. Overdue(n) => Overdue(n)'
    BY <1>1 DEF Overdue, InFlight, At
  <2>4. KeepsUp(n)
    BY <1>1, <1>5, KeepingUp
  <2> QED BY <2>1, <2>2, <2>3, <2>4 DEF KeepsUp
<1> QED BY <1>4, <1>5 DEF RoundsKeepUp, Waits, KeepsUp

\* A round that starts gives every socket a jitter of at most one interval; a tick
\* that a round in flight skips finds no jitter left in it.
LEMMA RoundTickKeepsUp ==
  ASSUME TypeOK, TypeOK', RoundsKeepUp, NEW n \in Nodes, RoundTick(n)
  PROVE  RoundsKeepUp'
<1> USE ConstantsAssumption
<1> DEFINE connected == {s \in At(n) : phase[s] = "connected"}
<1>1. /\ UNCHANGED <<phase, held, lease, revoked, node, excused>>
      /\ node[n] = "up" /\ timer[n] = 0 /\ timer'[n] = Interval
      /\ \A m \in Nodes \ {n} : timer'[m] = timer[m]
  BY DEF RoundTick, TypeOK
<1>2. \A t \in Sockets : \A d \in Int : CanWait(t, d) => CanWait(t, d)'
  BY <1>1 DEF CanWait
<1>3. \A t \in At(n) : t \in Sockets /\ node[Home[t]] = "up" /\ jitter[t] \in 0..Interval
                       /\ jitter'[t] \in 0..Interval
  BY <1>1 DEF At, TypeOK
<1>4. KeepsUp(n) /\ \A t \in Sockets : Waits(t)
  BY <1>1, KeepingUp
<1>5. CASE InFlight(n) /\ UNCHANGED <<round, jitter>>
  <2>1. InItsPeriod(n) /\ IdleCanWait(n, 2 * Interval)
    BY <1>1, <1>4, <1>5 DEF KeepsUp, Overdue
  <2>2. Overdue(n)'
    BY <1>1, <1>3, <1>5, <2>1 DEF InItsPeriod, Overdue, At
  <2>3. IdleCanWait(n, Interval)'
    <3> SUFFICES ASSUME NEW t \in At(n), phase'[t] = "connected", Idle(t)'
                 PROVE  CanWait(t, timer[n] + Interval)'
      BY DEF IdleCanWait, At
    <3>1. CanWait(t, timer[n] + 2 * Interval)
      BY <1>1, <1>5, <2>1 DEF IdleCanWait, Idle
    <3>2. timer'[n] + Interval = timer[n] + 2 * Interval
      BY <1>1
    <3> QED BY <1>1, <3>1, <3>2 DEF CanWait
  <2>4. \A t \in At(n) : Waits(t)'
    <3> SUFFICES ASSUME NEW t \in At(n) PROVE Waits(t)'
      OBVIOUS
    <3>1. CanWait(t, 0) => CanWait(t, 0)'
      BY <1>2, <1>3
    <3>2. CanWait(t, jitter[t]) => CanWait(t, jitter[t])'
      BY <1>1, <1>5 DEF CanWait
    <3> QED BY <1>1, <1>3, <1>4, <1>5, <3>1, <3>2 DEF Waits
  <2>5. /\ \A t \in Sockets \ At(n) : Waits(t)'
        /\ \A m \in Nodes \ {n} : node'[m] = "up" => KeepsUp(m)'
    BY <1>1, <1>5, Elsewhere
  <2> QED BY <2>2, <2>3, <2>4, <2>5 DEF RoundsKeepUp, Waits, KeepsUp
<1>6. CASE ~InFlight(n) /\ ~UNCHANGED <<round, jitter>>
  <2>1. /\ round' = [s \in Sockets |-> IF s \in connected THEN "jitter" ELSE round[s]]
        /\ \A t \in Sockets \ connected : jitter'[t] = jitter[t]
    BY <1>6 DEF RoundTick
  <2>2. \A t \in At(n) : round[t] = "none"
    BY <1>6 DEF InFlight
  <2>3. ASSUME NEW t \in At(n), phase[t] = "connected" PROVE CanWait(t, jitter[t])' /\ CanWait(t, 0)'
    <3>1. CanWait(t, 2 * Interval) \/ CanWait(t, Interval)
      <4>1. timer[n] + 2 * Interval = 2 * Interval /\ timer[n] + Interval = Interval
        BY <1>1
      <4> QED BY <1>4, <2>2, <2>3, <4>1 DEF KeepsUp, IdleCanWait, Idle
    <3>2. ASSUME NEW d \in 0..Interval PROVE CanWait(t, d)
      BY <1>3, <3>1, WaitLess
    <3> QED BY <1>1, <1>3, <3>2 DEF CanWait
  <2>4. InItsPeriod(n)'
    BY <1>1, <1>3 DEF InItsPeriod, At
  <2>5. IdleCanWait(n, 2 * Interval)'
    BY <1>1, <2>1 DEF IdleCanWait, Idle, At
  <2>6. \A t \in At(n) : Waits(t)'
    BY <1>1, <2>3 DEF Waits, At
  <2>7. \A t \in Sockets \ At(n) : round'[t] = round[t] /\ jitter'[t] = jitter[t]
    BY <2>1 DEF At
  <2>8. /\ \A t \in Sockets \ At(n) : Waits(t)'
        /\ \A m \in Nodes \ {n} : node'[m] = "up" => KeepsUp(m)'
    BY <1>1, <2>7, Elsewhere
  <2> QED BY <2>4, <2>5, <2>6, <2>8 DEF RoundsKeepUp, Waits, KeepsUp
<1>7. CASE ~InFlight(n) /\ UNCHANGED <<round, jitter>>
  <2>1. connected = {}
    BY <1>7 DEF RoundTick, InFlight, At, TypeOK
  <2>2. \A t \in At(n) : Waits(t)'
    BY <1>1, <2>1 DEF Waits, At
  <2>3. InItsPeriod(n)' /\ IdleCanWait(n, 2 * Interval)'
    BY <1>1, <1>3, <2>1 DEF InItsPeriod, IdleCanWait, At
  <2>4. /\ \A t \in Sockets \ At(n) : Waits(t)'
        /\ \A m \in Nodes \ {n} : node'[m] = "up" => KeepsUp(m)'
    BY <1>1, <1>7, Elsewhere
  <2> QED BY <2>2, <2>3, <2>4 DEF RoundsKeepUp, Waits, KeepsUp
<1> QED BY <1>5, <1>6, <1>7 DEF RoundTick

\* A unit of the clock takes one unit from what every socket can wait and from what
\* it has to wait for.
LEMMA TickKeepsUp ==
  ASSUME TypeOK, TypeOK', RoundsKeepUp, RoundsEnd, DownIsEmpty, Tick
  PROVE  RoundsKeepUp'
<1> USE ConstantsAssumption
<1>1. UNCHANGED <<phase, held, round, node, excused>>
  BY DEF Tick
<1>2. /\ \A t \in Sockets : round[t] \in {"none", "done"}
                            \/ (round[t] = "jitter" /\ jitter[t] > 0)
      /\ \A n \in Nodes : node[n] # "stopping" /\ (node[n] = "up" => timer[n] > 0)
  BY DEF Tick, Quiet, TypeOK
<1>3. \A t \in Sockets : /\ jitter[t] \in 0..Interval
                         /\ jitter[t] > 0 => jitter'[t] = jitter[t] - 1
                         /\ jitter[t] = 0 => jitter'[t] = 0
  BY DEF Tick, Less, TypeOK
<1>4. \A n \in Nodes : node[n] = "up" => timer[n] \in 1..Interval /\ timer'[n] = timer[n] - 1
  BY <1>2 DEF Tick, Less, TypeOK
<1> DEFINE Lasts(t, d) == /\ RenewalsAreTimely /\ t \notin excused' => t \in held' /\ lease'[t] > d
                          /\ revoked'[SessionOf[t]] + d <= 3 * Interval + 1
<1>5. ASSUME NEW t \in Sockets, NEW d \in Nat \ {0}, CanWait(t, d)
      PROVE  Lasts(t, d - 1) /\ Lasts(t, 0)
  <2>1. /\ lease[t] \in Nat /\ lease'[t] = Less(lease[t])
        /\ revoked[SessionOf[t]] \in Nat
        /\ revoked'[SessionOf[t]] \in {revoked[SessionOf[t]], revoked[SessionOf[t]] + 1}
    BY DEF Tick, TypeOK
  <2> QED BY <1>1, <1>5, <2>1 DEF CanWait, Less
<1>6. ASSUME NEW n \in Nodes, node[n] = "up", NEW d \in {Interval, 2 * Interval}, IdleCanWait(n, d)
      PROVE  IdleCanWait(n, d)' /\ \A t \in At(n) : phase[t] = "connected" /\ Idle(t) => CanWait(t, 0)'
  <2> SUFFICES ASSUME NEW t \in At(n), phase[t] = "connected", Idle(t)
               PROVE  CanWait(t, timer[n] + d)' /\ CanWait(t, 0)'
    BY <1>1 DEF IdleCanWait, Idle, At
  <2>1. timer[n] + d \in Nat \ {0} /\ t \in Sockets /\ timer'[n] + d = (timer[n] + d) - 1
    BY <1>4, <1>6 DEF At
  <2>2. CanWait(t, timer[n] + d)
    BY <1>6 DEF IdleCanWait
  <2>3. Lasts(t, (timer[n] + d) - 1) /\ Lasts(t, 0)
    BY <1>5, <2>1, <2>2
  <2> QED BY <2>1, <2>3 DEF CanWait
<1>7. ASSUME NEW n \in Nodes, node[n] = "up"
      PROVE  KeepsUp(n)' /\ \A t \in At(n) : phase[t] = "connected" /\ Idle(t) => CanWait(t, 0)'
  <2>1. InItsPeriod(n) => InItsPeriod(n)'
    BY <1>1, <1>2, <1>3, <1>4, <1>7 DEF InItsPeriod, At
  <2>2. Overdue(n) => Overdue(n)'
    <3>1. Overdue(n) => ~InFlight(n)
      BY <1>2, <1>3 DEF Overdue, RoundsEnd, Idle, At
    <3> QED BY <1>1, <3>1 DEF Overdue, InFlight
  <2>3. KeepsUp(n)
    BY <1>7, KeepingUp
  <2> QED BY <1>6, <1>7, <2>1, <2>2, <2>3 DEF KeepsUp
<1>8. ASSUME NEW t \in Sockets PROVE Waits(t)'
  <2> SUFFICES ASSUME phase[t] = "connected"
               PROVE  CanWait(t, 0)' /\ (round[t] = "jitter" => CanWait(t, jitter[t])')
    BY <1>1 DEF Waits
  <2>1. Home[t] \in Nodes /\ node[Home[t]] = "up" /\ t \in At(Home[t])
    BY <1>2 DEF DownIsEmpty, TypeOK, At
  <2>2. CASE Idle(t)
    BY <1>7, <2>1, <2>2 DEF Idle
  <2>3. CASE round[t] = "jitter"
    <3>1. jitter[t] \in Nat \ {0} /\ jitter'[t] = jitter[t] - 1
      BY <1>2, <1>3, <2>3
    <3>2. CanWait(t, jitter[t])
      BY <2>1, <2>3 DEF RoundsKeepUp
    <3>3. Lasts(t, jitter[t] - 1) /\ Lasts(t, 0)
      BY <1>5, <3>1, <3>2
    <3> QED BY <3>1, <3>3 DEF CanWait
  <2> QED BY <1>2, <2>2, <2>3 DEF Idle
<1> QED BY <1>1, <1>7, <1>8 DEF RoundsKeepUp, Waits, KeepsUp

\* RoundsKeepUp is preserved by every step.
LEMMA RoundsKeepUpStep ==
  ASSUME TypeOK, TypeOK', RoundsKeepUp, HandshakesAreFresh, RoundsEnd, DownIsEmpty, [Next]_vars
  PROVE  RoundsKeepUp'
<1>1. CASE UNCHANGED vars
  BY <1>1 DEF vars, RoundsKeepUp, CanWait, InItsPeriod, Overdue, InFlight, IdleCanWait, Idle, At
<1> QED BY <1>1, SocketStepKeepsUp, RevokeKeepsUp, RoundTickKeepsUp, EndKeepsUp, TickKeepsUp DEF Next

----------------------------------------------------------------------------
(* The cap.                                                                *)

\* A step that counts nobody keeps the cap.
LEMMA CountedShrinks ==
  ASSUME Cardinality(Counted) <= Limit, Counted' \subseteq Counted
  PROVE  Cardinality(Counted') <= Limit
<1>1. IsFiniteSet(Counted)
  BY ConstantsAssumption, FS_Subset DEF Counted
<1>2. /\ Cardinality(Counted') <= Cardinality(Counted)
      /\ Cardinality(Counted) \in Nat /\ Cardinality(Counted') \in Nat
  BY <1>1, FS_Subset, FS_CardinalityType
<1> QED BY <1>2, ConstantsAssumption

\* Every socket that counts still has its lease when the next one is counted, and the
\* script counts the leases.
LEMMA CapStep ==
  ASSUME TypeOK, TypeOK', RoundsKeepUp, HandshakesAreFresh, RenewalsAreTimely,
         Cardinality(Counted) <= Limit, [Next]_vars
  PROVE  Cardinality(Counted') <= Limit
<1> USE ConstantsAssumption
<1>1. ASSUME excused \subseteq excused',
             \A t \in Sockets : phase'[t] \in {"counted", "connected"} =>
               phase[t] \in {"counted", "connected"} \/ t \in excused'
      PROVE  Cardinality(Counted') <= Limit
  BY <1>1, CountedShrinks DEF Counted
<1>2. ASSUME UNCHANGED phase, excused \subseteq excused' PROVE Cardinality(Counted') <= Limit
  BY <1>1, <1>2
<1>3. ASSUME NEW s \in Sockets, NEW p, Move(s, p), excused \subseteq excused',
             p = "gone" \/ phase[s] = "counted" \/ s \in excused'
      PROVE  Cardinality(Counted') <= Limit
  BY <1>1, <1>3 DEF Move, TypeOK
<1>4. ASSUME NEW s \in Sockets, Acquire(s) PROVE Cardinality(Counted') <= Limit
  <2>1. Calls(s, Acquired(s))
    BY <1>4 DEF Acquire
  <2>2. CASE faults' # faults
    <3>1. s \in excused' /\ excused \subseteq excused'
      BY <2>1, <2>2, CallType
    <3> QED BY <1>3, <1>4, <3>1 DEF Acquire
  <2>3. CASE faults' = faults
    <3>1. lease' = Acquired(s) /\ UNCHANGED excused
      BY <2>1, <2>3 DEF Calls, TypeOK
    <3>2. CASE OverLimit(lease')
      <4>1. \A t \in Sockets : phase'[t] = IF t = s THEN "over" ELSE phase[t]
        BY <1>4, <2>3, <3>2 DEF Acquire, Move, TypeOK
      <4> QED BY <1>1, <3>1, <4>1
    <3>3. CASE ~OverLimit(lease')
      <4>1. \A t \in Counted : t \in Sockets /\ lease[t] > 0
        <5> SUFFICES ASSUME NEW t \in Counted PROVE lease[t] > 0
          BY DEF Counted
        <5>1. CASE phase[t] = "connected"
          BY <5>1 DEF Counted, RoundsKeepUp, CanWait
        <5>2. CASE phase[t] = "counted"
          BY <5>2 DEF Counted, HandshakesAreFresh, RenewalsAreTimely
        <5> QED BY <5>1, <5>2 DEF Counted
      <4>2. \A t \in Counted \cup {s} : t \in Sockets /\ lease'[t] > 0
        BY <3>1, <4>1 DEF Acquired, TypeOK, RenewalsAreTimely
      <4>3. Counted' \subseteq Counted \cup {s}
        BY <1>4, <3>1 DEF Acquire, Move, Counted, TypeOK
      <4>4. Counted' \subseteq Leased(lease') /\ IsFiniteSet(Leased(lease'))
        BY <4>2, <4>3, FS_Subset DEF Leased
      <4>5. /\ Cardinality(Counted') <= Cardinality(Leased(lease'))
            /\ Cardinality(Counted') \in Nat /\ Cardinality(Leased(lease')) \in Nat
        BY <4>4, FS_Subset, FS_CardinalityType
      <4> QED BY <3>3, <4>5 DEF OverLimit
    <3> QED BY <3>2, <3>3
  <2> QED BY <2>2, <2>3
<1>5. ASSUME NEW s \in Sockets, Refuse(s) PROVE Cardinality(Counted') <= Limit
  BY <1>3, <1>5 DEF Refuse
<1>6. ASSUME NEW s \in Sockets, Connect(s) PROVE Cardinality(Counted') <= Limit
  BY <1>3, <1>6 DEF Connect
<1>7. ASSUME NEW s \in Sockets, Reject(s) PROVE Cardinality(Counted') <= Limit
  <2>1. Calls(s, Released(s))
    BY <1>7 DEF Reject
  <2>2. excused \subseteq excused' /\ (faults' # faults => s \in excused')
    BY <2>1, CallType
  <2> QED BY <1>3, <1>7, <2>2 DEF Reject
<1>8. ASSUME NEW s \in Sockets, Close(s) PROVE Cardinality(Counted') <= Limit
  <2>1. excused \subseteq excused'
    BY <1>8, CallType DEF Close
  <2> QED BY <1>3, <1>8, <2>1 DEF Close
<1>9. ASSUME NEW s \in Sockets, Revalidate(s) PROVE Cardinality(Counted') <= Limit
  <2>1. excused \subseteq excused'
    BY <1>9, CallType DEF Revalidate
  <2>2. UNCHANGED phase \/ Move(s, "gone")
    BY <1>9 DEF Revalidate
  <2> QED BY <1>2, <1>3, <2>1, <2>2
<1>10. ASSUME NEW n \in Nodes, Down(n) \/ Crash(n) PROVE Cardinality(Counted') <= Limit
  <2>1. Vanish(n) /\ excused \subseteq excused'
    BY <1>10 DEF Down, Crash
  <2> QED BY <1>1, <2>1 DEF Vanish
<1>11. CASE Tick \/ (\E s \in Sockets : CloseEarly(s) \/ EnterLimiter(s))
             \/ (\E x \in Sessions : Revoke(x))
             \/ (\E n \in Nodes : RoundTick(n) \/ Stop(n)) \/ UNCHANGED vars
  <2>1. UNCHANGED <<phase, excused>>
    BY <1>11 DEF Tick, CloseEarly, EnterLimiter, Revoke, RoundTick, Stop, vars
  <2> QED BY <1>2, <2>1
<1> QED BY <1>4, <1>5, <1>6, <1>7, <1>8, <1>9, <1>10, <1>11 DEF Next, Handshake, RoundStep

----------------------------------------------------------------------------
(* The theorems.                                                           *)

\* The first states satisfy the invariant.
LEMMA InitInv == Init => IInv
<1> USE ConstantsAssumption
<1> SUFFICES ASSUME Init PROVE IInv
  OBVIOUS
<1>1. TypeOK
  BY DEF Init, TypeOK, TooLate
<1>2. RoundsKeepUp
  BY DEF Init, RoundsKeepUp, InItsPeriod, IdleCanWait, At
<1>3. HandshakesAreFresh /\ RoundsEnd /\ DownIsEmpty
  BY DEF Init, HandshakesAreFresh, RoundsEnd, InFlight, DownIsEmpty, At, TypeOK
<1>4. SlotsAreBounded /\ WaitersFillTheSlots
  <2>1. \A n \in Nodes : Checking(n) = {} /\ \A s \in At(n) : round[s] # "queued"
    BY DEF Init, Checking, At
  <2>2. \A n \in Nodes : Cardinality(Checking(n)) = 0
    BY <2>1, FS_EmptySet
  <2> QED BY <2>1, <2>2 DEF SlotsAreBounded, WaitersFillTheSlots
<1>5. Cardinality(Counted) <= Limit
  <2>1. Counted = {}
    BY DEF Init, Counted
  <2>2. Cardinality(Counted) = 0
    BY <2>1, FS_EmptySet
  <2> QED BY <2>2
<1> QED BY <1>1, <1>2, <1>3, <1>4, <1>5 DEF IInv

\* Every step preserves the invariant.
LEMMA StepInv == IInv /\ [Next]_vars => IInv'
<1> SUFFICES ASSUME IInv, [Next]_vars PROVE IInv'
  OBVIOUS
<1>1. TypeOK /\ RoundsKeepUp /\ HandshakesAreFresh /\ RoundsEnd /\ DownIsEmpty
  BY DEF IInv
<1>2. TypeOK'
  BY <1>1, TypeStep
<1>3. RoundsKeepUp'
  BY <1>1, <1>2, RoundsKeepUpStep
<1>4. HandshakesAreFresh' /\ RoundsEnd' /\ DownIsEmpty'
  BY <1>1, HandshakesStep, RoundsEndStep, DownIsEmptyStep
<1>5. SlotsAreBounded' /\ WaitersFillTheSlots'
  <2>1. \A n \in Nodes : SlotsAreUsed(n)
    BY DEF IInv, SlotsAreBounded, WaitersFillTheSlots, SlotsAreUsed
  <2>2. \A n \in Nodes : SlotsAreUsed(n)'
    BY <1>1, <2>1, SlotsStep
  <2> QED BY <2>2 DEF SlotsAreBounded, WaitersFillTheSlots, SlotsAreUsed
<1>6. RenewalsAreTimely => Cardinality(Counted') <= Limit
  BY <1>1, <1>2, CapStep DEF IInv
<1> QED BY <1>2, <1>3, <1>4, <1>5, <1>6 DEF IInv, RenewalsAreTimely

\* The inductive invariant (revalidateConnectedSockets, createWsAuthMiddleware).
THEOREM Inductive == Spec => []IInv
BY InitInv, StepInv, PTL DEF Spec

\* The variables keep their types.
THEOREM Typed == Spec => []TypeOK
<1>1. IInv => TypeOK
  BY DEF IInv
<1> QED BY <1>1, Inductive, PTL

\* A socket waits in the limiter of its replica only while every slot is busy
\* (BoundedConcurrencyLimiter).
THEOREM SlotsFilled == Spec => []WaitersFillTheSlots
<1>1. IInv => WaitersFillTheSlots
  BY DEF IInv
<1> QED BY <1>1, Inductive, PTL

\* A revoked session keeps a socket open for three intervals at most
\* (revalidateConnectedSockets).
THEOREM RevocationPrompt == Spec => []RevocationIsPrompt
<1>1. IInv => RevocationIsPrompt
  <2> SUFFICES ASSUME IInv, NEW s \in Sockets, phase[s] = "connected"
               PROVE  revoked[SessionOf[s]] <= 3 * Interval + 1
    BY DEF RevocationIsPrompt
  <2>1. CanWait(s, 0) /\ revoked[SessionOf[s]] \in Int
    BY ConstantsAssumption DEF IInv, RoundsKeepUp, TypeOK
  <2> QED BY <2>1 DEF CanWait
<1> QED BY <1>1, Inductive, PTL

\* With a TTL of more than three intervals a live socket keeps its lease
\* (renewWsConnectionLease).
THEOREM LeasesKept ==
  ASSUME RenewalsAreTimely
  PROVE  Spec => []LiveSocketsKeepTheirLease
<1>1. IInv => LiveSocketsKeepTheirLease
  BY DEF IInv, RoundsKeepUp, CanWait, LiveSocketsKeepTheirLease
<1> QED BY <1>1, Inductive, PTL

\* With such a TTL the connections of one IP stay within the limit, over all replicas
\* (createWsAuthMiddleware).
THEOREM CapKept ==
  ASSUME RenewalsAreTimely
  PROVE  Spec => []CapHolds
<1>1. IInv => CapHolds
  <2> SUFFICES ASSUME IInv PROVE CapHolds
    OBVIOUS
  <2> DEFINE C == {s \in Sockets : phase[s] = "connected" /\ s \notin excused}
  <2>1. C \subseteq Counted /\ IsFiniteSet(Counted)
    BY ConstantsAssumption, FS_Subset DEF Counted
  <2>2. /\ Cardinality(C) <= Cardinality(Counted)
        /\ Cardinality(C) \in Nat /\ Cardinality(Counted) \in Nat
    BY <2>1, FS_Subset, FS_CardinalityType
  <2>3. Cardinality(Counted) <= Limit
    BY DEF IInv
  <2> HIDE DEF C
  <2>4. Cardinality(C) <= Limit
    BY <2>2, <2>3, ConstantsAssumption
  <2> QED BY <2>4 DEF CapHolds, C
<1> QED BY <1>1, Inductive, PTL
=============================================================================
