---------------------------- MODULE WsConnections ----------------------------
(***************************************************************************)
(* WebSocket connections of one client IP over several API replicas: the   *)
(* handshake middleware that checks the session and takes a lease in a     *)
(* Redis sorted set (apps/api/src/websocket/ws-auth.adapter.ts), and the   *)
(* gateway of each replica that revalidates its sockets in rounds, renews  *)
(* their leases and releases them on shutdown (notification.gateway.ts,    *)
(* bounded-concurrency.ts).                                                *)
(*                                                                         *)
(* A socket lives once.  The commands of one Redis client run in the order *)
(* they are issued, so a command takes effect where it is issued; what     *)
(* happens while its answer is awaited are the steps in between.  A call   *)
(* settles within a unit of the clock: Tick waits for everything under way.*)
(* A failed call spends one of MaxFaults.                                  *)
(***************************************************************************)
EXTENDS Integers, FiniteSets

CONSTANTS
  Sockets,     \* the handshakes of one client IP
  Nodes,       \* API replicas
  Home,        \* Home[s]: the replica of socket s
  Sessions,    \* login sessions
  SessionOf,   \* SessionOf[s]: the session whose cookie or token s presents
  Limit,       \* WS_CONNECTION_LIMIT_PER_IP
  LeaseTtl,    \* WS_CONN_TTL_MS
  Interval,    \* WS_SESSION_REVALIDATE_MS
  Concurrency, \* WS_SESSION_REVALIDATE_CONCURRENCY
  MaxFaults    \* bound on failed calls and crashes

ASSUME ConstantsAssumption ==
  /\ Home \in [Sockets -> Nodes]
  /\ SessionOf \in [Sockets -> Sessions]
  /\ IsFiniteSet(Sockets)
  /\ Limit \in Nat \ {0} /\ Interval \in Nat \ {0} /\ Concurrency \in Nat \ {0}
  /\ LeaseTtl \in Nat /\ MaxFaults \in Nat

VARIABLES
  phase,   \* phase[s]: counted and over are handshakes whose lease was just taken
  left,    \* sockets whose client closed during the handshake
  held,    \* sockets with a connectionLease and a disconnect handler
  lease,   \* lease[s]: units until the score of s in the sorted set has passed
  revoked, \* revoked[x]: 0, or 1 + the units since session x was revoked, up to TooLate
  round,   \* round[s]: where s is in the revalidation round of its replica
  jitter,  \* jitter[s]: what remains of its jitterDelay
  node,    \* node[n]: the state of replica n
  timer,   \* timer[n]: units until the interval timer of n fires
  excused, \* history: sockets with a failed Redis call or a lease left behind
  faults

vars == <<phase, left, held, lease, revoked, round, jitter, node, timer, excused, faults>>

\* The count of units stops where it no longer matters.
TooLate == 3 * Interval + 2

TypeOK ==
  /\ phase \in [Sockets -> {"new", "counted", "over", "connected", "gone"}]
  /\ left \subseteq Sockets /\ held \subseteq Sockets /\ excused \subseteq Sockets
  /\ lease \in [Sockets -> 0..LeaseTtl]
  /\ revoked \in [Sessions -> 0..TooLate]
  /\ round \in [Sockets -> {"none", "jitter", "queued", "checking", "done"}]
  /\ jitter \in [Sockets -> 0..Interval]
  /\ node \in [Nodes -> {"up", "stopping", "down"}]
  /\ timer \in [Nodes -> 0..Interval]
  /\ faults \in 0..MaxFaults

Init ==
  /\ phase = [s \in Sockets |-> "new"]
  /\ left = {} /\ held = {} /\ excused = {}
  /\ lease = [s \in Sockets |-> 0]
  /\ revoked = [x \in Sessions |-> 0]
  /\ round = [s \in Sockets |-> "none"]
  /\ jitter = [s \in Sockets |-> 0]
  /\ node = [n \in Nodes |-> "up"]
  /\ timer \in [Nodes -> 1..Interval]
  /\ faults = 0

----------------------------------------------------------------------------
(* The scripts on the sorted set; a lease at 0 is purged by the next one.  *)

At(n) == {s \in Sockets : Home[s] = n}
Leased(l) == {s \in Sockets : l[s] > 0}

\* zadd with NX.
KeepOld(s) == [lease EXCEPT ![s] = IF @ > 0 THEN @ ELSE LeaseTtl]

Acquired(s) == [lease EXCEPT ![s] = LeaseTtl]
Released(s) == [lease EXCEPT ![s] = 0]

\* renewWsConnectionLease and releaseWsConnectionLease do nothing without a lease.
Renewed(s)  == IF s \in held THEN Acquired(s) ELSE lease
LetGo(s)    == IF s \in held THEN Released(s) ELSE lease

\* The call works, or fails before or after the script ran.
Calls(s, effect) ==
  \/ lease' = effect /\ UNCHANGED <<excused, faults>>
  \/ /\ faults < MaxFaults /\ faults' = faults + 1
     /\ lease' \in {lease, effect}
     /\ excused' = excused \cup {s}

Fault == faults < MaxFaults /\ faults' = faults + 1
Move(s, p) == phase' = [phase EXCEPT ![s] = p]
Valid(s) == revoked[SessionOf[s]] = 0
Running(n) == node[n] # "down"

----------------------------------------------------------------------------
(* createWsAuthMiddleware.                                                 *)

\* Rejecting from the limit on only.
BeyondLimitByOne(l) == Cardinality(Leased(l)) > Limit + 1

OverLimit(l) == Cardinality(Leased(l)) > Limit

\* The session is valid and ACQUIRE_CONNECTION_SCRIPT runs.  A Redis error fails
\* open: the socket is admitted, without connectionLease.
Acquire(s) ==
  /\ phase[s] = "new" /\ node[Home[s]] = "up" /\ Valid(s)
  /\ Calls(s, Acquired(s))
  /\ Move(s, IF faults' # faults THEN "connected"
             ELSE IF OverLimit(lease') THEN "over" ELSE "counted")
  /\ UNCHANGED <<left, held, revoked, round, jitter, node, timer>>

\* No session, or the session store answers with an error.
Refuse(s) ==
  /\ phase[s] = "new" /\ node[Home[s]] = "up"
  /\ \/ ~Valid(s) /\ UNCHANGED faults
     \/ Fault
  /\ Move(s, "gone")
  /\ UNCHANGED <<left, held, lease, revoked, round, jitter, node, timer, excused>>

\* socket.io ignores next() for a client that has closed: no disconnect event will
\* reach the handler registered here.
Connect(s) ==
  /\ phase[s] = "counted"
  /\ held' = held \cup {s}
  /\ IF s \in left THEN Move(s, "gone") /\ excused' = excused \cup {s}
                   ELSE Move(s, "connected") /\ UNCHANGED excused
  /\ left' = left \ {s}
  /\ UNCHANGED <<lease, revoked, round, jitter, node, timer, faults>>

\* TOO_MANY_CONNECTIONS gives the lease back; a failure of that fails open too.
Reject(s) ==
  /\ phase[s] = "over"
  /\ Calls(s, Released(s))
  /\ Move(s, IF faults' # faults /\ s \notin left THEN "connected" ELSE "gone")
  /\ left' = left \ {s}
  /\ UNCHANGED <<held, revoked, round, jitter, node, timer>>

Handshake(s) == Acquire(s) \/ Refuse(s) \/ Connect(s) \/ Reject(s)

----------------------------------------------------------------------------
(* Clients and session storage.                                            *)

\* The disconnect handler releases the lease.
Close(s) ==
  /\ phase[s] = "connected"
  /\ Move(s, "gone")
  /\ Calls(s, LetGo(s))
  /\ UNCHANGED <<left, held, revoked, round, jitter, node, timer>>

CloseEarly(s) ==
  /\ phase[s] \in {"counted", "over"} /\ s \notin left
  /\ left' = left \cup {s}
  /\ UNCHANGED <<phase, held, lease, revoked, round, jitter, node, timer, excused, faults>>

\* The session is revoked or expires, or its user is deactivated.
Revoke(x) ==
  /\ revoked[x] = 0
  /\ revoked' = [revoked EXCEPT ![x] = 1]
  /\ UNCHANGED <<phase, left, held, lease, round, jitter, node, timer, excused, faults>>

----------------------------------------------------------------------------
(* Revalidation rounds (notification.gateway.ts).                          *)

Checking(n)   == {s \in At(n) : round[s] = "checking"}
InFlight(n)   == \E s \in At(n) : round[s] # "none"

\* allSettled: the round is over when every socket of it is done.
Settled(n, r) == IF \A s \in At(n) : r[s] \in {"none", "done"}
                   THEN [s \in Sockets |-> IF s \in At(n) THEN "none" ELSE r[s]] ELSE r

\* The interval timer does nothing while a round is in flight.
RoundTick(n) ==
  /\ node[n] = "up" /\ timer[n] = 0
  /\ timer' = [timer EXCEPT ![n] = Interval]
  /\ LET connected == {s \in At(n) : phase[s] = "connected"} IN
     \/ InFlight(n) /\ UNCHANGED <<round, jitter>>
     \/ /\ ~InFlight(n)
        /\ round' = [s \in Sockets |-> IF s \in connected THEN "jitter" ELSE round[s]]
        /\ \E j \in [connected -> 0..Interval] :
             jitter' = [s \in Sockets |-> IF s \in connected THEN j[s] ELSE jitter[s]]
  /\ UNCHANGED <<phase, left, held, lease, revoked, node, excused, faults>>

\* The end of the jitter: BoundedConcurrencyLimiter.run starts the task or queues it.
EnterLimiter(s) ==
  /\ round[s] = "jitter" /\ jitter[s] = 0
  /\ round' = [round EXCEPT ![s] = IF Cardinality(Checking(Home[s])) < Concurrency
                                     THEN "checking" ELSE "queued"]
  /\ UNCHANGED <<phase, left, held, lease, revoked, jitter, node, timer, excused, faults>>

\* release() frees the slot and wakes nobody.
WakeNobody(s) == {[round EXCEPT ![s] = "done"]}

\* release() gives the slot to a waiting socket, in any order.
PassSlot(s) ==
  LET waiting == {t \in At(Home[s]) : round[t] = "queued"} IN
  IF waiting = {} THEN {[round EXCEPT ![s] = "done"]}
  ELSE {[round EXCEPT ![s] = "done", ![t] = "checking"] : t \in waiting}

\* The cookie cache stays on.
CachedSession(s) == TRUE

SessionHolds(s) == Valid(s)

\* revalidateSocket.  A socket that closed meanwhile is renewed all the same.
Revalidate(s) ==
  /\ round[s] = "checking"
  /\ \E r \in PassSlot(s) : round' = Settled(Home[s], r)
  /\ \/ /\ SessionHolds(s)
        /\ UNCHANGED phase
        /\ \/ /\ phase[s] = "connected"
              /\ Calls(s, Renewed(s))
           \/ /\ phase[s] = "gone"
              /\ lease' = Renewed(s)
              /\ excused' = excused \cup ({s} \cap held)
              /\ UNCHANGED faults
     \/ /\ ~SessionHolds(s)
        /\ Move(s, "gone")
        /\ IF phase[s] = "connected" THEN Calls(s, LetGo(s))
                                     ELSE UNCHANGED <<lease, excused, faults>>
     \/ /\ Fault     \* the session store fails: disconnected like a revoked one
        /\ Move(s, "gone")
        /\ lease' = IF phase[s] = "connected" THEN LetGo(s) ELSE lease
        /\ UNCHANGED excused
  /\ UNCHANGED <<left, held, revoked, jitter, node, timer>>

RoundStep(s) == EnterLimiter(s) \/ Revalidate(s)

----------------------------------------------------------------------------
(* Shutdown, crashes, time.                                                *)

\* onApplicationShutdown: the timer is cleared, pending jitters are aborted.
Stop(n) ==
  /\ node[n] = "up"
  /\ node' = [node EXCEPT ![n] = "stopping"]
  /\ round' = Settled(n, [s \in Sockets |-> IF s \in At(n) /\ round[s] = "jitter"
                                              THEN "done" ELSE round[s]])
  /\ jitter' = [s \in Sockets |-> IF s \in At(n) THEN 0 ELSE jitter[s]]
  /\ UNCHANGED <<phase, left, held, lease, revoked, timer, excused, faults>>

\* Replica n is gone, with its sockets and the handshakes in the middleware.
Vanish(n) ==
  /\ node' = [node EXCEPT ![n] = "down"]
  /\ phase' = [s \in Sockets |-> IF s \in At(n) THEN "gone" ELSE phase[s]]
  /\ round' = [s \in Sockets |-> IF s \in At(n) THEN "none" ELSE round[s]]
  /\ jitter' = [s \in Sockets |-> IF s \in At(n) THEN 0 ELSE jitter[s]]
  /\ left' = left \ At(n)
  /\ UNCHANGED <<held, revoked, timer>>

ReleasedOnShutdown(n) == {s \in At(n) \cap held : phase[s] = "connected"}

\* It awaits the round in flight, then releases the lease of every connected
\* socket (all settled, failures fall back to the TTL) and closes the client.
Down(n) ==
  /\ node[n] = "stopping" /\ ~InFlight(n)
  /\ \E kept \in SUBSET ReleasedOnShutdown(n) :
       /\ kept = {} \/ faults < MaxFaults
       /\ faults' = IF kept = {} THEN faults ELSE faults + 1
       /\ lease' = [s \in Sockets |-> IF s \in ReleasedOnShutdown(n) \ kept THEN 0
                                                                          ELSE lease[s]]
       /\ excused' = excused \cup kept
                       \cup {s \in At(n) : phase[s] \in {"counted", "over"}}
  /\ Vanish(n)

Crash(n) ==
  /\ Running(n) /\ Fault
  /\ Vanish(n)
  /\ excused' = excused \cup At(n)
  /\ UNCHANGED lease

Quiet ==
  /\ \A s \in Sockets : /\ phase[s] \notin {"counted", "over"}
                        /\ round[s] \notin {"queued", "checking"}
                        /\ round[s] = "jitter" => jitter[s] > 0
  /\ \A n \in Nodes : node[n] # "stopping" /\ (node[n] = "up" => timer[n] > 0)

\* Counting on below zero.
Decrement(k) == k - 1

Less(k) == IF k > 0 THEN k - 1 ELSE 0

Tick ==
  /\ Quiet
  /\ lease'  = [s \in Sockets |-> Less(lease[s])]
  /\ jitter' = [s \in Sockets |-> Less(jitter[s])]
  /\ timer'  = [n \in Nodes |-> IF node[n] = "up" THEN Less(timer[n]) ELSE timer[n]]
  /\ revoked' = [x \in Sessions |-> IF revoked[x] \in 1..TooLate - 1 THEN revoked[x] + 1
                                                                   ELSE revoked[x]]
  /\ UNCHANGED <<phase, left, held, round, node, excused, faults>>

----------------------------------------------------------------------------
Next ==
  \/ Tick
  \/ \E s \in Sockets : \/ Handshake(s) \/ RoundStep(s)
                        \/ Close(s) \/ CloseEarly(s)
  \/ \E x \in Sessions : Revoke(x)
  \/ \E n \in Nodes : RoundTick(n) \/ Stop(n) \/ Down(n) \/ Crash(n)

Spec == Init /\ [][Next]_vars

----------------------------------------------------------------------------
(* Properties.                                                             *)

\* Over all replicas, no more sockets of one IP stay connected than the limit,
\* except those a failed Redis call let in or left without their lease: the count
\* and the insertion are one script, and only a refused socket gives its own lease
\* back (createWsAuthMiddleware, ws-auth.adapter.ts).
CapHolds ==
  Cardinality({s \in Sockets : phase[s] = "connected" /\ s \notin excused}) <= Limit

\* A connected socket never loses its lease to the TTL while its renewals work,
\* although a round may start late and wait for jitter again: three intervals pass
\* between two renewals at most (revalidateConnectedSockets, notification.gateway.ts).
LiveSocketsKeepTheirLease ==
  \A s \in Sockets \ excused : phase[s] = "connected" => s \in held /\ lease[s] > 0

\* A revoked session keeps a socket open for three intervals at most: the round in
\* flight that missed it, the tick skipped meanwhile and the jitter of the next one
\* (revalidateWsSession with disableCookieCache, ws-auth.adapter.ts).
RevocationIsPrompt ==
  \A s \in Sockets : phase[s] = "connected" => revoked[SessionOf[s]] <= 3 * Interval + 1

\* A socket waits in the limiter only while every slot is busy, so a round always
\* ends, and with it the shutdown that awaits it (BoundedConcurrencyLimiter).
WaitersFillTheSlots ==
  \A n \in Nodes :
    (\E s \in At(n) : round[s] = "queued") => Cardinality(Checking(n)) = Concurrency

----------------------------------------------------------------------------
(* The inductive invariant of WsConnections_proofs.                        *)

\* A lease outlives the longest time between two renewals.
RenewalsAreTimely == LeaseTtl > 3 * Interval

\* Socket s can wait d more units for its next check.
CanWait(s, d) ==
  /\ RenewalsAreTimely /\ s \notin excused => s \in held /\ lease[s] > d
  /\ revoked[SessionOf[s]] + d <= 3 * Interval + 1

Idle(s) == round[s] \in {"none", "done"}

\* The round in flight started in this period of the timer, or a tick skipped it
\* and no time passes before it ends.  An idle socket waits for the round after it,
\* which a tick may skip once in the first case.
InItsPeriod(n) == \A t \in At(n) : round[t] = "jitter" => jitter[t] <= timer[n]
Overdue(n) == InFlight(n) => timer[n] > 0 /\ \A t \in At(n) : round[t] = "jitter" => jitter[t] = 0
IdleCanWait(n, d) == \A s \in At(n) : phase[s] = "connected" /\ Idle(s) => CanWait(s, timer[n] + d)

RoundsKeepUp ==
  /\ \A s \in Sockets : phase[s] = "connected" => CanWait(s, 0)
  /\ \A s \in Sockets : phase[s] = "connected" /\ round[s] = "jitter" /\ node[Home[s]] = "up"
                          => CanWait(s, jitter[s])
  /\ \A n \in Nodes : node[n] = "up" =>
       \/ InItsPeriod(n) /\ IdleCanWait(n, 2 * Interval)
       \/ Overdue(n) /\ IdleCanWait(n, Interval)

\* A handshake in the middleware takes no time.
HandshakesAreFresh ==
  \A s \in Sockets :
    /\ phase[s] \in {"counted", "over"} => revoked[SessionOf[s]] <= 1
    /\ phase[s] = "counted" /\ s \notin excused => lease[s] = LeaseTtl

\* A round in flight waits for something.
RoundsEnd == \A n \in Nodes : InFlight(n) => \E s \in At(n) : ~Idle(s)

SlotsAreBounded == \A n \in Nodes : Cardinality(Checking(n)) <= Concurrency

DownIsEmpty == \A s \in Sockets : node[Home[s]] = "down" => phase[s] = "gone"

\* Whoever may be connected was counted.
Counted == {s \in Sockets : phase[s] \in {"counted", "connected"} /\ s \notin excused}

IInv ==
  /\ TypeOK /\ RoundsKeepUp /\ HandshakesAreFresh /\ RoundsEnd /\ DownIsEmpty
  /\ SlotsAreBounded /\ WaitersFillTheSlots
  /\ RenewalsAreTimely => Cardinality(Counted) <= Limit
=============================================================================
