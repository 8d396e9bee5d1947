----------------------------- MODULE Idempotency -----------------------------
(***************************************************************************)
(* Idempotency-Key handling of the API: the Redis record of one store key  *)
(* (apps/api/src/common/idempotency) together with the request timeout     *)
(* that surrounds it (common/interceptors/timeout.interceptor.ts).         *)
(*                                                                         *)
(* Requests are the requests of one principal that carry the same key, so  *)
(* they all meet on one Redis entry.  A request runs in two strands that   *)
(* race: the source (acquire, handler, late capture; src) and the reply    *)
(* (reply), which the timeout may send first.  Redis commands are atomic;  *)
(* every await between two of them is a step boundary.                     *)
(***************************************************************************)
EXTENDS Integers

CONSTANTS
  Requests,        \* requests that share one idempotency store key
  Payload,         \* Payload[r]: the fingerprint of r (method, url, body)
  NoOne,           \* no request
  RequestTimeout,  \* HTTP_REQUEST_TIMEOUT_MS, in ticks
  LockTtl,         \* IDEMPOTENCY_LOCK_TTL_SECONDS, in ticks
  RecordTtl,       \* IDEMPOTENCY_TTL_SECONDS, in ticks
  RedisDelay       \* ticks a store command issued by onSend may take

ASSUME NoOneAssumption == NoOne \notin Requests

\* env.validation.ts refuses to boot when the timeout reaches the lock TTL; the
\* code's reason for it only holds if the store command fits in the margin.
ASSUME TimingAssumption ==
  /\ RequestTimeout \in Nat \ {0}
  /\ RedisDelay \in Nat
  /\ LockTtl \in Nat
  /\ RecordTtl \in Nat \ {0}
  /\ RequestTimeout + RedisDelay < LockTtl

VARIABLES
  rec,         \* the Redis entry; rec.by is the owner token (kept, as a ghost,
               \* in a completed record, whose token the code drops)
  src,         \* src[r]: where the request's source observable is
  reply,       \* reply[r]: what the client was answered
  ctx,         \* ctx[r]: req.idempotency is set
  left,        \* left[r]: ticks until the running timer of r fires
  value,       \* value[r]: what the source emitted
  committed,   \* committed[r]: the handler's mutation is durable
  guard,       \* history: ticks the store still owes r protection of its key
  replayOf     \* history: the request whose record was replayed to r

vars == <<rec, src, reply, ctx, left, value, committed, guard, replayOf>>

Sources  == {"new", "acquiring", "reading", "handler", "sending", "late", "ended"}
Replies  == {"none", "ok", "rejected", "failed", "timeout", "conflict",
             "mismatch", "replayed", "lost"}
\* What a source emits: a body text, a Buffer or stream, a 4xx, a 5xx, or the
\* of(undefined) that stands in for a handler that is not called.
Emitted  == {"none", "ok", "opaque", "rejected", "failed", "empty"}

NoRecord == [state |-> "none", by |-> NoOne, body |-> "none", ttl |-> 0]

Records == [state : {"none", "pending", "completed"}, by : Requests \cup {NoOne},
            body : Emitted, ttl : Nat]

TypeOK ==
  /\ rec \in Records
  /\ src \in [Requests -> Sources]
  /\ reply \in [Requests -> Replies]
  /\ ctx \in [Requests -> BOOLEAN]
  /\ left \in [Requests -> Nat]
  /\ value \in [Requests -> Emitted]
  /\ committed \in [Requests -> BOOLEAN]
  /\ guard \in [Requests -> Nat]
  /\ replayOf \in [Requests -> Requests \cup {NoOne}]

Init ==
  /\ rec = NoRecord
  /\ src = [r \in Requests |-> "new"]
  /\ reply = [r \in Requests |-> "none"]
  /\ ctx = [r \in Requests |-> FALSE]
  /\ left = [r \in Requests |-> 0]
  /\ value = [r \in Requests |-> "none"]
  /\ committed = [r \in Requests |-> FALSE]
  /\ guard = [r \in Requests |-> 0]
  /\ replayOf = [r \in Requests |-> NoOne]

-----------------------------------------------------------------------------
(* The store: SET NX PX and the two compare-and-set scripts.               *)

\* Mutant of Owns: the scripts compare the state but not the owner token.
OwnsAnyPending(r) == rec.state = "pending" /\ r \in Requests

Owns(r) == rec.state = "pending" /\ rec.by = r

TakeLock(r) ==
  /\ rec' = [state |-> "pending", by |-> r, body |-> "none", ttl |-> LockTtl]
  /\ guard' = [guard EXCEPT ![r] = LockTtl]

\* Mutant of CompleteIfOwner: a plain SET, no compare.
CompleteAlways(r, body) ==
  /\ rec' = [state |-> "completed", by |-> r, body |-> body, ttl |-> RecordTtl]
  /\ guard' = [guard EXCEPT ![r] = RecordTtl]

CompleteIfOwner(r, body) ==
  IF Owns(r)
  THEN /\ rec' = [state |-> "completed", by |-> r, body |-> body,
                  ttl |-> RecordTtl]
       /\ guard' = [guard EXCEPT ![r] = RecordTtl]
  ELSE UNCHANGED <<rec, guard>>

ReleaseIfOwner(r) ==
  /\ rec' = IF Owns(r) THEN NoRecord ELSE rec
  /\ guard' = [guard EXCEPT ![r] = 0]

-----------------------------------------------------------------------------
(* The request's way through the interceptors.                             *)

\* The source of r completes or is dropped; the request object goes with it.
Finish(r) ==
  /\ src' = [src EXCEPT ![r] = "ended"]
  /\ ctx' = [ctx EXCEPT ![r] = FALSE]
  /\ left' = [left EXCEPT ![r] = 0]
  /\ value' = [value EXCEPT ![r] = "none"]

\* The guards accepted r; TimeoutInterceptor starts its timer, then subscribes
\* to the idempotency interceptor, which begins to acquire.
Arrive(r) ==
  /\ src[r] = "new"
  /\ src' = [src EXCEPT ![r] = "acquiring"]
  /\ left' = [left EXCEPT ![r] = RequestTimeout]
  /\ UNCHANGED <<rec, reply, ctx, value, committed, guard, replayOf>>

\* SET NX answered OK.  A reply that is already out (the 504) means the handler
\* is not called: the source emits of(undefined), which the late capture, while
\* it is still subscribed, takes for the handler's result.
Acquire(r) ==
  /\ src[r] = "acquiring"
  /\ rec.state = "none"
  /\ TakeLock(r)
  /\ \/ /\ reply[r] = "none"
        /\ src' = [src EXCEPT ![r] = "handler"]
        /\ ctx' = [ctx EXCEPT ![r] = TRUE]
        /\ UNCHANGED <<left, value>>
     \/ /\ reply[r] # "none"
        /\ left[r] > 0
        /\ src' = [src EXCEPT ![r] = "late"]
        /\ ctx' = [ctx EXCEPT ![r] = TRUE]
        /\ value' = [value EXCEPT ![r] = "empty"]
        /\ UNCHANGED left
     \/ /\ reply[r] # "none"
        /\ left[r] = 0
        /\ Finish(r)
  /\ UNCHANGED <<reply, committed, replayOf>>

\* SET NX took the lock but its reply was lost; the client library resends it.
AcquireReplyLost(r) ==
  /\ src[r] = "acquiring"
  /\ rec.state = "none"
  /\ TakeLock(r)
  /\ UNCHANGED <<src, reply, ctx, left, value, committed, replayOf>>

\* SET NX answered nil.
LockTaken(r) ==
  /\ src[r] = "acquiring"
  /\ rec.state # "none"
  /\ src' = [src EXCEPT ![r] = "reading"]
  /\ UNCHANGED <<rec, reply, ctx, left, value, committed, guard, replayOf>>

\* The GET after a failed SET NX: an expired key counts as pending.
ReadOutcome(r) ==
  CASE rec.state # "completed" -> "conflict"
    [] rec.state = "completed" /\ Payload[rec.by] # Payload[r] -> "mismatch"
    [] OTHER -> "replayed"

ReadRecord(r) ==
  /\ src[r] = "reading"
  /\ Finish(r)
  /\ IF reply[r] = "none"
     THEN /\ reply' = [reply EXCEPT ![r] = ReadOutcome(r)]
          /\ replayOf' = [replayOf EXCEPT
                            ![r] = IF ReadOutcome(r) = "replayed" THEN rec.by ELSE NoOne]
     ELSE UNCHANGED <<reply, replayOf>>
  /\ UNCHANGED <<rec, committed, guard>>

\* A Redis error while acquiring: fail open, without an idempotency context.
AcquireFails(r) ==
  /\ src[r] \in {"acquiring", "reading"}
  /\ IF reply[r] = "none"
     THEN src' = [src EXCEPT ![r] = "handler"] /\ UNCHANGED <<ctx, left, value>>
     ELSE Finish(r)
  /\ UNCHANGED <<rec, reply, committed, guard, replayOf>>

\* The handler's transaction commits.
Commit(r) ==
  /\ src[r] = "handler"
  /\ ~committed[r]
  /\ committed' = [committed EXCEPT ![r] = TRUE]
  /\ UNCHANGED <<rec, src, reply, ctx, left, value, guard, replayOf>>

\* The handler returns or throws.  In time, the response enters onSend; after the
\* 504 only a 2xx text reaches completeLate, and only within the late window.
Return(r, v) ==
  /\ src[r] = "handler"
  /\ v \in {"ok", "opaque"} => committed[r]
  /\ v = "rejected" => ~committed[r]
  /\ \/ /\ reply[r] = "none"
        /\ src' = [src EXCEPT ![r] = "sending"]
        /\ left' = [left EXCEPT ![r] = RedisDelay]
        /\ value' = [value EXCEPT ![r] = v]
        /\ UNCHANGED ctx
     \/ /\ reply[r] # "none" /\ v = "ok" /\ ctx[r] /\ left[r] > 0
        /\ src' = [src EXCEPT ![r] = "late"]
        /\ value' = [value EXCEPT ![r] = v]
        /\ UNCHANGED <<ctx, left>>
     \/ /\ reply[r] # "none" /\ ~(v = "ok" /\ ctx[r] /\ left[r] > 0)
        /\ Finish(r)
  /\ UNCHANGED <<rec, reply, committed, guard, replayOf>>

\* Mutant of StoreOutcome: a 5xx releases the key although the mutation may stand.
ReleaseOnEveryError(r) ==
  CASE ctx[r] /\ value[r] = "ok" -> CompleteIfOwner(r, "ok")
    [] ctx[r] /\ value[r] \in {"rejected", "failed"} ->
         /\ rec' = IF Owns(r) THEN NoRecord ELSE rec
         /\ UNCHANGED guard
    [] OTHER -> UNCHANGED <<rec, guard>>

\* finalizeIdempotentResponse: 2xx text completes, 4xx releases; a 5xx or a body
\* that cannot be captured leaves the key pending until its TTL.
StoreOutcome(r) ==
  CASE ctx[r] /\ value[r] = "ok" -> CompleteIfOwner(r, "ok")
    [] ctx[r] /\ value[r] = "rejected" -> ReleaseIfOwner(r)
    [] OTHER -> UNCHANGED <<rec, guard>>

\* onSend: settle the record (or fail to: the error is only reported), answer.
Respond(r) ==
  /\ src[r] = "sending"
  /\ StoreOutcome(r) \/ UNCHANGED <<rec, guard>>
  /\ reply' = [reply EXCEPT ![r] = IF value[r] = "opaque" THEN "ok" ELSE value[r]]
  /\ Finish(r)
  /\ UNCHANGED <<committed, replayOf>>

\* completeLate, issued by the timeout interceptor and never awaited.
CompleteLate(r) ==
  /\ src[r] = "late"
  /\ CompleteIfOwner(r, value[r]) \/ UNCHANGED <<rec, guard>>
  /\ Finish(r)
  /\ UNCHANGED <<reply, committed, replayOf>>

\* The timer fires: 504 to the client, the source stays subscribed for another
\* RequestTimeout.  onSend sees a 5xx and leaves the record alone.
TimeoutFires(r) ==
  /\ src[r] \in {"acquiring", "reading", "handler"}
  /\ reply[r] = "none"
  /\ left[r] = 0
  /\ reply' = [reply EXCEPT ![r] = "timeout"]
  /\ left' = [left EXCEPT ![r] = RequestTimeout]
  /\ UNCHANGED <<rec, src, ctx, value, committed, guard, replayOf>>

\* The API process dies with r in it; Redis keeps what it was told.
Crash(r) ==
  /\ src[r] \notin {"new", "ended"}
  /\ Finish(r)
  /\ reply' = [reply EXCEPT ![r] = IF @ = "none" THEN "lost" ELSE @]
  /\ UNCHANGED <<rec, committed, guard, replayOf>>

-----------------------------------------------------------------------------
(* Time.  A timer is not overtaken: time waits for every unanswered        *)
(* request whose timer (or whose onSend store command) is due.             *)

Unanswered(r) ==
  reply[r] = "none" /\ src[r] \in {"acquiring", "reading", "handler", "sending"}

NothingOverdue == \A r \in Requests : Unanswered(r) => left[r] > 0

\* Mutant of Countdown: a lapsed timer goes on counting.
CountPastZero(f) == [r \in Requests |-> f[r] - 1]

Countdown(f) == [r \in Requests |-> IF f[r] = 0 THEN 0 ELSE f[r] - 1]

Tick ==
  /\ NothingOverdue
  /\ left' = Countdown(left)
  /\ guard' = Countdown(guard)
  /\ rec' = IF rec.ttl <= 1 THEN NoRecord ELSE [rec EXCEPT !.ttl = @ - 1]
  /\ UNCHANGED <<src, reply, ctx, value, committed, replayOf>>

Results == {"ok", "opaque", "rejected", "failed"}

Step(r) ==
  \/ Arrive(r)
  \/ Acquire(r)
  \/ AcquireReplyLost(r)
  \/ LockTaken(r)
  \/ ReadRecord(r)
  \/ AcquireFails(r)
  \/ Commit(r)
  \/ \E v \in Results : Return(r, v)
  \/ Respond(r)
  \/ CompleteLate(r)
  \/ TimeoutFires(r)
  \/ Crash(r)

Next == Tick \/ \E r \in Requests : Step(r)

Spec == Init /\ [][Next]_vars

-----------------------------------------------------------------------------
(* Properties.                                                             *)

\* env.validation.ts:177: because the lock outlives the request timeout, the
\* finishing request always owns its lock when it writes the result, whatever
\* late completions, crashes and lost replies of other requests do meanwhile.
FinishingRequestOwnsItsLock ==
  \A r \in Requests : ctx[r] /\ reply[r] = "none" /\ src[r] \in {"handler", "sending"}
                        => rec.state = "pending" /\ rec.by = r

Protected(r) == guard[r] > 0

\* "Exactly one of N concurrent requests wins" holds over time too: from the
\* moment a request took the key until its lock (or, once completed, its record)
\* lapses or it answered 4xx, no other request takes the key, although replies
\* time out, processes die and completions arrive late.
ClaimsNeverOverlap ==
  \A q, r \in Requests : Protected(q) /\ Protected(r) => q = r

SameAnswer ==
  /\ <<rec'.state, rec'.by, rec'.body>> = <<rec.state, rec.by, rec.body>>
  /\ rec'.ttl <= rec.ttl

\* A stored response is never replaced by another request's outcome: only its
\* own expiry removes it, so every retry within the TTL sees the same answer.
CompletedRecordIsStable ==
  [][rec.state = "completed" => (rec' = NoRecord /\ rec.ttl = 1) \/ SameAnswer]_vars

\* timeout.interceptor.ts:28-31: what a retry replays is the result of a mutation
\* that ran.  The code breaks this: see the run idempotency_empty_replay.
ReplayedMutationRan ==
  \A r \in Requests : reply[r] = "replayed" => committed[replayOf[r]]
-----------------------------------------------------------------------------
(* The inductive invariant behind the first two properties.                *)

\* A live record is the claim of the request that wrote it, and conversely.
RecordIsAClaim ==
  /\ rec.state # "none" => rec.by \in Requests /\ rec.ttl > 0 /\ guard[rec.by] = rec.ttl
  /\ \A q \in Requests : Protected(q) => rec.state # "none" /\ rec.by = q

\* What a request holds at each stage: no context before it acquired, and while
\* its timer runs a lock that outlives the timer and the store command after it.
StageHolds(r) ==
  /\ src[r] \in {"new", "acquiring", "reading", "ended"} => ~ctx[r]
  /\ src[r] \in {"acquiring", "reading", "handler"} /\ reply[r] = "none"
       => left[r] <= RequestTimeout
  /\ src[r] = "sending" => reply[r] = "none" /\ value[r] \in Results
  /\ ctx[r] /\ reply[r] = "none" /\ src[r] = "handler"
       => Owns(r) /\ left[r] + RedisDelay < rec.ttl
  /\ ctx[r] /\ reply[r] = "none" /\ src[r] = "sending" => Owns(r) /\ left[r] < rec.ttl

IInv == TypeOK /\ RecordIsAClaim /\ \A r \in Requests : StageHolds(r)
=============================================================================
