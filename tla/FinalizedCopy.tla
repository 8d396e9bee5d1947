---------------------------- MODULE FinalizedCopy ----------------------------
(***************************************************************************)
(* What StoragePort.finalize promises its caller, whichever driver is      *)
(* behind it: the final key is fresh; the object appears there at once and *)
(* whole, and only with the ETag the caller asked for; an answered call    *)
(* tells whether it is there; a call that got no answer may have done      *)
(* either.  Only a deletion takes the object away again.                   *)
(***************************************************************************)
CONSTANTS Calls, Contents, None

VARIABLES
  asked,   \* asked[c]: the expected ETag of call c
  reply,   \* reply[c]: "none" before the call, then "asked" until its answer
  final    \* final[c]: what readers find under the final key of c

Init ==
  /\ asked = [c \in Calls |-> None]
  /\ reply = [c \in Calls |-> "none"]
  /\ final = [c \in Calls |-> None]

Ask(c, etag) ==
  /\ reply[c] = "none"
  /\ reply' = [reply EXCEPT ![c] = "asked"]
  /\ asked' = [asked EXCEPT ![c] = etag]
  /\ UNCHANGED final

Publish(c) ==
  /\ reply[c] = "asked" /\ final[c] = None
  /\ final' = [final EXCEPT ![c] = asked[c]]
  /\ UNCHANGED <<asked, reply>>

Answer(c) ==
  /\ reply[c] = "asked"
  /\ \E r \in {"lost", IF final[c] = None THEN "failed" ELSE "ok"} :
       reply' = [reply EXCEPT ![c] = r]
  /\ UNCHANGED <<asked, final>>

Remove(c) ==
  /\ reply[c] \in {"ok", "failed", "lost"}
  /\ final' = [final EXCEPT ![c] = None]
  /\ UNCHANGED <<asked, reply>>

Next == \E c \in Calls : \/ \E etag \in Contents : Ask(c, etag)
                         \/ Publish(c) \/ Answer(c) \/ Remove(c)

Spec == Init /\ [][Next]_<<asked, reply, final>>
=============================================================================
