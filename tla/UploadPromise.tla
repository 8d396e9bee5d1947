---------------------------- MODULE UploadPromise ----------------------------
(***************************************************************************)
(* What the upload module promises its users, without objects, jobs,       *)
(* workers or sweeps.  The files of a request appear together and leave    *)
(* their first status together; nothing is served before it passed the     *)
(* checks; what is served stays as it is until its user deletes it, or a   *)
(* sweep refuses it once its owner is gone; a file that was refused or has *)
(* gone never comes back.                                                  *)
(***************************************************************************)
CONSTANTS
  Requests,   \* disjoint sets of files, each the files of one request
  Checked,    \* what may be served of contents that passed policy and magic bytes
  Scanned     \* what may be served where they also pass a scanner, with its outcome

Files == UNION Requests

VARIABLES
  status,   \* status[f]: "absent", "arriving", "verifying", "served", "refused" or "gone"
  content,  \* content[f]: what is served of f, an empty set while nothing is
  scanOn,   \* a scanner is configured
  orphaned  \* the owner of the files is gone

vars == <<status, content, scanOn, orphaned>>

Servable == IF scanOn THEN Scanned ELSE Checked

Init ==
  /\ status \in [Files -> {"absent", "gone"}]
  /\ content = [f \in Files |-> {}]
  /\ scanOn \in BOOLEAN /\ orphaned = FALSE

Arrive(S) ==
  /\ \A f \in S : status[f] = "absent"
  /\ status' = [f \in Files |-> IF f \in S THEN "arriving" ELSE status[f]]
  /\ UNCHANGED <<content, scanOn, orphaned>>

\* On to the scanner where there is one, to the users where there is none.
Submit(S) ==
  /\ scanOn /\ \A f \in S : status[f] = "arriving"
  /\ status' = [f \in Files |-> IF f \in S THEN "verifying" ELSE status[f]]
  /\ UNCHANGED <<content, scanOn, orphaned>>

Publish(S) ==
  /\ ~scanOn /\ \A f \in S : status[f] = "arriving"
  /\ status' = [f \in Files |-> IF f \in S THEN "served" ELSE status[f]]
  /\ \E x \in [S -> Servable] :
       content' = [f \in Files |-> IF f \in S THEN {x[f]} ELSE content[f]]
  /\ UNCHANGED <<scanOn, orphaned>>

Verify(f) ==
  /\ status[f] = "verifying"
  /\ status' = [status EXCEPT ![f] = "served"]
  /\ \E x \in Servable : content' = [content EXCEPT ![f] = {x}]
  /\ UNCHANGED <<scanOn, orphaned>>

Refuse(f) ==
  /\ status[f] \in {"arriving", "verifying"} \/ (status[f] = "served" /\ orphaned)
  /\ status' = [status EXCEPT ![f] = "refused"]
  /\ content' = [content EXCEPT ![f] = {}]
  /\ UNCHANGED <<scanOn, orphaned>>

\* The request fails, or what it left is cleaned up.
Vanish(f) ==
  /\ status[f] \in {"absent", "arriving", "refused"}
  /\ status' = [status EXCEPT ![f] = "gone"]
  /\ UNCHANGED <<content, scanOn, orphaned>>

\* The user deletes a file in any of its statuses.
Delete(f) ==
  /\ status[f] \in {"arriving", "verifying", "served", "refused"}
  /\ status' = [status EXCEPT ![f] = "gone"]
  /\ content' = [content EXCEPT ![f] = {}]
  /\ UNCHANGED <<scanOn, orphaned>>

OwnerGone == orphaned' = TRUE /\ UNCHANGED <<status, content, scanOn>>

Next ==
  \/ \E S \in Requests : Arrive(S) \/ Submit(S) \/ Publish(S)
  \/ \E f \in Files : Verify(f) \/ Refuse(f) \/ Vanish(f) \/ Delete(f)
  \/ OwnerGone

Spec == Init /\ [][Next]_vars
==============================================================================
