---------------------------- MODULE Organizations ----------------------------
(***************************************************************************)
(* Who may do what in an organization: the custom roles and API keys its   *)
(* members define through the API, the policy that resolves a member's     *)
(* permissions (libs/infra/authorization), and the personal organization   *)
(* every sign-in makes sure of (libs/modules/organizations).               *)
(*                                                                         *)
(* A request is a sequence of single SQL statements, with no transaction   *)
(* around them: each is a step, and other requests, role assignments and   *)
(* removals of members happen in between.  Memberships are written by      *)
(* Better Auth, which is outside this repository.  The one transaction,    *)
(* createIfAbsent, runs under an advisory lock on its user; its writes     *)
(* appear when it commits.                                                 *)
(***************************************************************************)
EXTENDS Naturals, FiniteSets

CONSTANTS
  Users,
  SystemRoles,   \* owner, admin, member: SYSTEM_ROLES
  Names,         \* names a custom role may have
  Permissions,   \* ALL_PERMISSIONS
  SystemGrants,  \* SYSTEM_ROLE_PERMISSIONS
  Manage,        \* the permission the endpoints below require
  RoleLists,     \* the role lists Better Auth gives out, {} when it removes a member
  Requests,      \* requests on one organization
  Asked,         \* what they may ask for
  SignIns,
  UserOf,        \* UserOf[s]: the user of sign-in s
  Orgs,          \* personal organizations
  None,
  Workloads,     \* the requests and sign-ins that happen together, per initial state
  MaxChanges     \* bound on membership changes and organizations dissolved

RoleNames == SystemRoles \cup Names

Kinds == {"create", "update", "delete", "issue"}
Operations == [kind : Kinds, actor : Users, role : Names,
               permissions : SUBSET Permissions \ {{}}]

ASSUME ConstantsAssumption ==
  /\ SystemGrants \in [SystemRoles -> SUBSET Permissions]
  /\ SystemRoles \cap Names = {}
  /\ Manage \in Permissions
  /\ Asked \subseteq Operations
  /\ RoleLists \subseteq SUBSET RoleNames
  /\ UserOf \in [SignIns -> Users]
  /\ None \notin Users
  /\ Workloads \subseteq SUBSET (Requests \cup SignIns)
  /\ MaxChanges \in Nat

VARIABLES
  roles,     \* roles[u]: the role list of u in the organization, {} without membership
  defined,   \* defined[r]: permissions of custom role r, {} when there is no such row
  keys,      \* keys[q]: scopes of the API key that request q issued
  op,        \* op[q]: what request q asks for, its actor, role and permissions
  stage,     \* stage[q]: where request q is
  seen,      \* seen[q]: the role list the policy last read for q
  target,    \* requests deleting a role whose counted row is still there
  hadRoles,  \* history: role lists of the actor since the handler of q started
  hadGrants, \* history: <<role, permission>> defined since then
  personal,  \* personal[o]: the owner of personal organization o
  signIn,    \* signIn[s]: where sign-in s is
  changes

request == <<op, stage, seen, target, hadRoles, hadGrants>>
vars == <<roles, defined, keys, request, personal, signIn, changes>>

Stages == {"idle", "scope", "guard", "guardRoles", "find", "policy", "policyRoles",
           "write", "count", "remove", "done", "refused"}
Ended  == {"idle", "done", "refused"}

TypeOK ==
  /\ roles \in [Users -> SUBSET RoleNames]
  /\ defined \in [Names -> SUBSET Permissions]
  /\ keys \in [Requests -> SUBSET Permissions]
  /\ op \in [Requests -> Operations \cup {None}]
  /\ stage \in [Requests -> Stages]
  /\ \A q \in Requests : stage[q] \notin Ended => op[q] \in Operations
  /\ seen \in [Requests -> SUBSET RoleNames]
  /\ target \subseteq {q \in Requests : stage[q] = "remove"}
  /\ hadRoles \in [Requests -> SUBSET RoleNames]
  /\ hadGrants \in [Requests -> SUBSET (Names \X Permissions)]
  /\ personal \in [Orgs -> Users \cup {None}]
  /\ signIn \in [SignIns -> {"new", "identity", "lock", "locked", "creating", "in"}]
  /\ changes \in 0..MaxChanges

Init ==
  /\ roles \in [Users -> RoleLists]
  /\ defined \in [Names -> SUBSET Permissions]
  /\ keys = [q \in Requests |-> {}]
  /\ op = [q \in Requests |-> None]
  /\ seen = [q \in Requests |-> {}]
  /\ target = {}
  /\ hadRoles = [q \in Requests |-> {}]
  /\ hadGrants = [q \in Requests |-> {}]
  /\ personal = [o \in Orgs |-> None]
  /\ \E w \in Workloads :
       /\ stage = [q \in Requests |-> IF q \in w THEN "idle" ELSE "refused"]
       /\ signIn = [s \in SignIns |-> IF s \in w THEN "new" ELSE "in"]
  /\ changes = 0

----------------------------------------------------------------------------
(* The policy: PostgresPbacAdapter.                                        *)

\* resolvePermissions: a custom role without a row grants nothing.
Resolve(list) ==
  (UNION {SystemGrants[r] : r \in list \cap SystemRoles})
    \cup (UNION {defined[r] : r \in list \cap Names})

Holding(r) == {u \in Users : r \in roles[u]}
Handling(q) == stage[q] \in {"find", "policy", "policyRoles", "write"}

\* What the actor of q may have held since its handler started: the policy reads the
\* membership and the custom roles in two statements.
MayHold(q) ==
  (UNION {SystemGrants[r] : r \in hadRoles[q] \cap SystemRoles})
    \cup {p \in Permissions : \E r \in hadRoles[q] : <<r, p>> \in hadGrants[q]}

\* The history of a handler under way, whatever the step.
Remember ==
  /\ hadRoles' = [q \in Requests |->
       IF Handling(q)' THEN hadRoles[q] \cup roles'[op[q].actor] ELSE {}]
  /\ hadGrants' = [q \in Requests |->
       IF Handling(q)' THEN hadGrants[q] \cup {g \in Names \X Permissions : g[2] \in defined'[g[1]]}
                       ELSE {}]

Go(q, s) == stage' = [stage EXCEPT ![q] = s]
Forget(q) == seen' = [seen EXCEPT ![q] = {}]

----------------------------------------------------------------------------
(* A request: the guards.                                                  *)

Arrive(q) ==
  /\ stage[q] = "idle"
  /\ \E o \in Asked : op' = [op EXCEPT ![q] = o]
  /\ Go(q, "scope")
  /\ UNCHANGED <<roles, defined, keys, seen, target, personal, signIn, changes>>

\* BetterAuthGuard.resolveActiveScope: no membership, no organization.
Scope(q) ==
  /\ stage[q] = "scope"
  /\ Go(q, IF roles[op[q].actor] = {} THEN "refused" ELSE "guard")
  /\ UNCHANGED <<roles, defined, keys, op, seen, target, personal, signIn, changes>>

\* The first statement of each handler.
Handler(kind) ==
  CASE kind = "update" -> "find"
    [] kind = "delete" -> "count"
    [] OTHER -> "policy"

\* PermissionGuard lets the request through to its handler.
Admitted(q, granted) == IF Manage \in granted THEN Handler(op[q].kind) ELSE "refused"

\* No check against the caller's own grant.
AnyGrant(q, granted) == TRUE

\* assertWithinActorGrant, assertScopes.
WithinGrant(q, granted) == op[q].permissions \subseteq granted

Granting(q, granted) ==
  IF ~WithinGrant(q, granted) THEN "refused"
  ELSE IF op[q].kind = "create" THEN "find" ELSE "write"

Granted(q, granted) ==
  IF stage[q] \in {"guard", "guardRoles"} THEN Admitted(q, granted) ELSE Granting(q, granted)

\* membershipRole; the second read is left out when the list names no custom role.
ReadMembership(q) ==
  /\ stage[q] \in {"guard", "policy"}
  /\ LET list == roles[op[q].actor] IN
     IF list \cap Names = {}
       THEN Go(q, Granted(q, Resolve(list))) /\ UNCHANGED seen
       ELSE /\ Go(q, IF stage[q] = "guard" THEN "guardRoles" ELSE "policyRoles")
            /\ seen' = [seen EXCEPT ![q] = list]
  /\ UNCHANGED <<roles, defined, keys, op, target, personal, signIn, changes>>

ReadRoles(q) ==
  /\ stage[q] \in {"guardRoles", "policyRoles"}
  /\ Go(q, Granted(q, Resolve(seen[q])))
  /\ Forget(q)
  /\ UNCHANGED <<roles, defined, keys, op, target, personal, signIn, changes>>

----------------------------------------------------------------------------
(* A request: the handlers.                                                *)

\* Update needs the row, and asks the policy next; create has asked it, and needs no row.
FindByName(q) ==
  /\ stage[q] = "find"
  /\ LET found == defined[op[q].role] # {} IN
     IF op[q].kind = "update" THEN Go(q, IF found THEN "policy" ELSE "refused")
                              ELSE Go(q, IF found THEN "refused" ELSE "write")
  /\ UNCHANGED <<roles, defined, keys, op, seen, target, personal, signIn, changes>>

\* The name is unique: a second insert fails (P2002), an update of no row is not found.
Write(q) ==
  /\ stage[q] = "write"
  /\ LET fits == CASE op[q].kind = "create" -> defined[op[q].role] = {}
                   [] op[q].kind = "update" -> defined[op[q].role] # {}
                   [] OTHER -> TRUE IN
     /\ Go(q, IF fits THEN "done" ELSE "refused")
     /\ defined' = IF fits /\ op[q].kind # "issue"
                     THEN [defined EXCEPT ![op[q].role] = op[q].permissions] ELSE defined
     /\ keys' = IF op[q].kind = "issue" THEN [keys EXCEPT ![q] = op[q].permissions] ELSE keys
  /\ UNCHANGED <<roles, op, seen, target, personal, signIn, changes>>

\* The delete goes by name.
Untouched(r) == target

\* The rows counted earlier that the deletion of r leaves in place.
StillThere(r) == {t \in target : op[t].role # r}

\* deleteUnlessHeld: the statement's snapshot, with the row and its holders.
Count(q) ==
  /\ stage[q] = "count"
  /\ LET r == op[q].role IN
     IF defined[r] # {} /\ Holding(r) = {}
       THEN Go(q, "remove") /\ target' = target \cup {q}
       ELSE Go(q, "refused") /\ UNCHANGED target
  /\ UNCHANGED <<roles, defined, keys, op, seen, personal, signIn, changes>>

\* The delete itself, by id: nothing when another request deleted the row meanwhile.
Remove(q) ==
  /\ stage[q] = "remove"
  /\ IF q \in target
       THEN /\ Go(q, "done")
            /\ defined' = [defined EXCEPT ![op[q].role] = {}]
            /\ target' = StillThere(op[q].role)
       ELSE Go(q, "refused") /\ UNCHANGED <<defined, target>>
  /\ UNCHANGED <<roles, keys, op, seen, personal, signIn, changes>>

Step(q) ==
  \/ Arrive(q) \/ Scope(q) \/ ReadMembership(q) \/ ReadRoles(q)
  \/ FindByName(q) \/ Write(q) \/ Count(q) \/ Remove(q)

----------------------------------------------------------------------------
(* Better Auth: role assignments, accepted invitations, removals.          *)

Change == changes < MaxChanges /\ changes' = changes + 1

SetMember(u) ==
  /\ Change
  /\ \E list \in RoleLists :
       list # roles[u] /\ roles' = [roles EXCEPT ![u] = list]
  /\ UNCHANGED <<defined, keys, op, stage, seen, target, personal, signIn>>

Dissolve(o) ==
  /\ personal[o] # None /\ Change
  /\ personal' = [personal EXCEPT ![o] = None]
  /\ UNCHANGED <<roles, defined, keys, op, stage, seen, target, signIn>>

----------------------------------------------------------------------------
(* A sign-in: EnsurePersonalOrganization.                                  *)

BelongsSomewhere(u) == roles[u] # {} \/ \E o \in Orgs : personal[o] = u
At(s, st) == signIn' = [signIn EXCEPT ![s] = st]
InTransaction(s) == signIn[s] \in {"locked", "creating"}

\* findFirstOrganizationId.
FindOrganization(s) ==
  /\ signIn[s] = "new"
  /\ At(s, IF BelongsSomewhere(UserOf[s]) THEN "in" ELSE "identity")
  /\ UNCHANGED <<roles, defined, keys, op, stage, seen, target, personal, changes>>

\* findUserIdentity, then the transaction begins.
Begin(s) ==
  /\ signIn[s] = "identity"
  /\ At(s, "lock")
  /\ UNCHANGED <<roles, defined, keys, op, stage, seen, target, personal, changes>>

\* A statement or the transaction fails, and the sign-in with it.  A later sign-in of
\* the user starts again.
Fail(s) ==
  /\ signIn[s] \in {"identity", "lock", "locked", "creating"}
  /\ Change
  /\ At(s, "new")
  /\ UNCHANGED <<roles, defined, keys, op, stage, seen, target, personal>>

\* The lock held by nobody waits for nobody.
LockAnyway(s) == TRUE

\* pg_advisory_xact_lock on the user.
LockFree(s) == \A t \in SignIns : InTransaction(t) => UserOf[t] # UserOf[s]

Lock(s) ==
  /\ signIn[s] = "lock" /\ LockFree(s)
  /\ At(s, "locked")
  /\ UNCHANGED <<roles, defined, keys, op, stage, seen, target, personal, changes>>

\* The membership is read again under the lock.
FindAgain(s) ==
  /\ signIn[s] = "locked"
  /\ At(s, IF BelongsSomewhere(UserOf[s]) THEN "in" ELSE "creating")
  /\ UNCHANGED <<roles, defined, keys, op, stage, seen, target, personal, changes>>

Commit(s) ==
  /\ signIn[s] = "creating"
  /\ \E o \in Orgs : /\ personal[o] = None
                     /\ personal' = [personal EXCEPT ![o] = UserOf[s]]
  /\ At(s, "in")
  /\ UNCHANGED <<roles, defined, keys, op, stage, seen, target, changes>>

SignInStep(s) ==
  \/ FindOrganization(s) \/ Begin(s) \/ Fail(s)
  \/ Lock(s) \/ FindAgain(s) \/ Commit(s)

----------------------------------------------------------------------------
Next ==
  /\ \/ \E q \in Requests : Step(q)
     \/ \E u \in Users : SetMember(u)
     \/ \E o \in Orgs : Dissolve(o)
     \/ \E s \in SignIns : SignInStep(s)
  /\ Remember

Spec == Init /\ [][Next]_vars

----------------------------------------------------------------------------
(* Properties.                                                             *)

\* A role or an API key is never given a permission its author could not have held
\* during the request: every permission comes from a role of the author and from a
\* definition of that role, both seen since the handler started (permissionsFor in
\* the create and update handlers, assertWithinActorGrant, assertScopes).
GrantsWereHeld ==
  [][\A q \in Requests :
       stage[q] = "write" /\ stage'[q] = "done"
         => op[q].permissions \subseteq MayHold(q)]_vars

\* Nobody holds a role when it is deleted ("Refuses with 409 while any member still
\* holds the role", organization-roles.controller.ts).  The code breaks this promise:
\* deleteUnlessHeld counts the holders on its statement's snapshot, and SetMember may
\* give the role away before Remove.  No run has it; README.md tells the behaviour.
DeletionStripsNobody ==
  [][\A q \in Requests :
       stage[q] = "remove" /\ stage'[q] = "done" => Holding(op[q].role) = {}]_vars

\* However many sign-ins of a user overlap, the user owns one personal organization
\* (createIfAbsent, prisma-personal-organization.repository.ts).
OnePersonalOrganization ==
  \A o1, o2 \in Orgs : personal[o1] = personal[o2] /\ personal[o1] # None => o1 = o2

----------------------------------------------------------------------------
(* The inductive invariant of Organizations_proofs.                        *)

\* The transactions of one user exclude each other.
LocksAreExclusive ==
  \A s, t \in SignIns :
    InTransaction(s) /\ InTransaction(t) /\ UserOf[s] = UserOf[t] => s = t

\* What the transaction read under the lock is still true.
CreatingMeansHomeless ==
  \A s \in SignIns : signIn[s] = "creating" => \A o \in Orgs : personal[o] # UserOf[s]

\* The history of a handler includes the present.
HistoryIsCurrent ==
  \A q \in Requests : Handling(q) =>
    /\ roles[op[q].actor] \subseteq hadRoles[q]
    /\ \A g \in Names \X Permissions : g[2] \in defined[g[1]] => g \in hadGrants[q]

\* What the policy has read, and what it has let through.
ReadWasHeld ==
  \A q \in Requests :
    /\ stage[q] = "policyRoles" => seen[q] \subseteq hadRoles[q]
    /\ stage[q] = "write" \/ (stage[q] = "find" /\ op[q].kind = "create")
         => op[q].permissions \subseteq MayHold(q)
    /\ stage[q] = "find" => op[q].kind \in {"create", "update"}

IInv ==
  /\ TypeOK /\ OnePersonalOrganization /\ LocksAreExclusive /\ CreatingMeansHomeless
  /\ HistoryIsCurrent /\ ReadWasHeld
=============================================================================
