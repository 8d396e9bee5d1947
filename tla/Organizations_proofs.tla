------------------------ MODULE Organizations_proofs ------------------------
(***************************************************************************)
(* Machine-checked safety of Organizations, for any users, roles,          *)
(* permissions, requests and sign-ins, and any bound on the changes.       *)
(***************************************************************************)
EXTENDS Organizations, TLAPS

\* The initial state satisfies the invariant.
LEMMA InitIInv == Init => IInv
<1> SUFFICES ASSUME Init PROVE IInv
  OBVIOUS
<1>1. TypeOK
  BY ConstantsAssumption DEF Init, TypeOK, Stages, Ended
<1>2. OnePersonalOrganization /\ LocksAreExclusive /\ CreatingMeansHomeless
  BY DEF Init, OnePersonalOrganization, LocksAreExclusive, CreatingMeansHomeless, InTransaction
<1>3. HistoryIsCurrent /\ ReadWasHeld
  BY DEF Init, HistoryIsCurrent, Handling, ReadWasHeld
<1> QED BY <1>1, <1>2, <1>3 DEF IInv

\* Where a request goes is a stage.
LEMMA GrantedIsStage ==
  ASSUME NEW q, NEW granted
  PROVE  /\ Admitted(q, granted) \in {"find", "count", "policy", "refused"}
         /\ Granting(q, granted) \in {"find", "write", "refused"}
         /\ Granted(q, granted) \in Stages \ {"remove"}
BY DEF Admitted, Handler, Granting, Granted, Stages

\* Remember keeps the histories typed.
LEMMA RememberTyped ==
  ASSUME TypeOK, Remember, roles' \in [Users -> SUBSET RoleNames],
         \A q \in Requests : Handling(q)' => op[q] \in Operations
  PROVE  /\ hadRoles' \in [Requests -> SUBSET RoleNames]
         /\ hadGrants' \in [Requests -> SUBSET (Names \X Permissions)]
<1>1. \A q \in Requests : Handling(q)' => roles'[op[q].actor] \in SUBSET RoleNames
  BY DEF Operations
<1>2. hadRoles' \in [Requests -> SUBSET RoleNames]
  BY <1>1 DEF TypeOK, Remember
<1>3. hadGrants' \in [Requests -> SUBSET (Names \X Permissions)]
  BY DEF TypeOK, Remember
<1> QED BY <1>2, <1>3

\* Every step keeps the types.
LEMMA TypeStep ==
  ASSUME TypeOK, Next
  PROVE  TypeOK'
<1> USE ConstantsAssumption
<1> DEFINE Rest == /\ roles' \in [Users -> SUBSET RoleNames]
                   /\ defined' \in [Names -> SUBSET Permissions]
                   /\ keys' \in [Requests -> SUBSET Permissions]
                   /\ op' \in [Requests -> Operations \cup {None}]
                   /\ stage' \in [Requests -> Stages]
                   /\ \A q \in Requests : stage'[q] \notin Ended => op'[q] \in Operations
                   /\ \A q \in Requests : Handling(q)' => op[q] \in Operations
                   /\ seen' \in [Requests -> SUBSET RoleNames]
                   /\ target' \subseteq {q \in Requests : stage'[q] = "remove"}
                   /\ personal' \in [Orgs -> Users \cup {None}]
                   /\ signIn' \in [SignIns -> {"new", "identity", "lock", "locked",
                                               "creating", "in"}]
                   /\ changes' \in 0..MaxChanges
<1>1. ASSUME NEW q \in Requests, Arrive(q) PROVE Rest
  BY <1>1 DEF Arrive, Go, TypeOK, Stages, Ended, Handling
<1>2. ASSUME NEW q \in Requests, Scope(q) PROVE Rest
  BY <1>2 DEF Scope, Go, TypeOK, Stages, Ended, Handling
<1>3. ASSUME NEW q \in Requests, ReadMembership(q) PROVE Rest
  <2>1. op[q] \in Operations /\ roles[op[q].actor] \subseteq RoleNames
    BY <1>3 DEF ReadMembership, TypeOK, Ended, Operations
  <2>2. CASE roles[op[q].actor] \cap Names = {}
    BY <1>3, <2>1, <2>2, GrantedIsStage DEF ReadMembership, Go, TypeOK, Ended, Handling
  <2>3. CASE roles[op[q].actor] \cap Names # {}
    BY <1>3, <2>1, <2>3 DEF ReadMembership, Go, TypeOK, Stages, Ended, Handling
  <2> QED BY <2>2, <2>3
<1>4. ASSUME NEW q \in Requests, ReadRoles(q) PROVE Rest
  <2>1. op[q] \in Operations
    BY <1>4 DEF ReadRoles, TypeOK, Ended
  <2> QED BY <1>4, <2>1, GrantedIsStage DEF ReadRoles, Go, Forget, TypeOK, Ended, Handling
<1>5. ASSUME NEW q \in Requests, FindByName(q) PROVE Rest
  BY <1>5 DEF FindByName, Go, TypeOK, Stages, Ended, Handling
<1>6. ASSUME NEW q \in Requests, Write(q) PROVE Rest
  <2>1. op[q].permissions \in SUBSET Permissions
    BY <1>6 DEF Write, TypeOK, Ended, Operations
  <2>2. defined' \in [Names -> SUBSET Permissions]
    BY <1>6, <2>1 DEF Write, TypeOK
  <2>3. keys' \in [Requests -> SUBSET Permissions]
    BY <1>6, <2>1 DEF Write, TypeOK
  <2>4. \E s \in {"done", "refused"} : Go(q, s)
    BY <1>6 DEF Write
  <2>5. UNCHANGED <<roles, op, seen, target, personal, signIn, changes>> /\ stage[q] = "write"
    BY <1>6 DEF Write
  <2> QED BY <2>2, <2>3, <2>4, <2>5 DEF Go, TypeOK, Stages, Ended, Handling
<1>7. ASSUME NEW q \in Requests, Count(q) PROVE Rest
  BY <1>7 DEF Count, Go, TypeOK, Stages, Ended, Handling
<1>8. ASSUME NEW q \in Requests, Remove(q) PROVE Rest
  <2>1. CASE q \in target
    <3>1. q \notin target'
      BY <1>8, <2>1 DEF Remove, StillThere
    <3>2. target' \subseteq target
      BY <1>8, <2>1 DEF Remove, StillThere
    <3>3. defined' \in [Names -> SUBSET Permissions]
      BY <1>8, <2>1 DEF Remove, TypeOK
    <3> QED BY <1>8, <2>1, <3>1, <3>2, <3>3 DEF Remove, Go, TypeOK, Stages, Ended, Handling
  <2>2. CASE q \notin target
    BY <1>8, <2>2 DEF Remove, Go, TypeOK, Stages, Ended, Handling
  <2> QED BY <2>1, <2>2
<1>9. ASSUME NEW u \in Users, SetMember(u) PROVE Rest
  BY <1>9 DEF SetMember, Change, TypeOK, Ended, Handling
<1>10. ASSUME NEW o \in Orgs, Dissolve(o) PROVE Rest
  BY <1>10 DEF Dissolve, Change, TypeOK, Ended, Handling
<1>11. ASSUME NEW s \in SignIns, SignInStep(s) PROVE Rest
  BY <1>11 DEF SignInStep, FindOrganization, Begin, Fail, Lock, FindAgain, Commit, Change, At,
               TypeOK, Ended, Handling
<1>12. Rest /\ Remember
  BY <1>1, <1>2, <1>3, <1>4, <1>5, <1>6, <1>7, <1>8, <1>9, <1>10, <1>11 DEF Next, Step
<1> QED BY <1>12, RememberTyped DEF TypeOK

\* Sign-ins: one transaction per user at a time, and one personal organization.
LEMMA SignInsStep ==
  ASSUME IInv, Next
  PROVE  (OnePersonalOrganization /\ LocksAreExclusive /\ CreatingMeansHomeless)'
<1> USE ConstantsAssumption
<1> DEFINE Goal == (OnePersonalOrganization /\ LocksAreExclusive /\ CreatingMeansHomeless)'
<1>1. CASE UNCHANGED <<personal, signIn>>
  BY <1>1 DEF IInv, OnePersonalOrganization, LocksAreExclusive, CreatingMeansHomeless,
              InTransaction
<1>2. ASSUME NEW o \in Orgs, Dissolve(o) PROVE Goal
  BY <1>2 DEF Dissolve, IInv, TypeOK, OnePersonalOrganization, LocksAreExclusive,
              CreatingMeansHomeless, InTransaction
<1>3. ASSUME NEW s \in SignIns, SignInStep(s) PROVE Goal
  <2>1. CASE FindOrganization(s) \/ Begin(s) \/ Fail(s)
    BY <2>1 DEF FindOrganization, Begin, Fail, At, IInv, TypeOK, OnePersonalOrganization,
                LocksAreExclusive, CreatingMeansHomeless, InTransaction
  <2>2. CASE Lock(s)
    BY <2>2 DEF Lock, LockFree, At, IInv, TypeOK, OnePersonalOrganization,
                LocksAreExclusive, CreatingMeansHomeless, InTransaction
  <2>3. CASE FindAgain(s)
    BY <2>3 DEF FindAgain, BelongsSomewhere, At, IInv, TypeOK, OnePersonalOrganization,
                LocksAreExclusive, CreatingMeansHomeless, InTransaction
  <2>4. CASE Commit(s)
    BY <2>4 DEF Commit, At, IInv, TypeOK, OnePersonalOrganization,
                LocksAreExclusive, CreatingMeansHomeless, InTransaction
  <2> QED BY <1>3, <2>1, <2>2, <2>3, <2>4 DEF SignInStep
<1>4. ASSUME NEW q \in Requests, Step(q) PROVE UNCHANGED <<personal, signIn>>
  BY <1>4 DEF Step, Arrive, Scope, ReadMembership, ReadRoles, FindByName, Write, Count, Remove
<1>5. ASSUME NEW u \in Users, SetMember(u) PROVE UNCHANGED <<personal, signIn>>
  BY <1>5 DEF SetMember
<1> QED BY <1>1, <1>2, <1>3, <1>4, <1>5 DEF Next

\* What the policy resolves from roles the actor has had is what the actor may hold.
LEMMA ResolvedWasHeld ==
  ASSUME TypeOK, HistoryIsCurrent, NEW q \in Requests, Handling(q),
         NEW list \in SUBSET hadRoles[q]
  PROVE  Resolve(list) \subseteq MayHold(q)
<1> SUFFICES ASSUME NEW p \in Resolve(list) PROVE p \in MayHold(q)
  OBVIOUS
<1> USE ConstantsAssumption
<1>1. CASE \E r \in list \cap SystemRoles : p \in SystemGrants[r]
  BY <1>1 DEF MayHold
<1>2. CASE \E r \in list \cap Names : p \in defined[r]
  <2>1. PICK r \in list \cap Names : p \in defined[r]
    BY <1>2
  <2>2. p \in Permissions
    BY <2>1 DEF TypeOK
  <2>3. <<r, p>> \in Names \X Permissions
    BY <2>1, <2>2
  <2>4. <<r, p>> \in hadGrants[q]
    BY <2>1, <2>3 DEF HistoryIsCurrent
  <2> QED BY <2>1, <2>2, <2>4 DEF MayHold
<1> QED BY <1>1, <1>2 DEF Resolve

\* While the handler runs, its history only grows and includes the new state.
LEMMA HistoryGrows ==
  ASSUME TypeOK, Remember, NEW q \in Requests, Handling(q)'
  PROVE  /\ hadRoles[q] \subseteq hadRoles'[q] /\ roles'[op[q].actor] \subseteq hadRoles'[q]
         /\ \A g \in Names \X Permissions : g[2] \in defined'[g[1]] => g \in hadGrants'[q]
         /\ MayHold(q) \subseteq MayHold(q)'
<1>1. /\ hadRoles'[q] = hadRoles[q] \cup roles'[op[q].actor]
      /\ hadGrants'[q] = hadGrants[q]
                            \cup {g \in Names \X Permissions : g[2] \in defined'[g[1]]}
  BY DEF Remember
<1>2. MayHold(q) \subseteq MayHold(q)'
  BY <1>1 DEF MayHold
<1> QED BY <1>1, <1>2

\* The histories stay current, and nothing gets past the policy that was not held.
LEMMA HistoryStep ==
  ASSUME IInv, Next
  PROVE  (HistoryIsCurrent /\ ReadWasHeld)'
<1> USE ConstantsAssumption DEF IInv
<1> DEFINE Passed(q) == stage[q] = "write" \/ (stage[q] = "find" /\ op[q].kind = "create")
           Fresh(q) ==
             /\ Handling(q)' => op'[q] = op[q]
             /\ stage'[q] = "policyRoles" =>
                  seen'[q] \subseteq hadRoles[q]
             /\ Passed(q)' => op[q].permissions \subseteq MayHold(q)
             /\ stage'[q] = "find" => op[q].kind \in {"create", "update"}
<1>1. \A q \in Requests :
        UNCHANGED <<op, stage, seen>> \/ (op'[q] = op[q] /\ stage'[q] = stage[q]
                                          /\ seen'[q] = seen[q]) => Fresh(q)
  BY DEF ReadWasHeld, Handling
<1>2. ASSUME NEW q \in Requests, Arrive(q) PROVE Fresh(q)
  BY <1>2 DEF Arrive, Go, TypeOK, Handling
<1>3. ASSUME NEW q \in Requests, Scope(q) PROVE Fresh(q)
  BY <1>3 DEF Scope, Go, TypeOK, Handling
<1>4. ASSUME NEW q \in Requests, NEW granted, stage[q] \in {"guard", "guardRoles"},
             Go(q, Granted(q, granted)), op' = op
      PROVE  Fresh(q)
  <2>1. op[q].kind \in Kinds
    BY <1>4 DEF TypeOK, Ended, Operations
  <2>2. stage'[q] = Admitted(q, granted)
    BY <1>4 DEF Go, Granted, TypeOK
  <2>3. stage'[q] \in {"find", "count", "policy", "refused"}
        /\ (stage'[q] = "find" => op[q].kind = "update")
    BY <2>1, <2>2 DEF Admitted, Handler, Kinds
  <2> QED BY <1>4, <2>3 DEF Handling
<1>5. ASSUME NEW q \in Requests, NEW list \in SUBSET hadRoles[q], Handling(q),
             stage[q] \in {"policy", "policyRoles"},
             Go(q, Granted(q, Resolve(list))), op' = op
      PROVE  Fresh(q)
  <2>1. stage'[q] = Granting(q, Resolve(list))
    BY <1>5 DEF Go, Granted, TypeOK
  <2>2. stage'[q] \in {"find", "write"} => op[q].permissions \subseteq Resolve(list)
    BY <2>1 DEF Granting, WithinGrant
  <2>3. Resolve(list) \subseteq MayHold(q)
    BY <1>5, ResolvedWasHeld
  <2>4. stage'[q] \in {"find", "write", "refused"} /\ (stage'[q] = "find" => op[q].kind = "create")
    BY <2>1 DEF Granting
  <2> QED BY <1>5, <2>2, <2>3, <2>4
<1>6. ASSUME NEW q \in Requests, ReadMembership(q) PROVE Fresh(q)
  <2> HIDE DEF Fresh
  <2>1. stage[q] = "policy" => Handling(q) /\ roles[op[q].actor] \subseteq hadRoles[q]
    BY DEF Handling, HistoryIsCurrent
  <2>2. CASE roles[op[q].actor] \cap Names = {}
    <3>1. /\ op' = op /\ stage[q] \in {"guard", "policy"}
          /\ Go(q, Granted(q, Resolve(roles[op[q].actor])))
      BY <1>6, <2>2 DEF ReadMembership
    <3>2. CASE stage[q] = "guard"
      BY <1>4, <3>1, <3>2
    <3>3. CASE stage[q] = "policy"
      BY <1>5, <2>1, <3>1, <3>3
    <3> QED BY <3>1, <3>2, <3>3
  <2>3. CASE roles[op[q].actor] \cap Names # {}
    BY <1>6, <2>1, <2>3 DEF ReadMembership, Go, TypeOK, Handling, Fresh
  <2> QED BY <2>2, <2>3
<1>7. ASSUME NEW q \in Requests, ReadRoles(q) PROVE Fresh(q)
  <2>1. stage[q] = "policyRoles" => Handling(q) /\ seen[q] \subseteq hadRoles[q]
    BY DEF Handling, ReadWasHeld
  <2> QED BY <1>4, <1>5, <1>7, <2>1 DEF ReadRoles
<1>8. ASSUME NEW q \in Requests, FindByName(q) PROVE Fresh(q)
  BY <1>8 DEF FindByName, Go, TypeOK, ReadWasHeld
<1>9. ASSUME NEW q \in Requests, Write(q) \/ Remove(q) PROVE Fresh(q)
  BY <1>9 DEF Write, Remove, Go, TypeOK, Handling
<1>10. ASSUME NEW q \in Requests, Count(q) PROVE Fresh(q)
  BY <1>10 DEF Count, Go, TypeOK, Handling
<1>11. \A q \in Requests : Fresh(q)
  <2> TAKE q \in Requests
  <2>1. ASSUME NEW t \in Requests, Step(t), t # q
        PROVE  op'[q] = op[q] /\ stage'[q] = stage[q] /\ seen'[q] = seen[q]
    BY <2>1 DEF Step, Arrive, Scope, ReadMembership, ReadRoles, FindByName, Write, Count,
                Remove, Go, Forget, TypeOK
  <2>2. ASSUME Step(q) PROVE Fresh(q)
    BY <1>2, <1>3, <1>6, <1>7, <1>8, <1>9, <1>10, <2>2 DEF Step
  <2>3. ASSUME NEW u \in Users, SetMember(u) PROVE UNCHANGED <<op, stage, seen>>
    BY <2>3 DEF SetMember
  <2>4. ASSUME NEW o \in Orgs, Dissolve(o) PROVE UNCHANGED <<op, stage, seen>>
    BY <2>4 DEF Dissolve
  <2>5. ASSUME NEW s \in SignIns, SignInStep(s) PROVE UNCHANGED <<op, stage, seen>>
    BY <2>5 DEF SignInStep, FindOrganization, Begin, Fail, Lock, FindAgain, Commit
  <2> HIDE DEF Fresh
  <2> QED BY <1>1, <2>1, <2>2, <2>3, <2>4, <2>5 DEF Next
<1>12. Remember
  BY DEF Next
<1>13. HistoryIsCurrent'
  BY <1>11, <1>12, HistoryGrows DEF HistoryIsCurrent
<1>14. ReadWasHeld'
  <2> SUFFICES ASSUME NEW q \in Requests
               PROVE  /\ stage'[q] = "policyRoles" => seen'[q] \subseteq hadRoles'[q]
                      /\ Passed(q)' => op'[q].permissions \subseteq MayHold(q)'
                      /\ stage'[q] = "find" => op'[q].kind \in {"create", "update"}
    BY DEF ReadWasHeld
  <2>1. stage'[q] \in {"policyRoles", "find", "write"} => Handling(q)'
    BY DEF Handling
  <2>2. Fresh(q)
    BY <1>11
  <2>3. stage'[q] = "policyRoles" => seen'[q] \subseteq hadRoles'[q]
    BY <2>1, <2>2, <1>12, HistoryGrows
  <2>4. Passed(q)' => op'[q].permissions \subseteq MayHold(q)'
    BY <2>1, <2>2, <1>12, HistoryGrows
  <2> QED BY <2>1, <2>2, <2>3, <2>4
<1> QED BY <1>13, <1>14

\* The invariant is inductive.
LEMMA StepIInv == IInv /\ [Next]_vars => IInv'
<1> SUFFICES ASSUME IInv, [Next]_vars PROVE IInv'
  OBVIOUS
<1>1. CASE Next
  BY <1>1, TypeStep, SignInsStep, HistoryStep DEF IInv
<1>2. CASE UNCHANGED vars
  BY <1>2 DEF vars, request, IInv, TypeOK, OnePersonalOrganization, LocksAreExclusive,
              CreatingMeansHomeless, HistoryIsCurrent, ReadWasHeld, InTransaction,
              Handling, MayHold
<1> QED BY <1>1, <1>2

\* The strengthening holds in every reachable state (Organizations).
THEOREM Inductive == Spec => []IInv
BY InitIInv, StepIInv, PTL DEF Spec

\* The state of every component keeps its type.
THEOREM Typed == Spec => []TypeOK
<1>1. IInv => TypeOK
  BY DEF IInv
<1> QED BY <1>1, Inductive, PTL

\* No user ever owns two personal organizations, however many sign-ins overlap
\* (createIfAbsent).
THEOREM OnePersonal == Spec => []OnePersonalOrganization
<1>1. IInv => OnePersonalOrganization
  BY DEF IInv
<1> QED BY <1>1, Inductive, PTL

\* Roles and API keys are never given what their author could not have held
\* (assertWithinActorGrant, assertScopes, with the two reads of permissionsFor).
THEOREM GrantsHeld == Spec => GrantsWereHeld
<1>1. IInv => (\A q \in Requests : stage[q] = "write" /\ stage'[q] = "done"
                                   => op[q].permissions \subseteq MayHold(q))
  BY DEF IInv, ReadWasHeld
<1> QED BY <1>1, Inductive, PTL DEF GrantsWereHeld
=============================================================================
