-------------------------- MODULE MCOrganizations --------------------------
(* Two members and one custom role that requests define and members hold,  *)
(* two requests at once; or two sign-ins of one user.                      *)
EXTENDS Organizations, TLC

CONSTANTS ann, bob, r1, manage, read, q1, q2, s1, s2, o1, o2

MCUsers        == {ann, bob}
MCNames        == {r1}
MCPermissions  == {manage, read}
MCSystemRoles  == {"owner", "admin"}
MCSystemGrants == [r \in MCSystemRoles |-> IF r = "owner" THEN {manage, read} ELSE {manage}]
MCRoleLists    == {{}, {"owner"}, {"admin", r1}}
MCRequests     == {q1, q2}
MCAsks         == {<<"create", {read}>>, <<"update", {read}>>, <<"update", {manage}>>,
                   <<"delete", {read}>>, <<"issue", {read}>>}
MCAsked        == {[kind |-> a[1], actor |-> u, role |-> r1, permissions |-> a[2]] :
                     a \in MCAsks, u \in MCUsers}
MCSignIns      == {s1, s2}
MCUserOf       == [s \in MCSignIns |-> bob]
MCOrgs         == {o1, o2}
MCWorkloads    == {MCRequests, MCSignIns}
MCSymmetry     == Permutations(MCRequests) \cup Permutations(MCSignIns) \cup Permutations(MCOrgs)
============================================================================
