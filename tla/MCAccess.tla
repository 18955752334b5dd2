------------------------------ MODULE MCAccess ------------------------------
(***************************************************************************)
(* An instance of Access: a principal that one policy makes an admin and   *)
(* another, through a group, a viewer.                                     *)
(***************************************************************************)
EXTENDS Access

CONSTANTS alice, staff

MCPrincipals == {alice}
MCGroups == {staff}

MCAdmins == [EmptyDocument EXCEPT
  !.grants = {[role |-> 3, principals |-> {alice}, groups |-> {}],
              [role |-> 1, principals |-> {}, groups |-> {staff}]}]
MCViewers == [EmptyDocument EXCEPT
  !.claim = "sub", !.groupsClaim = TRUE,
  !.members = [g \in Groups |-> {alice}],
  !.grants = {[role |-> 1, principals |-> {}, groups |-> {staff}]}]
MCDocuments == {MCAdmins, MCViewers}

MCIdentities == {[email |-> alice, sub |-> NoPrincipal, groups |-> {staff}]}
=============================================================================
