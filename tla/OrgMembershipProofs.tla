------------------------ MODULE OrgMembershipProofs ------------------------
(***************************************************************************)
(* Proofs about OrgMembership, for any number of users, invitations and    *)
(* requests and every interleaving.  The first part shows that ownership   *)
(* comes from owners; the second what a request that was not overtaken     *)
(* relies on, and from it that an owner remains, that assignments are      *)
(* those of members, that guests stay below their ceiling and that a       *)
(* settled invitation stays settled, with the exceptions these name.       *)
(***************************************************************************)
EXTENDS OrgMembership, TLAPS

\* Every request has its kind's actor, target and argument.
LEMMA RequestTypes ==
    ASSUME NEW q \in Requests
    PROVE  /\ q.kind \in {"role", "invite"} => q.actor \in Users /\ q.target \in Users /\ q.new \in OrgRoles
           /\ q.kind \in {"assign", "regrade"} => q.actor \in Users /\ q.target \in Users /\ q.new \in ProjectRoles
           /\ q.kind \in {"remove", "unassign"} => q.actor \in Users /\ q.target \in Users
           /\ q.kind = "revoke" => q.actor \in Users /\ q.invite \in Invites
           /\ q.kind = "join" => q.actor \in Users /\ q.target = q.actor
           /\ q.kind = "accept" => q.actor \in Users /\ q.target = q.actor /\ q.invite \in Invites
           /\ q.kind \in {"activate", "deactivate"} => q.target \in Users /\ q.actor = "none"
  BY OffersAreRoles DEF Requests, AdminRequests, OwnRequests, ScimRequests, NoRequest

\* TypeOK of all that a step of a request writes itself.
Typed ==
    /\ role \in [Users -> OrgRoles \cup {"none"}]
    /\ proj \in [Users -> ProjectRoles \cup {"none"}]
    /\ inv \in [Invites -> Invitations]
    /\ pc \in [Sessions -> {"idle", "read", "check", "write"}]
    /\ req \in [Sessions -> Requests]
    /\ ctx \in [Sessions -> OrgRoles \cup {"none"}]
    /\ seen \in [Sessions -> OrgRoles \cup ProjectRoles \cup {"none"}]
    /\ lost \subseteq Sessions
    /\ owned \subseteq Users /\ usurped \subseteq Users

LEMMA TypeInit == Init => TypeOK
  BY FounderIsAUser DEF Init, TypeOK, OrgRoles, ProjectRoles, Invitations, Unsent, Requests

LEMMA GoType ==
    ASSUME TypeOK, NEW s \in Sessions, NEW phase \in {"check", "write"},
           NEW row \in OrgRoles \cup ProjectRoles \cup {"none"}, Go(s, phase, row)
    PROVE  Typed'
  BY DEF TypeOK, Typed, Go, tableVars, history

LEMMA CloseType ==
    ASSUME TypeOK, NEW s \in Sessions, Close(s)
    PROVE  /\ pc' \in [Sessions -> {"idle", "read", "check", "write"}]
           /\ req' \in [Sessions -> Requests]
           /\ ctx' \in [Sessions -> OrgRoles \cup {"none"}]
           /\ seen' \in [Sessions -> OrgRoles \cup ProjectRoles \cup {"none"}]
  BY DEF TypeOK, Close, Requests

LEMMA AskType ==
    ASSUME TypeOK, NEW s \in Sessions, Begin(s)
    PROVE  Typed'
<1>1. PICK q \in Requests : Ask(s, q) /\ (q.actor = "none" \/ q.actor \in Users)
  <2>1. CASE AskAsAdmin(s)
    BY <2>1 DEF AskAsAdmin, AdminRequests, Requests
  <2>2. CASE AskForOneself(s)
    BY <2>2 DEF AskForOneself, OwnRequests, Requests
  <2>3. CASE AskByScim(s)
    BY <2>3 DEF AskByScim, ScimRequests, Requests
  <2> QED
    BY <2>1, <2>2, <2>3 DEF Begin
<1> QED
  BY <1>1 DEF Ask, TypeOK, Typed, tableVars, history

\* The row a request loads has a role or is none.
LEMMA LoadedType ==
    ASSUME TypeOK, NEW s \in Sessions, req[s].target \in Users
    PROVE  Loaded(s) \in OrgRoles \cup {"none"}
  BY DEF TypeOK, Loaded

LEMMA TypeNext == TypeOK /\ [Next]_vars => TypeOK'
<1> SUFFICES ASSUME TypeOK, [Next]_vars PROVE TypeOK'
  OBVIOUS
<1>0. ASSUME UNCHANGED vars PROVE TypeOK'
  BY <1>0 DEF TypeOK, vars, tableVars, history
<1>1. ASSUME NEW s \in Sessions, Step(s) PROVE Typed'
  <2> DEFINE q == req[s]
  <2>q. q \in Requests
    BY DEF TypeOK
  <2>1. CASE RoleRead(s)
    <3>1. Loaded(s) \in OrgRoles \cup {"none"}
      BY <2>1, <2>q, RequestTypes, LoadedType DEF RoleRead, Asked
    <3> QED
      BY <2>1, <3>1, GoType DEF RoleRead
  <2>2. CASE RemovalRead(s)
    <3>1. Loaded(s) \in OrgRoles \cup {"none"}
      BY <2>2, <2>q, RequestTypes, LoadedType DEF RemovalRead, Asked
    <3> QED
      BY <2>2, <3>1, GoType DEF RemovalRead
  <2>3. CASE DeactivationRead(s)
    <3>1. role[req[s].target] \in OrgRoles \cup {"none"}
      BY <2>3, <2>q, RequestTypes DEF DeactivationRead, Asked, TypeOK
    <3> QED
      BY <2>3, <3>1, GoType DEF DeactivationRead
  <2>4. CASE CountOwners(s)
    <3>1. seen[s] \in OrgRoles \cup ProjectRoles \cup {"none"}
      BY DEF TypeOK
    <3> QED
      BY <2>4, <3>1, GoType DEF CountOwners
  <2>5. CASE \/ ActivationRead(s) \/ InviteRead(s) \/ RevokeRead(s) \/ AcceptRead(s) \/ InviterRead(s)
             \/ AssignRead(s) \/ JoinRead(s) \/ UnassignRead(s)
    BY <2>5, GoType DEF ActivationRead, InviteRead, RevokeRead, AcceptRead, InviterRead,
                        AssignRead, JoinRead, UnassignRead
  <2>6. CASE RegradeRead(s)
    <3>1. proj[req[s].target] \in ProjectRoles \cup {"none"}
      BY <2>6, <2>q, RequestTypes DEF RegradeRead, Asked, TypeOK
    <3> QED
      BY <2>6, <3>1, GoType DEF RegradeRead
  <2>7. CASE RoleWrite(s)
    <3>1. q.target \in Users /\ q.new \in OrgRoles
      BY <2>7, <2>q, RequestTypes DEF RoleWrite, Asked
    <3> QED
      BY <2>7, <3>1, CloseType DEF RoleWrite, End, TypeOK, Typed, Granted, history, ProjectRoles
  <2>8. CASE RemovalWrite(s)
    <3>1. q.target \in Users
      BY <2>8, <2>q, RequestTypes DEF RemovalWrite, Asked
    <3> QED
      BY <2>8, <3>1, CloseType DEF RemovalWrite, DeleteMember, Holding, TypeOK, Typed, history
  <2>9. CASE DeactivationWrite(s)
    <3>1. q.target \in Users
      BY <2>9, <2>q, RequestTypes DEF DeactivationWrite, Asked
    <3> QED
      BY <2>9, <3>1, CloseType DEF DeactivationWrite, DeleteMember, Holding, TypeOK, Typed, history
  <2>10. CASE ActivationWrite(s)
    <3>1. q.target \in Users
      BY <2>10, <2>q, RequestTypes DEF ActivationWrite, Asked
    <3> QED
      BY <2>10, <3>1, CloseType DEF ActivationWrite, Join, Granted, End, TypeOK, Typed, OrgRoles
  <2>11. CASE RevokeWrite(s)
    <3>1. q.invite \in Invites
      BY <2>11, <2>q, RequestTypes DEF RevokeWrite, Asked
    <3>2. [inv[q.invite] EXCEPT !.status = "revoked"] \in Invitations
      BY <3>1 DEF TypeOK, Invitations
    <3>3. inv' \in [Invites -> Invitations]
      BY <2>11, <3>2 DEF RevokeWrite, TypeOK
    <3> QED
      BY <2>11, <3>3, CloseType DEF RevokeWrite, End, TypeOK, Typed, history
  <2>12. CASE AcceptWrite(s)
    <3>1. q.actor \in Users /\ q.invite \in Invites
      BY <2>12, <2>q, RequestTypes DEF AcceptWrite, Asked
    <3>2. /\ inv[q.invite].role \in OrgRoles \cup {"none"}
          /\ [inv[q.invite] EXCEPT !.status = "accepted"] \in Invitations
      BY <3>1 DEF TypeOK, Invitations
    <3>3. inv' \in [Invites -> Invitations]
      BY <2>12, <3>2 DEF AcceptWrite, TypeOK
    <3>4. role' \in [Users -> OrgRoles \cup {"none"}] /\ owned' \subseteq Users /\ usurped' \subseteq Users
      BY <2>12, <3>1, <3>2 DEF AcceptWrite, Join, Granted, TypeOK
    <3>5. proj' \in [Users -> ProjectRoles \cup {"none"}]
      BY <2>12, <3>1 DEF AcceptWrite, TypeOK, ProjectRoles
    <3> QED
      BY <2>12, <3>3, <3>4, <3>5, CloseType DEF AcceptWrite, End, TypeOK, Typed
  <2>13. ASSUME NEW i \in Invites, NEW project \in BOOLEAN, InviteWrite(s, i, project) PROVE Typed'
    <3>1. q.actor \in Users /\ q.target \in Users /\ q.new \in OrgRoles
      BY <2>13, <2>q, RequestTypes DEF InviteWrite, Asked
    <3>2. inv' \in [Invites -> Invitations]
      BY <2>13, <3>1 DEF InviteWrite, TypeOK, Invitations
    <3> QED
      BY <2>13, <3>2, CloseType DEF InviteWrite, End, TypeOK, Typed, history
  <2>14. CASE AssignWrite(s)
    <3>1. q.target \in Users /\ (q.kind = "assign" => q.new \in ProjectRoles)
      BY <2>14, <2>q, RequestTypes DEF AssignWrite
    <3>2. proj' \in [Users -> ProjectRoles \cup {"none"}]
      BY <2>14, <3>1 DEF AssignWrite, TypeOK, ProjectRoles
    <3> QED
      BY <2>14, <3>2, CloseType DEF AssignWrite, End, TypeOK, Typed, history
  <2>15. CASE RegradeWrite(s)
    <3>1. q.target \in Users /\ q.new \in ProjectRoles
      BY <2>15, <2>q, RequestTypes DEF RegradeWrite, Asked
    <3> QED
      BY <2>15, <3>1, CloseType DEF RegradeWrite, End, TypeOK, Typed, history
  <2>16. CASE UnassignWrite(s)
    <3>1. q.target \in Users
      BY <2>16, <2>q, RequestTypes DEF UnassignWrite, Asked
    <3> QED
      BY <2>16, <3>1, CloseType DEF UnassignWrite, Holding, TypeOK, Typed, history
  <2>17. CASE Refuse(s)
    BY <2>17, CloseType DEF Refuse, End, TypeOK, Typed, tableVars, history
  <2> QED
    BY <1>1, <2>1, <2>2, <2>3, <2>4, <2>5, <2>6, <2>7, <2>8, <2>9, <2>10, <2>11, <2>12, <2>13, <2>14,
       <2>15, <2>16, <2>17 DEF Step
<1>2. ASSUME Next PROVE Typed' /\ overtaken' \subseteq Sessions /\ astray' \subseteq Users
  BY <1>1, <1>2, AskType DEF Next, Remember
<1> QED
  BY <1>0, <1>2 DEF TypeOK, Typed

\* Every variable of OrgMembership keeps its type.
THEOREM OrgTypeOK == Spec => []TypeOK
<1> QED
  BY TypeInit, TypeNext, PTL DEF Spec

-----------------------------------------------------------------------------
(***************************************************************************)
(* OwnershipComesFromOwners.  A role an owner read for itself or for an    *)
(* invitation may be long out of date when it is used; what remains true   *)
(* is that its holder has been an owner.                                   *)
(***************************************************************************)
OwnersAreKnown == \A u \in Users : role[u] = "owner" => u \in owned
ContextsAreKnown == \A s \in Sessions : ctx[s] = "owner" => req[s].actor \in owned
OwnerInvitesAreKnown == \A i \in Invites : inv[i].role = "owner" => inv[i].by \in owned
OwnersAskForOwners ==
    \A s \in Sessions : pc[s] \in {"check", "write"} /\ req[s].kind \in {"role", "invite"} /\ req[s].new = "owner"
                        => ctx[s] = "owner"

Provenance ==
    /\ OwnershipComesFromOwners
    /\ OwnersAreKnown /\ ContextsAreKnown /\ OwnerInvitesAreKnown /\ OwnersAskForOwners

LEMMA ProvenanceInit == Init => Provenance
  BY DEF Init, Provenance, OwnershipComesFromOwners, OwnersAreKnown, ContextsAreKnown,
         OwnerInvitesAreKnown, OwnersAskForOwners, Unsent

\* A reading step disturbs at most what a writing request may rely on.
LEMMA ProvenanceGo ==
    ASSUME TypeOK, Provenance, NEW s \in Sessions, NEW phase, NEW row, Go(s, phase, row),
           req[s].kind \in {"role", "invite"} /\ req[s].new = "owner" => ctx[s] = "owner"
    PROVE  Provenance'
  BY DEF Go, TypeOK, Provenance, OwnershipComesFromOwners, OwnersAreKnown, ContextsAreKnown,
         OwnerInvitesAreKnown, OwnersAskForOwners, tableVars, history

\* A request that ends leaves the others as they were.
LEMMA ProvenanceClose ==
    ASSUME TypeOK, Provenance, NEW s \in Sessions, Close(s), owned \subseteq owned'
    PROVE  ContextsAreKnown' /\ OwnersAskForOwners'
  BY DEF Close, TypeOK, Provenance, ContextsAreKnown, OwnersAskForOwners

\* Ownership granted on the authority of a known owner keeps the record clean.
LEMMA ProvenanceGrant ==
    ASSUME Provenance, NEW u, NEW r, NEW authority, Granted(u, r, authority),
           r = "owner" => authority \in owned
    PROVE  OwnershipComesFromOwners' /\ owned \subseteq owned' /\ (r = "owner" => u \in owned')
  BY DEF Granted, Provenance, OwnershipComesFromOwners

LEMMA ProvenanceBegin ==
    ASSUME TypeOK, Provenance, NEW s \in Sessions, Begin(s)
    PROVE  Provenance'
<1>1. PICK q \in Requests : Ask(s, q) /\ (q.actor = "none" \/ q.actor \in Users)
  <2>1. CASE AskAsAdmin(s)
    BY <2>1 DEF AskAsAdmin, AdminRequests, Requests
  <2>2. CASE AskForOneself(s)
    BY <2>2 DEF AskForOneself, OwnRequests, Requests
  <2>3. CASE AskByScim(s)
    BY <2>3 DEF AskByScim, ScimRequests, Requests
  <2> QED
    BY <2>1, <2>2, <2>3 DEF Begin
<1>2. ContextsAreKnown'
  BY <1>1, NoneIsNoName DEF Ask, TypeOK, Provenance, ContextsAreKnown, OwnersAreKnown, history
<1>3. OwnersAskForOwners'
  BY <1>1 DEF Ask, TypeOK, Provenance, OwnersAskForOwners
<1> QED
  BY <1>1, <1>2, <1>3 DEF Ask, Provenance, OwnershipComesFromOwners, OwnersAreKnown, OwnerInvitesAreKnown,
                          tableVars, history

LEMMA ProvenanceNext == TypeOK /\ Provenance /\ [Next]_vars => Provenance'
<1> SUFFICES ASSUME TypeOK, Provenance, [Next]_vars PROVE Provenance'
  OBVIOUS
<1>0. CASE UNCHANGED vars
  BY <1>0 DEF vars, tableVars, history, Provenance, OwnershipComesFromOwners, OwnersAreKnown,
              ContextsAreKnown, OwnerInvitesAreKnown, OwnersAskForOwners
<1>1. ASSUME NEW s \in Sessions, Step(s) PROVE Provenance'
  <2> DEFINE q == req[s]
  <2>q. q \in Requests
    BY DEF TypeOK
  <2>1. CASE RoleRead(s)
    BY <2>1, ProvenanceGo DEF RoleRead
  <2>2. CASE InviteRead(s)
    BY <2>2, ProvenanceGo DEF InviteRead
  <2>3. CASE \/ RemovalRead(s) \/ DeactivationRead(s) \/ ActivationRead(s) \/ RevokeRead(s) \/ AcceptRead(s)
             \/ InviterRead(s) \/ AssignRead(s) \/ JoinRead(s) \/ RegradeRead(s) \/ UnassignRead(s)
    BY <2>3, ProvenanceGo DEF RemovalRead, DeactivationRead, ActivationRead, RevokeRead, AcceptRead,
                              InviterRead, AssignRead, JoinRead, RegradeRead, UnassignRead, Asked
  <2>4. CASE CountOwners(s)
    BY <2>4, ProvenanceGo DEF CountOwners, MemberKinds, Provenance, OwnersAskForOwners
  <2>5. CASE RoleWrite(s)
    <3>1. q.target \in Users /\ (q.new = "owner" => q.actor \in owned)
      BY <2>5, <2>q, RequestTypes DEF RoleWrite, Asked, Provenance, OwnersAskForOwners, ContextsAreKnown
    <3>2. /\ OwnershipComesFromOwners' /\ owned \subseteq owned'
          /\ role' # role => (q.new = "owner" => q.target \in owned')
      BY <2>5, <3>1, ProvenanceGrant DEF RoleWrite, Provenance, OwnershipComesFromOwners, history
    <3>3. OwnersAreKnown'
      BY <2>5, <3>1, <3>2 DEF RoleWrite, TypeOK, Provenance, OwnersAreKnown
    <3>4. OwnerInvitesAreKnown'
      BY <2>5, <3>2 DEF RoleWrite, Provenance, OwnerInvitesAreKnown
    <3> QED
      BY <2>5, <3>2, <3>3, <3>4, ProvenanceClose DEF RoleWrite, End, Provenance
  <2>6. CASE ActivationWrite(s)
    <3>1. OwnershipComesFromOwners' /\ owned \subseteq owned'
      BY <2>6, ProvenanceGrant DEF ActivationWrite, Join
    <3>2. OwnersAreKnown'
      BY <2>6, <3>1 DEF ActivationWrite, Join, TypeOK, Provenance, OwnersAreKnown
    <3>3. OwnerInvitesAreKnown'
      BY <2>6, <3>1 DEF ActivationWrite, Provenance, OwnerInvitesAreKnown
    <3> QED
      BY <2>6, <3>1, <3>2, <3>3, ProvenanceClose DEF ActivationWrite, End, Provenance
  <2>7. CASE AcceptWrite(s)
    <3>1. q.actor \in Users /\ q.invite \in Invites
      BY <2>7, <2>q, RequestTypes DEF AcceptWrite, Asked
    <3>2. inv[q.invite].role = "owner" => inv[q.invite].by \in owned
      BY <3>1 DEF Provenance, OwnerInvitesAreKnown
    <3>3. /\ OwnershipComesFromOwners' /\ owned \subseteq owned'
          /\ inv[q.invite].role = "owner" => q.actor \in owned'
      BY <2>7, <3>2, ProvenanceGrant DEF AcceptWrite, Join
    <3>4. OwnersAreKnown'
      BY <2>7, <3>1, <3>3 DEF AcceptWrite, Join, TypeOK, Provenance, OwnersAreKnown
    <3>5. ASSUME NEW i \in Invites PROVE inv'[i].role = inv[i].role /\ inv'[i].by = inv[i].by
      BY <2>7, <3>1 DEF AcceptWrite, TypeOK, Invitations
    <3>6. OwnerInvitesAreKnown'
      BY <3>3, <3>5 DEF Provenance, OwnerInvitesAreKnown
    <3> QED
      BY <2>7, <3>3, <3>4, <3>6, ProvenanceClose DEF AcceptWrite, End, Provenance
  <2>8. ASSUME NEW i \in Invites, NEW project \in BOOLEAN, InviteWrite(s, i, project) PROVE Provenance'
    <3>1. q.new = "owner" => q.actor \in owned
      BY <2>8 DEF InviteWrite, Asked, Provenance, OwnersAskForOwners, ContextsAreKnown
    <3>2. OwnerInvitesAreKnown'
      BY <2>8, <3>1 DEF InviteWrite, TypeOK, Provenance, OwnerInvitesAreKnown, history
    <3> QED
      BY <2>8, <3>2, ProvenanceClose DEF InviteWrite, End, Provenance, OwnershipComesFromOwners,
                                         OwnersAreKnown, history
  <2>9. CASE RevokeWrite(s)
    <3>1. q.invite \in Invites
      BY <2>9, <2>q, RequestTypes DEF RevokeWrite, Asked
    <3>2. ASSUME NEW i \in Invites PROVE inv'[i].role = inv[i].role /\ inv'[i].by = inv[i].by
      BY <2>9, <3>1 DEF RevokeWrite, TypeOK, Invitations
    <3>3. OwnerInvitesAreKnown'
      BY <2>9, <3>2 DEF RevokeWrite, Provenance, OwnerInvitesAreKnown, history
    <3> QED
      BY <2>9, <3>3, ProvenanceClose DEF RevokeWrite, End, Provenance, OwnershipComesFromOwners,
                                         OwnersAreKnown, history
  <2>10. CASE RemovalWrite(s) \/ DeactivationWrite(s)
    <3>1. /\ Close(s) /\ UNCHANGED <<inv, history>>
          /\ role' = role \/ role' = [role EXCEPT ![q.target] = "none"]
      BY <2>10 DEF RemovalWrite, DeactivationWrite, DeleteMember
    <3>2. OwnersAreKnown'
      BY <3>1 DEF TypeOK, Provenance, OwnersAreKnown, history
    <3> QED
      BY <3>1, <3>2, ProvenanceClose DEF Provenance, OwnershipComesFromOwners, OwnerInvitesAreKnown, history
  <2>11. CASE AssignWrite(s) \/ RegradeWrite(s) \/ UnassignWrite(s) \/ Refuse(s)
    <3>1. Close(s) /\ UNCHANGED <<role, inv, history>>
      BY <2>11 DEF AssignWrite, RegradeWrite, UnassignWrite, Refuse, End, tableVars
    <3> QED
      BY <3>1, ProvenanceClose DEF Provenance, OwnershipComesFromOwners, OwnersAreKnown,
                                   OwnerInvitesAreKnown, history
  <2> QED
    BY <1>1, <2>1, <2>2, <2>3, <2>4, <2>5, <2>6, <2>7, <2>8, <2>9, <2>10, <2>11 DEF Step
<1> QED
  BY <1>0, <1>1, ProvenanceBegin DEF Next

\* Whatever requests overlap, nobody comes to own the organisation but on the
\* authority of a user who has owned it (update_member_role, accept_invite).
THEOREM OrgOwnership == Spec => []OwnershipComesFromOwners
<1>1. Init => TypeOK /\ Provenance
  BY TypeInit, ProvenanceInit
<1>2. TypeOK /\ Provenance /\ [Next]_vars => (TypeOK /\ Provenance)'
  BY TypeNext, ProvenanceNext
<1>3. Provenance => OwnershipComesFromOwners
  BY DEF Provenance
<1> QED
  BY <1>1, <1>2, <1>3, PTL DEF Spec

-----------------------------------------------------------------------------
(***************************************************************************)
(* What a request that was not overtaken has read is still so: the role of *)
(* its actor when the request is about the actor, the row it has loaded,   *)
(* the second owner it has counted, the membership it assigns by and the   *)
(* invitation it answers.                                                  *)
(***************************************************************************)
ActorIsCurrent(s) ==
    pc[s] # "idle" /\ req[s].actor = req[s].target /\ req[s].actor \in Users => ctx[s] = role[req[s].actor]
RowIsCurrent(s) ==
    pc[s] \in {"check", "write"} /\ req[s].kind \in MemberKinds => seen[s] = role[req[s].target]
CountIsCurrent(s) ==
    /\ pc[s] = "write" /\ req[s].kind \in MemberKinds /\ seen[s] = "owner"
    /\ req[s].kind = "role" => req[s].new # "owner"
    => \E u \in Owners : u # req[s].target
MembershipIsCurrent(s) ==
    /\ pc[s] = "write" /\ req[s].kind = "assign" => role[req[s].target] # "none"
    /\ pc[s] = "write" /\ req[s].kind \in {"assign", "regrade"} => WithinCeiling(role[req[s].target], req[s].new)
AnswerIsCurrent(s) ==
    pc[s] \in {"check", "write"} /\ req[s].kind \in {"accept", "revoke"} => inv[req[s].invite].status = "pending"

IsCurrent(s) ==
    ActorIsCurrent(s) /\ RowIsCurrent(s) /\ CountIsCurrent(s) /\ MembershipIsCurrent(s) /\ AnswerIsCurrent(s)
Current == \A s \in Sessions \ overtaken : IsCurrent(s)

LEMMA CurrentInit == Init => Current
  BY DEF Init, Current, IsCurrent, ActorIsCurrent, RowIsCurrent, CountIsCurrent, MembershipIsCurrent, AnswerIsCurrent

\* A step of a request begins it, reads or ends it.
LEMMA StepShape ==
    ASSUME TypeOK, NEW s \in Sessions, Step(s)
    PROVE  \/ \E phase \in {"check", "write"} : \E row : Go(s, phase, row) /\ pc[s] \in {"read", "check"}
           \/ Close(s) /\ pc[s] # "idle"
<1>1. CASE \/ RoleRead(s) \/ RemovalRead(s) \/ DeactivationRead(s) \/ CountOwners(s) \/ ActivationRead(s)
           \/ InviteRead(s) \/ RevokeRead(s) \/ AcceptRead(s) \/ InviterRead(s)
           \/ AssignRead(s) \/ JoinRead(s) \/ RegradeRead(s) \/ UnassignRead(s)
  BY <1>1 DEF RoleRead, RemovalRead, DeactivationRead, CountOwners, ActivationRead, InviteRead, RevokeRead,
              AcceptRead, InviterRead, AssignRead, JoinRead, RegradeRead, UnassignRead, Asked
<1>2. CASE ~(\/ RoleRead(s) \/ RemovalRead(s) \/ DeactivationRead(s) \/ CountOwners(s) \/ ActivationRead(s)
             \/ InviteRead(s) \/ RevokeRead(s) \/ AcceptRead(s) \/ InviterRead(s)
             \/ AssignRead(s) \/ JoinRead(s) \/ RegradeRead(s) \/ UnassignRead(s))
  BY <1>2 DEF Step, RoleWrite, RemovalWrite, DeactivationWrite, DeleteMember, ActivationWrite, RevokeWrite,
              AcceptWrite, InviteWrite, AssignWrite, RegradeWrite, UnassignWrite, Refuse, End, Asked
<1> QED
  BY <1>1, <1>2

LEMMA BeginShape ==
    ASSUME TypeOK, NEW s \in Sessions, Begin(s)
    PROVE  \E q \in Requests : Ask(s, q) /\ (q.actor = "none" \/ q.actor \in Users)
                               /\ (q.kind = "join" => role[q.actor] # "none")
<1>1. CASE AskAsAdmin(s)
  BY <1>1 DEF AskAsAdmin, AdminRequests, Requests
<1>2. CASE AskForOneself(s)
  BY <1>2 DEF AskForOneself, OwnRequests, Requests
<1>3. CASE AskByScim(s)
  BY <1>3 DEF AskByScim, ScimRequests, Requests
<1> QED
  BY <1>1, <1>2, <1>3 DEF Begin

LEMMA StepFrame ==
    ASSUME TypeOK, NEW s \in Sessions, Begin(s) \/ Step(s), NEW o \in Sessions, o # s
    PROVE  pc'[o] = pc[o] /\ req'[o] = req[o] /\ ctx'[o] = ctx[o] /\ seen'[o] = seen[o]
<1>1. CASE Begin(s)
  BY <1>1, BeginShape DEF Ask, TypeOK
<1>2. CASE Step(s)
  BY <1>2, StepShape DEF Go, Close, TypeOK
<1> QED
  BY <1>1, <1>2

\* Whoever else takes the step: what it changes, it overtakes.
LEMMA OthersCurrent ==
    ASSUME TypeOK, Current, NEW s \in Sessions, Begin(s) \/ Step(s), Remember,
           NEW o \in Sessions \ overtaken', o # s
    PROVE  IsCurrent(o)'
<1>1. pc'[o] = pc[o] /\ req'[o] = req[o] /\ ctx'[o] = ctx[o] /\ seen'[o] = seen[o]
  BY StepFrame
<1>2. CASE pc[o] = "idle"
  BY <1>1, <1>2 DEF IsCurrent, ActorIsCurrent, RowIsCurrent, CountIsCurrent, MembershipIsCurrent, AnswerIsCurrent
<1>3. CASE pc[o] # "idle"
  <2>1. IsCurrent(o) /\ ~Overtakes(o)
    BY <1>1, <1>3 DEF Remember, Current
  <2>q. req[o] \in Requests
    BY DEF TypeOK
  <2>2. ActorIsCurrent(o)'
    BY <1>1, <2>1 DEF IsCurrent, ActorIsCurrent, Overtakes
  <2>3. pc[o] \in {"check", "write"} /\ req[o].target \in Users => role'[req[o].target] = role[req[o].target]
    BY <2>1 DEF Overtakes
  <2>4. RowIsCurrent(o)'
    BY <1>1, <2>1, <2>3, <2>q, RequestTypes DEF IsCurrent, RowIsCurrent, MemberKinds
  <2>5. CountIsCurrent(o)'
    BY <1>1, <2>1 DEF IsCurrent, CountIsCurrent, Overtakes, Owners
  <2>6. MembershipIsCurrent(o)'
    BY <1>1, <2>1, <2>3, <2>q, RequestTypes DEF IsCurrent, MembershipIsCurrent, WithinCeiling
  <2>7. AnswerIsCurrent(o)'
    BY <1>1, <2>1, <2>q, RequestTypes DEF IsCurrent, AnswerIsCurrent, Overtakes
  <2> QED
    BY <2>2, <2>4, <2>5, <2>6, <2>7 DEF IsCurrent
<1> QED
  BY <1>2, <1>3

\* What a request reads is so when it reads it.
LEMMA OwnGo ==
    ASSUME TypeOK, NEW s \in Sessions, NEW phase, NEW row, Go(s, phase, row), pc[s] # "idle", ActorIsCurrent(s),
           req[s].kind \in MemberKinds => row = role[req[s].target],
           phase = "write" /\ req[s].kind \in MemberKinds /\ row = "owner" /\ (req[s].kind = "role" => req[s].new # "owner")
               => \E u \in Owners : u # req[s].target,
           phase = "write" /\ req[s].kind = "assign" => role[req[s].target] # "none",
           phase = "write" /\ req[s].kind \in {"assign", "regrade"} => WithinCeiling(role[req[s].target], req[s].new),
           req[s].kind \in {"accept", "revoke"} => inv[req[s].invite].status = "pending"
    PROVE  IsCurrent(s)'
<1>1. pc'[s] = phase /\ seen'[s] = row /\ UNCHANGED <<role, inv, req, ctx>>
  BY DEF Go, TypeOK, tableVars
<1> QED
  BY <1>1 DEF IsCurrent, ActorIsCurrent, RowIsCurrent, CountIsCurrent, MembershipIsCurrent, AnswerIsCurrent,
              WithinCeiling, Owners

LEMMA SecondOwner == ASSUME ~AtMostOneOwner, NEW t PROVE \E u \in Owners : u # t
  BY DEF AtMostOneOwner

LEMMA OwnCurrent ==
    ASSUME TypeOK, Current, NEW s \in Sessions, Begin(s) \/ Step(s), Remember, s \notin overtaken'
    PROVE  IsCurrent(s)'
<1> DEFINE q == req[s]
<1>q. q \in Requests
  BY DEF TypeOK
<1>1. CASE Begin(s)
  <2>1. PICK r \in Requests : Ask(s, r) /\ (r.actor = "none" \/ r.actor \in Users)
    BY <1>1, BeginShape
  <2>2. pc'[s] = "read" /\ req'[s] = r /\ ctx'[s] = (IF r.actor = "none" THEN "none" ELSE role[r.actor]) /\ role' = role
    BY <2>1 DEF Ask, TypeOK, tableVars
  <2> QED
    BY <2>1, <2>2, NoneIsNoName
    DEF IsCurrent, ActorIsCurrent, RowIsCurrent, CountIsCurrent, MembershipIsCurrent, AnswerIsCurrent
<1>2. CASE Close(s)
  <2>1. pc'[s] = "idle"
    BY <1>2 DEF Close, TypeOK
  <2> QED
    BY <2>1 DEF IsCurrent, ActorIsCurrent, RowIsCurrent, CountIsCurrent, MembershipIsCurrent, AnswerIsCurrent
<1>3. ASSUME NEW phase \in {"check", "write"}, NEW row, Go(s, phase, row), pc[s] \in {"read", "check"}, Step(s)
      PROVE  IsCurrent(s)'
  <2>1. pc'[s] # "idle"
    BY <1>3 DEF Go, TypeOK
  <2>2. IsCurrent(s)
    BY <2>1 DEF Remember, Current
  <2>3. pc[s] # "idle" /\ ActorIsCurrent(s)
    BY <1>3, <2>2 DEF IsCurrent
  <2>4. q.target \in Users => Loaded(s) = role[q.target]
    BY <2>3 DEF ActorIsCurrent, Loaded
  <2>5. CASE RoleRead(s)
    <3>1. Loaded(s) = role[q.target] /\ q.kind = "role"
      BY <2>4, <2>5, <1>q, RequestTypes DEF RoleRead, Asked
    <3> QED
      BY <2>3, <2>5, <3>1, OwnGo DEF RoleRead
  <2>6. CASE RemovalRead(s)
    <3>1. Loaded(s) = role[q.target] /\ q.kind = "remove"
      BY <2>4, <2>6, <1>q, RequestTypes DEF RemovalRead, Asked
    <3> QED
      BY <2>3, <2>6, <3>1, OwnGo DEF RemovalRead
  <2>7. CASE DeactivationRead(s)
    BY <2>3, <2>7, OwnGo DEF DeactivationRead, Asked
  <2>8. CASE CountOwners(s)
    <3>1. seen[s] = role[q.target] /\ q.kind \in MemberKinds
      BY <2>2, <2>8 DEF CountOwners, IsCurrent, RowIsCurrent
    <3>2. seen[s] = "owner" => \E u \in Owners : u # q.target
      BY <2>8, SecondOwner DEF CountOwners
    <3> QED
      BY <2>3, <2>8, <3>1, <3>2, OwnGo DEF CountOwners, MemberKinds
  <2>9. CASE ActivationRead(s) \/ InviteRead(s) \/ JoinRead(s) \/ UnassignRead(s)
    BY <2>3, <2>9, OwnGo DEF ActivationRead, InviteRead, JoinRead, UnassignRead, Asked, MemberKinds
  <2>10. CASE RevokeRead(s) \/ AcceptRead(s)
    BY <2>3, <2>10, OwnGo DEF RevokeRead, AcceptRead, Asked, MemberKinds
  <2>11. CASE InviterRead(s)
    BY <2>2, <2>3, <2>11, OwnGo DEF InviterRead, Asked, MemberKinds, IsCurrent, AnswerIsCurrent
  <2>12. CASE AssignRead(s) \/ RegradeRead(s)
    BY <2>3, <2>12, OwnGo DEF AssignRead, RegradeRead, Asked, MemberKinds
  <2>13. ASSUME Close(s) PROVE FALSE
    BY <2>1, <2>13 DEF Close, TypeOK
  <2> QED
    BY <1>3, <2>5, <2>6, <2>7, <2>8, <2>9, <2>10, <2>11, <2>12, <2>13
    DEF Step, RoleWrite, RemovalWrite, DeactivationWrite, DeleteMember, ActivationWrite, RevokeWrite,
        AcceptWrite, InviteWrite, AssignWrite, RegradeWrite, UnassignWrite, Refuse, End
<1> QED
  BY <1>1, <1>2, <1>3, StepShape

LEMMA CurrentNext == TypeOK /\ Current /\ [Next]_vars => Current'
<1> SUFFICES ASSUME TypeOK, Current, [Next]_vars PROVE Current'
  OBVIOUS
<1>0. CASE UNCHANGED vars
  BY <1>0 DEF vars, tableVars, Current, IsCurrent, ActorIsCurrent, RowIsCurrent, CountIsCurrent,
              MembershipIsCurrent, AnswerIsCurrent, WithinCeiling, Owners
<1>1. CASE Next
  <2>1. PICK s \in Sessions : (Begin(s) \/ Step(s)) /\ Remember
    BY <1>1 DEF Next
  <2>2. ASSUME NEW o \in Sessions \ overtaken' PROVE IsCurrent(o)'
    BY <2>1, OthersCurrent, OwnCurrent
  <2> QED
    BY <2>2 DEF Current
<1> QED
  BY <1>0, <1>1

LEMMA CurrentAlways == Spec => [](TypeOK /\ Current)
<1>1. Init => TypeOK /\ Current
  BY TypeInit, CurrentInit
<1>2. TypeOK /\ Current /\ [Next]_vars => (TypeOK /\ Current)'
  BY TypeNext, CurrentNext
<1> QED
  BY <1>1, <1>2, PTL DEF Spec

-----------------------------------------------------------------------------
(***************************************************************************)
(* OwnerRemains and SettledInvitesStay follow from what is current.        *)
(***************************************************************************)
LEMMA WriteEnds ==
    ASSUME TypeOK, NEW s \in Sessions, pc[s] = "write", Close(s)
    PROVE  Writes(s)
  BY DEF TypeOK, Close, Writes

LEMMA OwnerStep ==
    ASSUME TypeOK, Current, [Next]_vars
    PROVE  Owners = {} \/ Owners' # {} \/ \E s \in Sessions : Belated(s)
<1> SUFFICES ASSUME NEW w \in Owners, ~\E s \in Sessions : Belated(s) PROVE \E u \in Users : role'[u] = "owner"
  BY DEF Owners
<1>w. w \in Users /\ role[w] = "owner"
  BY DEF Owners
<1>0. CASE UNCHANGED role
  BY <1>0, <1>w
<1>1. ASSUME NEW s \in Sessions, Begin(s) \/ Step(s), role' # role PROVE \E u \in Users : role'[u] = "owner"
  <2> DEFINE t == req[s].target
  <2>q. req[s] \in Requests
    BY DEF TypeOK
  <2>1. CASE ActivationWrite(s) \/ AcceptWrite(s)
    <3>1. PICK u, r : role[u] = "none" /\ role' = [role EXCEPT ![u] = r]
      BY <2>1 DEF ActivationWrite, AcceptWrite, Join
    <3> QED
      BY <1>w, <3>1 DEF TypeOK
  <2>2. CASE RoleWrite(s) \/ RemovalWrite(s) \/ DeactivationWrite(s)
    <3>1. pc[s] = "write" /\ req[s].kind \in MemberKinds /\ Close(s) /\ t \in Users
      BY <2>2, <2>q, RequestTypes
      DEF RoleWrite, RemovalWrite, DeactivationWrite, DeleteMember, Asked, MemberKinds, End
    <3>2. IsCurrent(s)
      BY <3>1, WriteEnds DEF Belated, Current
    <3>3. seen[s] = role[t]
      BY <3>1, <3>2 DEF IsCurrent, RowIsCurrent
    <3>4. \E r : role' = [role EXCEPT ![t] = r] /\ (req[s].kind = "role" => r = req[s].new)
      BY <1>1, <2>2 DEF RoleWrite, RemovalWrite, DeactivationWrite, DeleteMember, Asked
    <3>5. CASE w # t
      BY <1>w, <3>4, <3>5 DEF TypeOK
    <3>6. CASE w = t /\ req[s].kind = "role" /\ req[s].new = "owner"
      BY <1>w, <3>4, <3>6 DEF TypeOK
    <3>7. CASE w = t /\ (req[s].kind = "role" => req[s].new # "owner")
      <4>1. PICK u \in Owners : u # t
        BY <1>w, <3>1, <3>2, <3>3, <3>7 DEF IsCurrent, CountIsCurrent
      <4> QED
        BY <3>4, <4>1 DEF TypeOK, Owners
    <3> QED
      BY <3>5, <3>6, <3>7
  <2> QED
    BY <1>1, <2>1, <2>2, BeginShape
    DEF Step, Ask, Go, tableVars, RoleRead, RemovalRead, DeactivationRead, CountOwners, ActivationRead, InviteRead,
        RevokeRead, AcceptRead, InviterRead, AssignRead, JoinRead, RegradeRead, UnassignRead, RevokeWrite,
        InviteWrite, AssignWrite, RegradeWrite, UnassignWrite, Refuse
<1> QED
  BY <1>0, <1>1 DEF Next, vars, tableVars

\* Whatever is asked and however requests overlap, the last owner goes only by a
\* request that has read a row, or counted an owner, that is no longer so
\* (update_member_role, remove_member, set_active).
THEOREM OrgKeepsAnOwner == Spec => OwnerRemains
<1>1. TypeOK /\ Current /\ [Next]_vars => [Owners = {} \/ Owners' # {} \/ \E s \in Sessions : Belated(s)]_vars
  BY OwnerStep
<1> QED
  BY <1>1, CurrentAlways, PTL DEF Spec, OwnerRemains

\* What a request that answers or revokes an invitation does to the table.
LEMMA AnswerWrite ==
    ASSUME TypeOK, NEW s \in Sessions, RevokeWrite(s) \/ AcceptWrite(s), NEW i \in Invites
    PROVE  /\ inv'[i].role = inv[i].role
           /\ i # req[s].invite => inv'[i].status = inv[i].status
           /\ i = req[s].invite => inv'[i].status \in {"revoked", "accepted"}
<1> DEFINE j == req[s].invite
<1>1. j \in Invites
  BY RequestTypes DEF RevokeWrite, AcceptWrite, Asked, TypeOK
<1> DEFINE revoked == [inv[j] EXCEPT !.status = "revoked"]
           accepted == [inv[j] EXCEPT !.status = "accepted"]
<1>2. revoked.role = inv[j].role /\ revoked.status = "revoked" /\ accepted.role = inv[j].role /\ accepted.status = "accepted"
  BY <1>1 DEF TypeOK, Invitations
<1>3. inv' = [inv EXCEPT ![j] = revoked] \/ inv' = [inv EXCEPT ![j] = accepted]
  BY DEF RevokeWrite, AcceptWrite
<1> HIDE DEF revoked, accepted, j
<1>4. /\ inv'[i].role = inv[i].role
      /\ i # j => inv'[i].status = inv[i].status
      /\ i = j => inv'[i].status \in {"revoked", "accepted"}
  BY <1>1, <1>2, <1>3 DEF TypeOK
<1> QED
  BY <1>4 DEF j

LEMMA SettledStep ==
    ASSUME TypeOK, Current, [Next]_vars, NEW i \in Invites, inv[i].status \in {"accepted", "revoked"}
    PROVE  inv'[i].status = inv[i].status \/ \E s \in Sessions : Belated(s) /\ req[s].invite = i
<1>0. CASE UNCHANGED inv
  BY <1>0
<1>1. ASSUME NEW s \in Sessions, RevokeWrite(s) \/ AcceptWrite(s)
      PROVE  inv'[i].status = inv[i].status \/ (Belated(s) /\ req[s].invite = i)
  <2>1. pc[s] = "write" /\ req[s].kind \in {"accept", "revoke"} /\ Close(s)
    BY <1>1 DEF RevokeWrite, AcceptWrite, Asked, End
  <2>2. CASE req[s].invite # i
    BY <1>1, <2>2, AnswerWrite
  <2>3. CASE req[s].invite = i
    <3>1. ~IsCurrent(s)
      BY <2>1, <2>3 DEF IsCurrent, AnswerIsCurrent
    <3> QED
      BY <2>1, <2>3, <3>1, WriteEnds DEF Belated, Current
  <2> QED
    BY <2>2, <2>3
<1>2. ASSUME NEW s \in Sessions, NEW j \in Invites, NEW project \in BOOLEAN, InviteWrite(s, j, project)
      PROVE  inv'[i].status = inv[i].status
  BY <1>2 DEF InviteWrite, TypeOK
<1> QED
  BY <1>0, <1>1, <1>2, BeginShape
  DEF Next, Ask, Step, Go, RoleRead, RemovalRead, DeactivationRead,
      CountOwners, ActivationRead, InviteRead, RevokeRead, AcceptRead, InviterRead, AssignRead, JoinRead,
      RegradeRead, UnassignRead, RoleWrite, RemovalWrite, DeactivationWrite, DeleteMember, ActivationWrite,
      AssignWrite, RegradeWrite, UnassignWrite, Refuse, tableVars, vars

\* An invitation that was accepted or revoked stays so, unless another request had
\* read it while it was pending (revoke_invite, accept_invite).
THEOREM OrgSettledInvitesStay == Spec => SettledInvitesStay
<1>1. TypeOK /\ Current /\ [Next]_vars =>
        [\A i \in Invites : inv[i].status \in {"accepted", "revoked"} =>
            inv'[i].status = inv[i].status \/ \E s \in Sessions : Belated(s) /\ req[s].invite = i]_vars
  BY SettledStep
<1> QED
  BY <1>1, CurrentAlways, PTL DEF Spec, SettledInvitesStay

-----------------------------------------------------------------------------
(***************************************************************************)
(* NoStaleAssignments and GuestCeiling.  Besides what is current they need *)
(* facts no interleaving disturbs: who joins a project has been a member,  *)
(* the row a request regrades exists until it is known to be lost, and     *)
(* invitations that were sent carry a role.                                *)
(***************************************************************************)
JoinersWereMembers == \A s \in Sessions : pc[s] # "idle" /\ req[s].kind = "join" => ctx[s] # "none"
RegradedRowsExist ==
    \A s \in Sessions \ lost : pc[s] = "write" /\ req[s].kind = "regrade" => proj[req[s].target] # "none"
InvitesHaveRoles ==
    /\ \A i \in Invites : inv[i].status # "unsent" => inv[i].role \in OrgRoles
    /\ \A s \in Sessions : pc[s] \in {"check", "write"} /\ req[s].kind \in {"accept", "revoke"}
                           => inv[req[s].invite].status # "unsent"

Placed ==
    NoStaleAssignments /\ GuestCeiling /\ JoinersWereMembers /\ RegradedRowsExist /\ InvitesHaveRoles

LEMMA PlacedInit == Init => Placed
  BY FounderIsAUser DEF Init, Placed, NoStaleAssignments, GuestCeiling, WithinCeiling, JoinersWereMembers,
                        RegradedRowsExist, InvitesHaveRoles, Unsent

LEMMA JoinersNext ==
    ASSUME TypeOK, JoinersWereMembers, NEW s \in Sessions, Begin(s) \/ Step(s)
    PROVE  JoinersWereMembers'
<1> SUFFICES ASSUME NEW o \in Sessions, pc'[o] # "idle", req'[o].kind = "join" PROVE ctx'[o] # "none"
  BY DEF JoinersWereMembers
<1>1. CASE o # s
  BY <1>1, StepFrame DEF JoinersWereMembers
<1>2. CASE o = s /\ Begin(s)
  <2>1. PICK q \in Requests : /\ Ask(s, q) /\ (q.actor = "none" \/ q.actor \in Users)
                              /\ q.kind = "join" => role[q.actor] # "none"
    BY <1>2, BeginShape
  <2>2. req'[s] = q /\ ctx'[s] = IF q.actor = "none" THEN "none" ELSE role[q.actor]
    BY <2>1 DEF Ask, TypeOK
  <2> QED
    BY <1>2, <2>1, <2>2, RequestTypes, NoneIsNoName
<1>3. CASE o = s /\ Step(s)
  BY <1>3, StepShape DEF Go, Close, TypeOK, JoinersWereMembers
<1> QED
  BY <1>1, <1>2, <1>3

\* A row that is deleted is lost to whoever had loaded it.
LEMMA RegradedNext ==
    ASSUME TypeOK, RegradedRowsExist, NEW s \in Sessions, Begin(s) \/ Step(s)
    PROVE  RegradedRowsExist'
<1> SUFFICES ASSUME NEW o \in Sessions, o \notin lost', pc'[o] = "write", req'[o].kind = "regrade"
             PROVE  proj'[req'[o].target] # "none"
  BY DEF RegradedRowsExist
<1> DEFINE t == req[s].target
<1>q. req[s] \in Requests /\ req[o] \in Requests
  BY DEF TypeOK
<1>1. CASE o = s
  <2>1. PICK phase, row : Go(s, phase, row) /\ Step(s) /\ pc[s] \in {"read", "check"}
    BY <1>1, BeginShape, StepShape DEF Ask, Close, TypeOK
  <2>2. req[s].kind = "regrade" /\ phase = "write" /\ UNCHANGED proj /\ req' = req
    BY <1>1, <2>1 DEF Go, TypeOK, tableVars
  <2>3. ~Close(s)
    BY <1>1 DEF Close, TypeOK
  <2>4. RegradeRead(s)
    BY <2>1, <2>2, <2>3
    DEF Step, RoleRead, RemovalRead, DeactivationRead, CountOwners, ActivationRead, InviteRead, RevokeRead,
        AcceptRead, InviterRead, AssignRead, JoinRead, UnassignRead, Asked, MemberKinds, RoleWrite, RemovalWrite,
        DeactivationWrite, DeleteMember, ActivationWrite, RevokeWrite, AcceptWrite, InviteWrite, AssignWrite,
        RegradeWrite, UnassignWrite, Refuse, End
  <2> QED
    BY <1>1, <2>2, <2>4 DEF RegradeRead
<1>2. CASE o # s
  <2>1. pc[o] = "write" /\ req[o].kind = "regrade" /\ req'[o] = req[o] /\ req[o].target \in Users
    BY <1>2, <1>q, StepFrame, RequestTypes
  <2>2. CASE o \notin lost /\ (proj'[req[o].target] = proj[req[o].target] \/ proj'[req[o].target] # "none")
    BY <2>1, <2>2 DEF RegradedRowsExist
  <2>3. CASE RemovalWrite(s)
    <3>1. o \notin lost /\ t # req[o].target
      BY <1>2, <2>1, <2>3 DEF RemovalWrite, Holding, ProjectKinds, TypeOK
    <3> QED
      BY <2>1, <2>2, <2>3, <3>1 DEF RemovalWrite, TypeOK
  <2>4. CASE UnassignWrite(s)
    <3>1. o \notin lost /\ t # req[o].target
      BY <1>2, <2>1, <2>4 DEF UnassignWrite, Holding, ProjectKinds, TypeOK
    <3> QED
      BY <2>1, <2>2, <2>4, <3>1 DEF UnassignWrite, TypeOK
  <2>5. CASE DeactivationWrite(s)
    BY <1>2, <2>2, <2>5 DEF DeactivationWrite, Holding, TypeOK
  <2>6. CASE RoleWrite(s) \/ AcceptWrite(s) \/ AssignWrite(s) \/ RegradeWrite(s)
    <3>1. o \notin lost
      BY <1>2, <2>6 DEF RoleWrite, AcceptWrite, AssignWrite, RegradeWrite, End
    <3>2. proj[req[o].target] # "none"
      BY <2>1, <3>1 DEF RegradedRowsExist
    <3>3. proj' = proj \/ \E u \in Users, r \in ProjectRoles : proj' = [proj EXCEPT ![u] = r]
      <4>1. CASE RoleWrite(s)
        BY <4>1, <1>q, RequestTypes DEF RoleWrite, Asked, ProjectRoles
      <4>2. CASE AcceptWrite(s)
        BY <4>2, <1>q, RequestTypes DEF AcceptWrite, Asked, ProjectRoles
      <4>3. CASE AssignWrite(s)
        <5>1. t \in Users /\ (req[s].kind = "assign" => req[s].new \in ProjectRoles)
          BY <4>3, <1>q, RequestTypes DEF AssignWrite
        <5> QED
          BY <4>3, <5>1 DEF AssignWrite, ProjectRoles
      <4>4. CASE RegradeWrite(s)
        BY <4>4, <1>q, RequestTypes DEF RegradeWrite, Asked
      <4> QED
        BY <2>6, <4>1, <4>2, <4>3, <4>4
    <3> QED
      BY <2>1, <2>2, <3>1, <3>2, <3>3 DEF TypeOK, ProjectRoles
  <2>7. CASE UNCHANGED proj /\ (lost' = lost \/ lost' = lost \ {s})
    BY <1>2, <2>2, <2>7
  <2> QED
    BY <1>2, <2>3, <2>4, <2>5, <2>6, <2>7, BeginShape
    DEF Step, Ask, Go, tableVars, RoleRead, RemovalRead, DeactivationRead, CountOwners, ActivationRead, InviteRead,
        RevokeRead, AcceptRead, InviterRead, AssignRead, JoinRead, RegradeRead, UnassignRead, ActivationWrite,
        RevokeWrite, InviteWrite, Refuse, End
<1> QED
  BY <1>1, <1>2

LEMMA InvitesNext ==
    ASSUME TypeOK, InvitesHaveRoles, NEW s \in Sessions, Begin(s) \/ Step(s)
    PROVE  InvitesHaveRoles'
<1> DEFINE q == req[s]
<1>q. q \in Requests
  BY DEF TypeOK
<1>1. /\ \A i \in Invites : inv'[i].status # "unsent" => inv'[i].role \in OrgRoles
      /\ \A i \in Invites : inv[i].status # "unsent" => inv'[i].status # "unsent"
  <2>1. CASE UNCHANGED inv
    BY <2>1 DEF InvitesHaveRoles
  <2>2. CASE RevokeWrite(s) \/ AcceptWrite(s)
    <3>1. q.invite \in Invites /\ inv[q.invite].status # "unsent"
      BY <2>2, <1>q, RequestTypes DEF RevokeWrite, AcceptWrite, Asked, InvitesHaveRoles
    <3>2. ASSUME NEW i \in Invites
          PROVE  /\ inv'[i].role = inv[i].role
                 /\ inv'[i].status = inv[i].status \/ (i = q.invite /\ inv'[i].status # "unsent")
      BY <2>2, AnswerWrite
    <3> QED
      BY <3>1, <3>2 DEF InvitesHaveRoles
  <2>3. ASSUME NEW j \in Invites, NEW project \in BOOLEAN, InviteWrite(s, j, project)
        PROVE  /\ \A i \in Invites : inv'[i].status # "unsent" => inv'[i].role \in OrgRoles
               /\ \A i \in Invites : inv[i].status # "unsent" => inv'[i].status # "unsent"
    <3>1. q.new \in OrgRoles
      BY <2>3, <1>q, RequestTypes DEF InviteWrite, Asked
    <3> QED
      BY <2>3, <3>1 DEF InviteWrite, TypeOK, InvitesHaveRoles
  <2> QED
    BY <2>1, <2>2, <2>3, BeginShape
    DEF Step, Ask, Go, tableVars, RoleRead, RemovalRead, DeactivationRead, CountOwners, ActivationRead, InviteRead,
        RevokeRead, AcceptRead, InviterRead, AssignRead, JoinRead, RegradeRead, UnassignRead, RoleWrite, RemovalWrite,
        DeactivationWrite, DeleteMember, ActivationWrite, AssignWrite, RegradeWrite, UnassignWrite, Refuse
<1>2. ASSUME NEW o \in Sessions, pc'[o] \in {"check", "write"}, req'[o].kind \in {"accept", "revoke"}
      PROVE  inv'[req'[o].invite].status # "unsent"
  <2>q. req[o] \in Requests
    BY DEF TypeOK
  <2>1. CASE o # s
    BY <1>1, <1>2, <2>1, <2>q, StepFrame, RequestTypes DEF InvitesHaveRoles
  <2>2. CASE o = s
    <3>1. Step(s) /\ ~Close(s)
      BY <1>2, <2>2, BeginShape DEF Ask, Close, TypeOK
    <3>2. UNCHANGED <<inv, req>>
      BY <3>1, StepShape DEF Go, tableVars
    <3>3. CASE RevokeRead(s) \/ AcceptRead(s) \/ InviterRead(s)
      BY <2>2, <3>2, <3>3 DEF RevokeRead, AcceptRead, InviterRead, Asked, InvitesHaveRoles
    <3> QED
      BY <1>2, <2>2, <3>1, <3>2, <3>3
      DEF Step, RoleRead, RemovalRead, DeactivationRead, CountOwners, ActivationRead, InviteRead,
          AssignRead, JoinRead, RegradeRead, UnassignRead, Asked, MemberKinds, RoleWrite, RemovalWrite,
          DeactivationWrite, DeleteMember, ActivationWrite, RevokeWrite, AcceptWrite, InviteWrite, AssignWrite,
          RegradeWrite, UnassignWrite, Refuse, End
  <2> QED
    BY <2>1, <2>2
<1> QED
  BY <1>1, <1>2 DEF InvitesHaveRoles

\* A request writes rows of its target alone.
LEMMA TargetOnly ==
    ASSUME TypeOK, NEW s \in Sessions, Begin(s) \/ Step(s), NEW u \in Users, role'[u] # role[u] \/ proj'[u] # proj[u]
    PROVE  /\ u = req[s].target /\ pc[s] = "write" /\ Close(s)
           /\ \/ RoleWrite(s) \/ RemovalWrite(s) \/ DeactivationWrite(s) \/ ActivationWrite(s) \/ AcceptWrite(s)
              \/ AssignWrite(s) \/ RegradeWrite(s) \/ UnassignWrite(s)
<1>q. req[s] \in Requests
  BY DEF TypeOK
<1>1. \/ RoleWrite(s) \/ RemovalWrite(s) \/ DeactivationWrite(s) \/ ActivationWrite(s) \/ AcceptWrite(s)
      \/ AssignWrite(s) \/ RegradeWrite(s) \/ UnassignWrite(s)
  BY BeginShape
  DEF Step, Ask, Go, tableVars, RoleRead, RemovalRead, DeactivationRead, CountOwners, ActivationRead, InviteRead,
      RevokeRead, AcceptRead, InviterRead, AssignRead, JoinRead, RegradeRead, UnassignRead, InviteWrite, RevokeWrite,
      Refuse
<1>2. CASE RoleWrite(s) \/ RemovalWrite(s) \/ DeactivationWrite(s) \/ ActivationWrite(s)
  BY <1>1, <1>2 DEF RoleWrite, RemovalWrite, DeactivationWrite, DeleteMember, ActivationWrite, Join, Asked, End, TypeOK
<1>3. CASE AcceptWrite(s)
  <2>1. req[s].target = req[s].actor
    BY <1>3, <1>q, RequestTypes DEF AcceptWrite, Asked
  <2> QED
    BY <1>1, <1>3, <2>1 DEF AcceptWrite, Join, Asked, End, TypeOK
<1>4. CASE AssignWrite(s) \/ RegradeWrite(s) \/ UnassignWrite(s)
  BY <1>1, <1>4 DEF AssignWrite, RegradeWrite, UnassignWrite, Asked, End, TypeOK
<1> QED
  BY <1>1, <1>2, <1>3, <1>4

LEMMA TablesNext ==
    ASSUME TypeOK, Current, Placed, NEW s \in Sessions, Begin(s) \/ Step(s), Remember
    PROVE  NoStaleAssignments' /\ GuestCeiling'
<1> SUFFICES ASSUME NEW u \in Users, u \notin astray', proj'[u] # "none"
             PROVE  role'[u] # "none" /\ (role'[u] = "guest" => proj'[u] # "full")
  BY DEF NoStaleAssignments, GuestCeiling, WithinCeiling
<1>1. u \notin astray /\ ~LeavesAstray(s, u)
  BY DEF Remember
<1>2. /\ proj[u] # "none" => role[u] # "none"
      /\ role[u] = "guest" => proj[u] # "full"
  BY <1>1 DEF Placed, NoStaleAssignments, GuestCeiling, WithinCeiling
<1>3. CASE role'[u] = role[u] /\ proj'[u] = proj[u]
  BY <1>2, <1>3
<1>4. CASE role'[u] # role[u] \/ proj'[u] # proj[u]
  <2> DEFINE q == req[s]
  <2>q. q \in Requests
    BY DEF TypeOK
  <2>1. /\ u = q.target /\ pc[s] = "write" /\ Writes(s)
        /\ \/ RoleWrite(s) \/ RemovalWrite(s) \/ DeactivationWrite(s) \/ ActivationWrite(s) \/ AcceptWrite(s)
           \/ AssignWrite(s) \/ RegradeWrite(s) \/ UnassignWrite(s)
    BY <1>4, TargetOnly, WriteEnds
  <2>2. proj'[u] # proj[u] => IsCurrent(s)
    BY <1>1, <2>1 DEF LeavesAstray, Current
  <2>3. CASE RoleWrite(s)
    <3>1. q.new \in OrgRoles /\ (role'[u] = role[u] \/ role'[u] = q.new)
      BY <2>1, <2>3, <2>q, RequestTypes DEF RoleWrite, Asked, TypeOK
    <3>2. proj'[u] = IF q.new = "guest" /\ proj[u] = "full" THEN "limited" ELSE proj[u]
      BY <2>1, <2>3 DEF RoleWrite, TypeOK
    <3> QED
      BY <1>2, <3>1, <3>2 DEF OrgRoles
  <2>4. CASE RemovalWrite(s) \/ UnassignWrite(s)
    <3>1. role'[u] = role[u] /\ proj'[u] = proj[u]
      BY <2>1, <2>4 DEF RemovalWrite, UnassignWrite, TypeOK
    <3> QED
      BY <1>3, <3>1
  <2>5. CASE DeactivationWrite(s)
    <3>1. role'[u] = role[u] /\ proj'[u] = proj[u]
      BY <1>1, <2>1, <2>5 DEF DeactivationWrite, Asked, LeavesAstray
    <3> QED
      BY <1>3, <3>1
  <2>6. CASE ActivationWrite(s)
    <3>1. proj'[u] = proj[u] /\ role[u] = "none"
      BY <2>1, <2>6 DEF ActivationWrite, Join
    <3> QED
      BY <1>2, <3>1
  <2>7. CASE AcceptWrite(s)
    <3>1. q.actor = u /\ q.invite \in Invites
      BY <2>1, <2>7, <2>q, RequestTypes DEF AcceptWrite, Asked
    <3> DEFINE granted == inv[q.invite].role
    <3>2. granted \in OrgRoles
      BY <2>1, <2>7, <3>1 DEF AcceptWrite, Asked, Placed, InvitesHaveRoles
    <3>3. /\ role[u] = "none" /\ role'[u] = granted
          /\ proj'[u] = proj[u] \/ proj'[u] = IF granted = "guest" THEN "limited" ELSE "full"
      BY <2>7, <3>1 DEF AcceptWrite, Join, TypeOK
    <3> HIDE DEF granted
    <3> QED
      BY <1>2, <3>2, <3>3 DEF OrgRoles
  <2>8. CASE AssignWrite(s)
    <3>1. role'[u] = role[u] /\ IsCurrent(s)
      BY <1>4, <2>2, <2>8 DEF AssignWrite
    <3>2. CASE q.kind = "assign"
      <4>1. role[u] # "none" /\ WithinCeiling(role[u], q.new)
        BY <2>1, <3>1, <3>2 DEF IsCurrent, MembershipIsCurrent
      <4>2. proj'[u] = q.new
        BY <2>1, <2>8, <3>2 DEF AssignWrite, TypeOK
      <4> QED
        BY <3>1, <4>1, <4>2 DEF WithinCeiling
    <3>3. CASE q.kind = "join"
      <4>1. ctx[s] = role[u] /\ ctx[s] # "none"
        BY <2>1, <2>q, <3>1, <3>3, RequestTypes DEF IsCurrent, ActorIsCurrent, Placed, JoinersWereMembers
      <4>2. proj'[u] = IF ctx[s] = "guest" THEN "limited" ELSE "full"
        BY <2>1, <2>8, <3>3 DEF AssignWrite, TypeOK
      <4> QED
        BY <3>1, <4>1, <4>2
    <3> QED
      BY <2>8, <3>2, <3>3 DEF AssignWrite
  <2>9. CASE RegradeWrite(s)
    <3>1. role'[u] = role[u] /\ IsCurrent(s) /\ q.kind = "regrade"
      BY <1>4, <2>2, <2>9 DEF RegradeWrite, Asked
    <3>2. s \notin lost /\ proj'[u] = q.new
      BY <1>4, <2>1, <2>9 DEF RegradeWrite, TypeOK
    <3>3. proj[u] # "none" /\ WithinCeiling(role[u], q.new)
      BY <2>1, <3>1, <3>2 DEF IsCurrent, MembershipIsCurrent, Placed, RegradedRowsExist
    <3> QED
      BY <1>2, <3>1, <3>2, <3>3 DEF WithinCeiling
  <2> QED
    BY <2>1, <2>3, <2>4, <2>5, <2>6, <2>7, <2>8, <2>9
<1> QED
  BY <1>3, <1>4

LEMMA PlacedNext == TypeOK /\ Current /\ Placed /\ [Next]_vars => Placed'
<1> SUFFICES ASSUME TypeOK, Current, Placed, [Next]_vars PROVE Placed'
  OBVIOUS
<1>0. CASE UNCHANGED vars
  BY <1>0 DEF vars, tableVars, Placed, NoStaleAssignments, GuestCeiling, WithinCeiling, JoinersWereMembers,
              RegradedRowsExist, InvitesHaveRoles
<1>1. CASE Next
  <2>1. PICK s \in Sessions : (Begin(s) \/ Step(s)) /\ Remember
    BY <1>1 DEF Next
  <2> QED
    BY <2>1, TablesNext, JoinersNext, RegradedNext, InvitesNext DEF Placed
<1> QED
  BY <1>0, <1>1

LEMMA PlacedAlways == Spec => []Placed
<1>1. Init => TypeOK /\ Current /\ Placed
  BY TypeInit, CurrentInit, PlacedInit
<1>2. TypeOK /\ Current /\ Placed /\ [Next]_vars => (TypeOK /\ Current /\ Placed)'
  BY TypeNext, CurrentNext, PlacedNext
<1> QED
  BY <1>1, <1>2, PTL DEF Spec

\* Who has left the organisation is in none of its projects, unless SCIM ended the
\* membership or the assignment was written by a request that had been overtaken
\* (remove_member, create_member, accept_invite).
THEOREM OrgNoStaleAssignments == Spec => []NoStaleAssignments
<1>1. Placed => NoStaleAssignments
  BY DEF Placed
<1> QED
  BY <1>1, PlacedAlways, PTL

\* With the same exceptions no guest holds more in a project than a guest may,
\* along every way into the organisation and into the project.
THEOREM OrgGuestCeiling == Spec => []GuestCeiling
<1>1. Placed => GuestCeiling
  BY DEF Placed
<1> QED
  BY <1>1, PlacedAlways, PTL
=============================================================================
