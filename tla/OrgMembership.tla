--------------------------- MODULE OrgMembership ---------------------------
(***************************************************************************)
(* Members, invitations and project assignments of one organisation        *)
(* (apps/api/src/elliptic/modules/orgs, projects, scim).                   *)
(*                                                                         *)
(* A request is a transaction of a session.  It reads the rows its checks  *)
(* need, one statement after the other and without a lock, and then writes.*)
(* PostgreSQL runs it READ COMMITTED, so others may commit between any two *)
(* of these steps; the writes meet each other only through row locks and   *)
(* unique constraints.                                                     *)
(*                                                                         *)
(* Abstractions: one public project; a project role is what a guest may    *)
(* hold ("limited": viewer, commenter) or may not ("full": member, admin); *)
(* an expired invitation is one whose acceptance is refused; the writes of *)
(* a request take effect together when it commits.                         *)
(***************************************************************************)
EXTENDS Naturals

CONSTANTS
    Users,
    Founder,        \* the creator of the organisation
    Invites,        \* bound: rows of the invitations table
    Sessions,       \* requests that may be under way at once
    Kinds,          \* bound: the operations that are called
    Offers          \* bound: the organisation roles that requests name

OrgRoles == {"guest", "member", "admin", "owner"}
ProjectRoles == {"limited", "full"}
AllKinds == {"role", "remove", "invite", "revoke", "accept", "assign", "regrade", "unassign", "join",
             "activate", "deactivate"}

ASSUME FounderIsAUser == Founder \in Users
ASSUME KindsAreKnown == Kinds \subseteq AllKinds
ASSUME OffersAreRoles == Offers \subseteq OrgRoles
ASSUME NoneIsNoName == "none" \notin Users \cup Invites

VARIABLES
    role,       \* [Users -> OrgRoles \cup {"none"}]: organization_members
    proj,       \* [Users -> ProjectRoles \cup {"none"}]: project_members
    inv,        \* [Invites -> ...]: invitations
    pc,         \* [Sessions -> {"idle", "read", "check", "write"}]
    req,        \* [Sessions -> what was asked]
    ctx,        \* [Sessions -> the actor's role as first read]
    seen,       \* [Sessions -> the role of the row the request has loaded]
    lost,       \* sessions whose loaded row has been deleted since
    owned,      \* history: users that have been owner
    usurped,    \* history: users made owner on the authority of one who never was
    overtaken,  \* history: requests under way that have read what has changed since
    astray      \* history: users with a project role that no check stands for

tableVars == <<role, proj, inv>>
history == <<owned, usurped>>
vars == <<tableVars, pc, req, ctx, seen, lost, history, overtaken, astray>>

Invitations ==
    [status : {"unsent", "pending", "accepted", "revoked"}, to : Users \cup {"none"},
     by : Users \cup {"none"}, role : OrgRoles \cup {"none"}, project : BOOLEAN]

\* What the routers accept.
AdminRequests ==
    [kind : {"role", "invite"}, actor : Users, target : Users, new : Offers, invite : {"none"}]
    \cup [kind : {"assign", "regrade"}, actor : Users, target : Users, new : ProjectRoles, invite : {"none"}]
    \cup [kind : {"remove", "unassign"}, actor : Users, target : Users, new : {"none"}, invite : {"none"}]
    \cup [kind : {"revoke"}, actor : Users, target : {"none"}, new : {"none"}, invite : Invites]
OwnRequests ==
    {[kind |-> "join", actor |-> u, target |-> u, new |-> "none", invite |-> "none"] : u \in Users}
    \cup {[kind |-> "accept", actor |-> u, target |-> u, new |-> "none", invite |-> i] : u \in Users, i \in Invites}
ScimRequests ==
    [kind : {"activate", "deactivate"}, actor : {"none"}, target : Users, new : {"none"}, invite : {"none"}]
NoRequest == [kind |-> "none", actor |-> "none", target |-> "none", new |-> "none", invite |-> "none"]
Requests == AdminRequests \cup OwnRequests \cup ScimRequests \cup {NoRequest}

Unsent == [status |-> "unsent", to |-> "none", by |-> "none", role |-> "none", project |-> FALSE]

\* create_org, and create_project by the same user.
Init ==
    /\ role = [u \in Users |-> IF u = Founder THEN "owner" ELSE "none"]
    /\ proj = [u \in Users |-> IF u = Founder THEN "full" ELSE "none"]
    /\ inv = [i \in Invites |-> Unsent]
    /\ pc = [s \in Sessions |-> "idle"]
    /\ req = [s \in Sessions |-> NoRequest]
    /\ ctx = [s \in Sessions |-> "none"]
    /\ seen = [s \in Sessions |-> "none"]
    /\ lost = {}
    /\ owned = {Founder}
    /\ usurped = {} /\ overtaken = {} /\ astray = {}

Owners == {u \in Users : role[u] = "owner"}
\* _count_owners(...) <= 1
AtMostOneOwner == \A u, v \in Owners : u = v
Manages(r) == r \in {"admin", "owner"}
\* ROLE_ORDER, as far as accept_invite looks.
AtLeast(r, granted) == r = "owner" \/ (r = "admin" /\ granted # "owner")
WithinCeiling(r, p) == r = "guest" => p # "full"

(***************************************************************************)
(* The course of a request.                                                *)
(***************************************************************************)
Asked(s, phase, kind) == pc[s] = phase /\ req[s].kind = kind

Ask(s, q) ==
    /\ pc[s] = "idle"
    /\ q.kind \in Kinds
    /\ pc' = [pc EXCEPT ![s] = "read"]
    /\ req' = [req EXCEPT ![s] = q]
    /\ ctx' = [ctx EXCEPT ![s] = IF q.actor = "none" THEN "none" ELSE role[q.actor]]
    /\ UNCHANGED <<tableVars, seen, lost, history>>

\* get_org_context and require_role(ADMIN).
AskAsAdmin(s) == \E q \in AdminRequests : Manages(role[q.actor]) /\ Ask(s, q)

\* Only the member that joins a project is looked up in the organisation.
AskForOneself(s) == \E q \in OwnRequests : (q.kind = "join" => role[q.actor] # "none") /\ Ask(s, q)

AskByScim(s) == \E q \in ScimRequests : Ask(s, q)

Go(s, phase, row) ==
    /\ pc' = [pc EXCEPT ![s] = phase]
    /\ seen' = [seen EXCEPT ![s] = row]
    /\ UNCHANGED <<tableVars, req, ctx, lost, history>>

Close(s) ==
    /\ pc' = [pc EXCEPT ![s] = "idle"]
    /\ req' = [req EXCEPT ![s] = NoRequest]
    /\ ctx' = [ctx EXCEPT ![s] = "none"]
    /\ seen' = [seen EXCEPT ![s] = "none"]

End(s) == Close(s) /\ lost' = lost \ {s}

\* A check fails, a flush raises or the process dies: nothing was written.
Refuse(s) == pc[s] # "idle" /\ End(s) /\ UNCHANGED <<tableVars, history>>

\* The requests that have loaded the row of u that a request of s deletes.
Holding(kinds, u, s) ==
    {o \in Sessions \ {s} : pc[o] \in {"check", "write"} /\ req[o].kind \in kinds /\ req[o].target = u}
MemberKinds == {"role", "remove", "deactivate"}
ProjectKinds == {"regrade", "unassign"}

\* The role r goes to u on the authority of another user.
Granted(u, r, authority) == LET made == IF r = "owner" THEN {u} ELSE {} IN
    /\ owned' = owned \cup made
    /\ usurped' = IF authority \in owned THEN usurped ELSE usurped \cup made

(***************************************************************************)
(* update_member_role, remove_member and SCIM set_active.                  *)
(***************************************************************************)

\* _get_member: a row that the session already has is not read again.
Loaded(s) == LET t == req[s].target IN
    IF t = req[s].actor /\ role[t] # "none" THEN ctx[s] ELSE role[t]

\* Mutant: an admin may make owners.
RoleRead_AnyAdmin(s) ==
    /\ Asked(s, "read", "role")
    /\ LET old == Loaded(s) IN
        /\ old # "none" /\ req[s].actor # req[s].target
        /\ Go(s, IF old = "owner" /\ req[s].new # "owner" THEN "check" ELSE "write", old)

RoleRead(s) ==
    /\ Asked(s, "read", "role")
    /\ LET old == Loaded(s) IN
        /\ old # "none" /\ req[s].actor # req[s].target
        /\ "owner" \in {old, req[s].new} => ctx[s] = "owner"
        /\ Go(s, IF old = "owner" /\ req[s].new # "owner" THEN "check" ELSE "write", old)

RemovalRead(s) ==
    /\ Asked(s, "read", "remove")
    /\ LET old == Loaded(s) IN
        /\ old # "none"
        /\ old = "owner" => ctx[s] = "owner"
        /\ Go(s, IF old = "owner" THEN "check" ELSE "write", old)

DeactivationRead(s) ==
    /\ Asked(s, "read", "deactivate")
    /\ role[req[s].target] # "none"
    /\ Go(s, "check", role[req[s].target])

\* Mutant: the last owner may go.
CountOwners_Zero(s) ==
    /\ pc[s] = "check" /\ req[s].kind \in MemberKinds
    /\ seen[s] = "owner" => Owners # {}
    /\ Go(s, "write", seen[s])

\* Refused for the last owner.
CountOwners(s) ==
    /\ pc[s] = "check" /\ req[s].kind \in MemberKinds
    /\ seen[s] = "owner" => ~AtMostOneOwner
    /\ Go(s, "write", seen[s])

\* Mutant: a demoted guest keeps the project role.
RoleWrite_NoCap(s) ==
    /\ Asked(s, "write", "role")
    /\ LET t == req[s].target new == req[s].new IN
        /\ new # seen[s] => s \notin lost
        /\ role' = IF new = seen[s] THEN role ELSE [role EXCEPT ![t] = new]
        /\ IF new # seen[s] THEN Granted(t, new, req[s].actor) ELSE UNCHANGED history
    /\ End(s)
    /\ UNCHANGED <<inv, proj>>

\* An unchanged role is not written; an UPDATE that finds no row raises.  Rows of
\* a project are capped for a new guest.
RoleWrite(s) ==
    /\ Asked(s, "write", "role")
    /\ LET t == req[s].target new == req[s].new changed == new # seen[s] IN
        /\ changed => s \notin lost
        /\ role' = IF changed THEN [role EXCEPT ![t] = new] ELSE role
        /\ IF changed THEN Granted(t, new, req[s].actor) ELSE UNCHANGED history
        /\ proj' = IF new = "guest" /\ proj[t] = "full" THEN [proj EXCEPT ![t] = "limited"] ELSE proj
    /\ End(s)
    /\ UNCHANGED inv

\* DELETE of a row that is gone passes with a warning.
DeleteMember(s) == LET t == req[s].target IN
    /\ role' = IF s \in lost THEN role ELSE [role EXCEPT ![t] = "none"]
    /\ Close(s)
    /\ UNCHANGED <<inv, history>>

\* Mutant: the assignments are left behind.
RemovalWrite_KeepsRows(s) ==
    /\ Asked(s, "write", "remove")
    /\ lost' = (lost \cup Holding(MemberKinds, req[s].target, s)) \ {s}
    /\ DeleteMember(s)
    /\ UNCHANGED proj

RemovalWrite(s) ==
    /\ Asked(s, "write", "remove")
    /\ proj' = [proj EXCEPT ![req[s].target] = "none"]
    /\ lost' = (lost \cup Holding(MemberKinds \cup ProjectKinds, req[s].target, s)) \ {s}
    /\ DeleteMember(s)

\* SCIM leaves team and project rows alone.
DeactivationWrite(s) ==
    /\ Asked(s, "write", "deactivate")
    /\ lost' = (lost \cup Holding(MemberKinds, req[s].target, s)) \ {s}
    /\ DeleteMember(s)
    /\ UNCHANGED proj

ActivationRead(s) ==
    /\ Asked(s, "read", "activate")
    /\ role[req[s].target] = "none"
    /\ Go(s, "write", "none")

\* unique(org_id, user_id) refuses a second row.
Join(u, r, authority) ==
    /\ role[u] = "none"
    /\ role' = [role EXCEPT ![u] = r]
    /\ Granted(u, r, authority)

ActivationWrite(s) ==
    /\ Asked(s, "write", "activate")
    /\ Join(req[s].target, "member", Founder)
    /\ End(s)
    /\ UNCHANGED <<proj, inv>>

(***************************************************************************)
(* Invitations.                                                            *)
(***************************************************************************)
InviteRead(s) ==
    /\ Asked(s, "read", "invite")
    /\ req[s].new = "owner" => ctx[s] = "owner"
    /\ role[req[s].target] = "none"
    /\ \A i \in Invites : ~(inv[i].status = "pending" /\ inv[i].to = req[s].target)
    /\ Go(s, "write", "none")

InviteWrite(s, i, project) ==
    /\ Asked(s, "write", "invite")
    /\ inv[i].status = "unsent"
    /\ inv' = [inv EXCEPT ![i] = [status |-> "pending", to |-> req[s].target, by |-> req[s].actor,
                                  role |-> req[s].new, project |-> project]]
    /\ End(s)
    /\ UNCHANGED <<role, proj, history>>

\* Mutant: any invitation can be revoked.
RevokeRead_Any(s) == Asked(s, "read", "revoke") /\ Go(s, "write", "none")

RevokeRead(s) ==
    /\ Asked(s, "read", "revoke")
    /\ inv[req[s].invite].status = "pending"
    /\ Go(s, "write", "none")

RevokeWrite(s) ==
    /\ Asked(s, "write", "revoke")
    /\ inv' = [inv EXCEPT ![req[s].invite].status = "revoked"]
    /\ End(s)
    /\ UNCHANGED <<role, proj, history>>

AcceptRead(s) == LET i == inv[req[s].invite] IN
    /\ Asked(s, "read", "accept")
    /\ i.status = "pending"
    /\ i.to = req[s].actor
    /\ role[req[s].actor] = "none"
    /\ Go(s, IF Manages(i.role) THEN "check" ELSE "write", "none")

\* An elevated role needs an inviter who still has it.
InviterRead(s) == LET i == inv[req[s].invite] IN
    /\ Asked(s, "check", "accept")
    /\ AtLeast(role[i.by], i.role)
    /\ Go(s, "write", "none")

\* Mutant: the organisation role becomes the project role.
AcceptWrite_OrgRole(s) == LET i == inv[req[s].invite] u == req[s].actor IN
    /\ Asked(s, "write", "accept")
    /\ Join(u, i.role, i.by)
    /\ proj' = IF i.project /\ proj[u] = "none" THEN [proj EXCEPT ![u] = i.role] ELSE proj
    /\ inv' = [inv EXCEPT ![req[s].invite].status = "accepted"]
    /\ End(s)

AcceptWrite(s) == LET i == inv[req[s].invite] u == req[s].actor IN
    /\ Asked(s, "write", "accept")
    /\ Join(u, i.role, i.by)
    /\ proj' = IF i.project /\ proj[u] = "none"
               THEN [proj EXCEPT ![u] = IF i.role = "guest" THEN "limited" ELSE "full"] ELSE proj
    /\ inv' = [inv EXCEPT ![req[s].invite].status = "accepted"]
    /\ End(s)

(***************************************************************************)
(* Project assignments.                                                    *)
(***************************************************************************)
Assignees == {u \in Users : proj[u] # "none"}

AssignRead(s) == LET t == req[s].target IN
    /\ Asked(s, "read", "assign")
    /\ role[t] # "none"
    /\ WithinCeiling(role[t], req[s].new)
    /\ proj[t] = "none"
    /\ Go(s, "write", "none")

JoinRead(s) ==
    /\ Asked(s, "read", "join")
    /\ proj[req[s].actor] = "none"
    /\ Go(s, "write", "none")

\* unique(project_id, user_id); a guest joins as a commenter.
AssignWrite(s) == LET t == req[s].target IN
    /\ pc[s] = "write" /\ req[s].kind \in {"assign", "join"}
    /\ proj[t] = "none"
    /\ proj' = [proj EXCEPT ![t] = IF req[s].kind = "assign" THEN req[s].new
                                   ELSE IF ctx[s] = "guest" THEN "limited" ELSE "full"]
    /\ End(s)
    /\ UNCHANGED <<role, inv, history>>

RegradeRead(s) == LET t == req[s].target IN
    /\ Asked(s, "read", "regrade")
    /\ proj[t] # "none"
    /\ WithinCeiling(role[t], req[s].new)
    /\ Go(s, "write", proj[t])

RegradeWrite(s) ==
    /\ Asked(s, "write", "regrade")
    /\ req[s].new # seen[s] => s \notin lost
    /\ proj' = IF req[s].new = seen[s] THEN proj ELSE [proj EXCEPT ![req[s].target] = req[s].new]
    /\ End(s)
    /\ UNCHANGED <<role, inv, history>>

UnassignRead(s) == LET t == req[s].target IN
    /\ Asked(s, "read", "unassign")
    /\ t # req[s].actor
    /\ proj[t] # "none"
    /\ Assignees # {t}
    /\ Go(s, "write", "none")

UnassignWrite(s) == LET t == req[s].target IN
    /\ Asked(s, "write", "unassign")
    /\ proj' = IF s \in lost THEN proj ELSE [proj EXCEPT ![t] = "none"]
    /\ lost' = (lost \cup Holding(ProjectKinds, t, s)) \ {s}
    /\ Close(s)
    /\ UNCHANGED <<role, inv, history>>

Begin(s) == AskAsAdmin(s) \/ AskForOneself(s) \/ AskByScim(s)

Step(s) ==
    \/ RoleRead(s) \/ RemovalRead(s) \/ DeactivationRead(s) \/ CountOwners(s) \/ ActivationRead(s)
    \/ RoleWrite(s) \/ RemovalWrite(s) \/ DeactivationWrite(s) \/ ActivationWrite(s)
    \/ InviteRead(s) \/ RevokeRead(s) \/ AcceptRead(s) \/ InviterRead(s)
    \/ RevokeWrite(s) \/ AcceptWrite(s)
    \/ \E i \in Invites, project \in BOOLEAN : InviteWrite(s, i, project)
    \/ AssignRead(s) \/ JoinRead(s) \/ RegradeRead(s) \/ UnassignRead(s)
    \/ AssignWrite(s) \/ RegradeWrite(s) \/ UnassignWrite(s)
    \/ Refuse(s)

(***************************************************************************)
(* History: who relies on what is no longer so.  A step overtakes the      *)
(* requests that have read the row it changes (a request about its actor   *)
(* reads that row first of all), and those that have counted an owner it   *)
(* takes away.  A user goes astray by the assignment of a request that was *)
(* overtaken, and by SCIM, which leaves the assignment behind; until the   *)
(* assignment is gone.                                                     *)
(***************************************************************************)
Overtakes(s) ==
    \/ \E u \in Users : /\ u = req[s].target /\ role'[u] # role[u]
                        /\ pc[s] \in {"check", "write"} \/ u = req[s].actor
    \/ \E i \in Invites : /\ i = req[s].invite /\ inv'[i].status # inv[i].status
                          /\ pc[s] \in {"check", "write"}
    \/ pc[s] = "write" /\ seen[s] = "owner" /\ \E u \in Owners : role'[u] # "owner"

Writes(s) == pc[s] = "write" /\ pc'[s] = "idle"
Belated(s) == Writes(s) /\ s \in overtaken

LeavesAstray(s, u) ==
    /\ Writes(s) /\ req[s].target = u
    /\ \/ s \in overtaken /\ proj'[u] # proj[u]
       \/ req[s].kind = "deactivate" /\ role'[u] # role[u]

Remember ==
    /\ overtaken' = {s \in Sessions : pc'[s] # "idle" /\ (s \in overtaken \/ Overtakes(s))}
    /\ astray' = {u \in Users : proj'[u] # "none" /\ (u \in astray \/ \E s \in Sessions : LeavesAstray(s, u))}

Next == \E s \in Sessions : (Begin(s) \/ Step(s)) /\ Remember
Spec == Init /\ [][Next]_vars

(***************************************************************************)
(* Properties.                                                             *)
(***************************************************************************)

\* Every variable has its type.
TypeOK ==
    /\ role \in [Users -> OrgRoles \cup {"none"}]
    /\ proj \in [Users -> ProjectRoles \cup {"none"}]
    /\ inv \in [Invites -> Invitations]
    /\ pc \in [Sessions -> {"idle", "read", "check", "write"}]
    /\ req \in [Sessions -> Requests]
    /\ ctx \in [Sessions -> OrgRoles \cup {"none"}]
    /\ seen \in [Sessions -> OrgRoles \cup ProjectRoles \cup {"none"}]
    /\ lost \subseteq Sessions
    /\ owned \subseteq Users /\ usurped \subseteq Users
    /\ overtaken \subseteq Sessions /\ astray \subseteq Users

\* "Cannot demote the last owner", "Cannot remove the last owner": whatever is
\* asked, in whatever order and however requests overlap, the last owner goes only
\* by a request that has read a row, or counted an owner, that is no longer so.
OwnerRemains == [][Owners = {} \/ Owners' # {} \/ \E s \in Sessions : Belated(s)]_vars

\* The same without the exception, as the messages have it.
NeverOwnerless == Owners # {}

\* "... to avoid stale cross-tenant assignments": who is not in the organisation
\* is in none of its projects, unless SCIM has ended the membership or the
\* assignment was written after the membership that was checked had changed.
NoStaleAssignments == \A u \in Users : role[u] = "none" => proj[u] = "none" \/ u \in astray

\* "Enforce the workspace guest ceiling: a guest may only be viewer/commenter",
\* along every way to become a guest and every way into a project; with the same
\* exceptions.
GuestCeiling == \A u \in Users \ astray : WithinCeiling(role[u], proj[u])

\* "Only pending invitations can be revoked": an invitation that was accepted or
\* revoked stays what it became, unless it was answered and revoked at once.
SettledInvitesStay ==
    [][\A i \in Invites :
        inv[i].status \in {"accepted", "revoked"} =>
            inv'[i].status = inv[i].status \/ \E s \in Sessions : Belated(s) /\ req[s].invite = i]_vars

\* Ownership comes from owners: with requests whose reads are stale, invitations
\* that outlive their sender's role and users that leave and return, nobody ever
\* comes to own it but on the authority of a user who has owned it.
OwnershipComesFromOwners == usurped = {}
=============================================================================
