---------------------------- MODULE MCOrgMembership ----------------------------
(* Instances of OrgMembership for TLC. *)
EXTENDS OrgMembership, TLC, FiniteSets

CONSTANTS u1, u2, u3, i1, i2, s1, s2

\* The founder differs from the others, who are alike, as sessions are.
Alike == Permutations(Users \ {Founder}) \cup Permutations(Sessions) \cup Permutations(Invites)
=============================================================================
