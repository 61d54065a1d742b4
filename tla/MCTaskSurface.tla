---- MODULE MCTaskSurface ----
(* A surface with its saved views.  To the rest of the surface a view that is applied is a
   change of the filter, which ChangeFilter makes at any time; so the two are walked through one
   after the other, and part says which. *)
EXTENDS TaskBoard, TaskViews, TLC
CONSTANTS t1, t2, t3, b1, b2, v1, v2
VARIABLE part

Init ==
  /\ BoardInit /\ ViewsInit /\ part \in {"surface", "views"}
  /\ surface = "table" => lanes = Groups
  /\ part = "surface" => \A b \in Browsers : config[b].density = 1
  /\ part = "views" =>
       lanes = Groups /\ surface = "board" /\ url = NoTask /\ data = [rows |-> <<t1, t2, t3>>, group |-> [t \in Tasks |-> 1]]

Next ==
  /\ part' = part
  /\ \/ part = "surface" /\ BoardNext /\ UNCHANGED viewVars
     \/ part = "views" /\ ViewsNext /\ UNCHANGED boardVars

Spec == Init /\ [][Next]_<<boardVars, viewVars, part>>

TypeOK == BoardTypeOK /\ ViewsTypeOK
Alike == Permutations(Tasks) \cup Permutations(Browsers) \cup Permutations(ViewIds)
====
