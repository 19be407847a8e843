---------------------------- MODULE MCSelfReload -----------------------------
(* Instances of SelfReload for TLC: a linear history 1, 2, 3 in which commit *)
(* 3 passes the preflight but does not serve; commit 4 changes migrations.   *)
EXTENDS SelfReload

MCAncestor == {p \in Shas \X Shas : p[1] < p[2]}
MCFrozen == [s \in Shas |-> IF s = 4 THEN "schema2" ELSE "schema1"]
=============================================================================
