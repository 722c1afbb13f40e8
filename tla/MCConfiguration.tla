--------------------------- MODULE MCConfiguration ---------------------------
(* Configuration on small sets, with named first configurations. *)
EXTENDS Configuration

CONSTANTS m1, m2, p1, p2

DryRun  == [market |-> m1, pair |-> p1, execute |-> FALSE]
Trading == [market |-> m1, pair |-> p1, execute |-> TRUE]
Moved   == [market |-> m2, pair |-> p1, execute |-> TRUE]
Uploads == {Trading, Moved}
Toggles == {Trading, DryRun}
=============================================================================
