----------------------------- MODULE MCExtract -----------------------------
(***************************************************************************)
(* Instances of Extract for TLC.                                           *)
(***************************************************************************)
EXTENDS Extract, TLC

CONSTANTS p1, p2, v1, v2

OneProc == {p1}
TwoProcs == {p1, p2}
TwoVersions == {v1, v2}
FourInodes == 1..4
SixInodes == 1..6

OneOut == {"a"}
TwoOuts == {"a", "b"}
CollidingOuts == {"a", "a.tmp"}
TmpNames == ("a" :> "a.tmp") @@ ("b" :> "b.tmp") @@ ("a.tmp" :> "a.tmp.tmp")
TmpOfOuts == [o \in Outs |-> TmpNames[o]]

EqualSizes == [v \in Versions |-> 2]
TwoSizes == [v \in Versions |-> IF v = v1 THEN 2 ELSE 1]
BothModes == [v \in Versions |-> IF v = v1 THEN 493 ELSE 420]
OneMode == [v \in Versions |-> IF v = v1 THEN 493 ELSE 0]

CrashFaults == {"open", "write", "chmod", "rename", "crash"}
CallFaults == {"open", "write", "rename"}
OnlyCrash == {"crash"}
OnlyRead == {"read"}
NoFaults == {}
=============================================================================
