----------------------------- MODULE MCOtaRelay -----------------------------
(***************************************************************************)
(* Small instances of OtaRelay for TLC.  d1 and d2 both may ask for f1,    *)
(* stated as two chunks though the file has three; d2 also asks for f2,    *)
(* whose size its request does not state, and d1 for f3, stated as three   *)
(* chunks though the file ends within the second.                          *)
(***************************************************************************)
EXTENDS OtaRelay, TLC

CONSTANTS d1, d2, f1, f2, f3

MCWants == [d \in Devices |-> Files \ (IF d = d1 THEN {f2} ELSE {f3})]
MCSize == [f \in Files |-> CASE f = f1 -> 3 [] f = f2 -> 0 [] f = f3 -> 5]
MCLength == [f \in Files |-> CASE f = f1 -> 5 [] f = f2 -> 2 [] f = f3 -> 3]
=============================================================================
