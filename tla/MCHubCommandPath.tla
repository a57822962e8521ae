------------------------- MODULE MCHubCommandPath -------------------------
(***************************************************************************)
(* Small instances of HubCommandPath for TLC.  d1 is sent r2, which is one *)
(* fragment; d2 is sent r3 or r5, of two; d3 is sent r4, which does not    *)
(* fit a burst at all.  r3 is answered plainly, r2 and r5 in two pages.    *)
(***************************************************************************)
EXTENDS HubCommandPath, TLC

CONSTANTS d1, d2, d3, r2, r3, r4, r5

Restricted(f) == [r \in Requests |-> f[r]]

MCTarget == Restricted(r2 :> d1 @@ r3 :> d2 @@ r5 :> d2 @@ r4 :> d3)
MCFrags == Restricted(r2 :> 1 @@ r3 :> 2 @@ r5 :> 2 @@ r4 :> 0)
MCPages == Restricted(r2 :> 2 @@ r3 :> 0 @@ r5 :> 2 @@ r4 :> 0)
============================================================================
