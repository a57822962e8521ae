------------------------ MODULE MCCommandDispatcher ------------------------
(***************************************************************************)
(* Small instances of CommandDispatcher for TLC.  d1 can be sent two       *)
(* commands in a row: r1, one fragment, answered plainly, and r2, two      *)
(* fragments, answered in two pages.  d2 is sent r3, which does not fit a  *)
(* burst at all.                                                           *)
(***************************************************************************)
EXTENDS CommandDispatcher, TLC

CONSTANTS d1, d2, r1, r2, r3

Restricted(f) == [r \in Requests |-> f[r]]

MCTarget == Restricted(r1 :> d1 @@ r2 :> d1 @@ r3 :> d2)
MCFrags == Restricted(r1 :> 1 @@ r2 :> 2 @@ r3 :> 0)
MCPages == Restricted(r1 :> 0 @@ r2 :> 2 @@ r3 :> 0)
============================================================================
