---------------------------- MODULE MCHubRoster ----------------------------
(* Small instances of HubRoster for TLC: two devices and two slots. *)
EXTENDS HubRoster, TLC

CONSTANTS m1, m2

DevicesAlike == Permutations({m1, m2})

\* Bound: once two kinds of work have met the reaper, the run looks no further.
OneKindOfCollision == \A k, l \in collided : k = l
============================================================================
