----------------------------- MODULE MCHubClock -----------------------------
(***************************************************************************)
(* HubClock for TLC: up to three pings and pongs under way.                  *)
(***************************************************************************)
EXTENDS HubClock
============================================================================
