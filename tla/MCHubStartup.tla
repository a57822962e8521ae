--------------------------- MODULE MCHubStartup ---------------------------
(***************************************************************************)
(* A small instance of HubStartup for TLC.                                 *)
(***************************************************************************)
EXTENDS HubStartup

MCRegisters == <<"vbat", "ichg">>
============================================================================
