---------------------------- MODULE MCDiscovery ------------------------------
(* Small instances of Discovery for TLC; their constants are in the .cfg    *)
(* files.                                                                   *)
EXTENDS Discovery
==============================================================================
