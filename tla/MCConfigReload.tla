--------------------------- MODULE MCConfigReload ---------------------------
(***************************************************************************)
(* Small instances of ConfigReload for TLC.                                *)
(***************************************************************************)
EXTENDS ConfigReload

CONSTANTS s1, s2, t1, t2
=============================================================================
