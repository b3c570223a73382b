--------------------------- MODULE MCPairingTable ---------------------------
(***************************************************************************)
(* Small instances of PairingTable for TLC.                                *)
(***************************************************************************)
EXTENDS PairingTable, TLC

Symmetry == Permutations(Computer) \cup Permutations(Handle)
=============================================================================
