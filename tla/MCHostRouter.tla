---------------------------- MODULE MCHostRouter ----------------------------
(***************************************************************************)
(* Small instances of HostRouter for TLC.                                  *)
(***************************************************************************)
EXTENDS HostRouter, TLC

\* Hosts that write their subscriptions and may take them back: the two mouse
\* reports of the absolute build, keyboard and mouse of the relative one.
AbsoluteMasks == {{}, {"mouse", "relative"}}
RelativeMasks == {{}, {"keyboard", "mouse"}}

Symmetry == Permutations(Conn)
=============================================================================
