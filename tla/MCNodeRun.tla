----------------------------- MODULE MCNodeRun -----------------------------
(* Small instances of NodeRun for TLC.                                        *)
EXTENDS NodeRun
=============================================================================
