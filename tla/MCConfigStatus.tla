--------------------------- MODULE MCConfigStatus ---------------------------
(***************************************************************************)
(* One pod that a VPA may take from Headroom: the counts move with an      *)
(* event, when the pod comes or goes, and without one, when the VPA does.  *)
(***************************************************************************)
EXTENDS ConfigStatus, TLC

CONSTANTS p1, v1, n1

MCNodeOf == p1 :> n1
MCGoverns == v1 :> {p1}
=============================================================================
