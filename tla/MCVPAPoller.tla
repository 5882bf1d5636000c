---------------------------- MODULE MCVPAPoller ----------------------------
(***************************************************************************)
(* Two namespaces, each with a pod on a node of its own and a VPA for it.  *)
(* The channel is as long as one list can change namespaces, so that what  *)
(* a standby leaves in it, or a faster pace of lists, fills it.            *)
(***************************************************************************)
EXTENDS VPAPoller, TLC

CONSTANTS p1, p2, v1, v2, n1, n2, a, b

MCNodeOf == (p1 :> n1) @@ (p2 :> n2)
MCPodNamespace == (p1 :> a) @@ (p2 :> b)
MCVPANamespace == (v1 :> a) @@ (v2 :> b)
MCGoverns == (v1 :> {p1}) @@ (v2 :> {p2})
=============================================================================
