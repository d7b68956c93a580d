---------------------------- MODULE MCCoordinator ----------------------------
(***************************************************************************)
(* Instances of module Coordinator.                                        *)
(***************************************************************************)
EXTENDS Coordinator

CONSTANTS s1, s2, node
=============================================================================
