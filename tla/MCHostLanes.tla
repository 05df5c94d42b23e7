------------------------------ MODULE MCHostLanes ------------------------------
(***************************************************************************)
(* Two campaigns that need the same GPU and the same port.                 *)
(***************************************************************************)
EXTENDS HostLanesProps

MCKeys == [c \in Campaigns |-> {1, 2}]
================================================================================
