------------------------------ MODULE MCVisits ------------------------------
(***************************************************************************)
(* Visits on small instances, with every expiry within the bounds.         *)
(***************************************************************************)
EXTENDS Visits

MCPast == (-Horizon)..(-1)
MCExpiries == MCPast \cup 0..Latest \cup {Never}
=============================================================================
