------------------------------ MODULE MCPorts ------------------------------
(* Small instances of Ports for TLC. *)
EXTENDS Ports
CONSTANTS p1, m1, m2
=============================================================================
