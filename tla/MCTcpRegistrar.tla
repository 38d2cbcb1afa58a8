--------------------------- MODULE MCTcpRegistrar ---------------------------
(* Instances of TcpRegistrar for TLC.  There is no symmetry: liveness is checked. *)
EXTENDS TcpRegistrar, TLC

CONSTANTS a, b

Connections == [i \in Ids |-> IF i = a THEN 2 ELSE 1]
=============================================================================
