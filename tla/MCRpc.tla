------------------------------- MODULE MCRpc -------------------------------
(***************************************************************************)
(* Instances of Rpc for TLC.                                               *)
(***************************************************************************)
EXTENDS Rpc

(* Where char is signed: the longest node a request can carry, and one     *)
(* whose name alone does not fit.                                          *)
MCPeer == {[name |-> 109, host |-> 12, port |-> 2], [name |-> 128, host |-> 9, port |-> 4]}
=============================================================================
