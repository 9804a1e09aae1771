------------------------------- MODULE MCSetup -------------------------------
(* Setup with one server that accepts the credentials and one that does     *)
(* not, two homes, a pair out of range and a half-filled one.               *)
EXTENDS Setup

MCPairs == {NoPair, <<"12", "12">>, <<"12", "77">>, <<"77", OutOfRange>>, <<"77", Missing>>}
=============================================================================
