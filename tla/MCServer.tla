------------------------------- MODULE MCServer -------------------------------
(***************************************************************************)
(* A small instance of Server: a FabricClient and a peer that keeps to no  *)
(* protocol.                                                               *)
(***************************************************************************)
EXTENDS Server

MCCallKinds == {"Mutation", "LargeQuery"}
MCRawKinds == {"RejectedHello", "Malformed"}
===============================================================================
