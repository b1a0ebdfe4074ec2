---------------------------- MODULE MCXTransport ----------------------------
(***************************************************************************)
(* Lists of bootstrap resolvers.                                           *)
(***************************************************************************)
EXTENDS XTransport

MCOneResolver == <<"r1">>
MCTwoResolvers == <<"r1", "r2">>
=============================================================================
