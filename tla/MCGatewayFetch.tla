--------------------------- MODULE MCGatewayFetch ---------------------------
(***************************************************************************)
(* GatewayFetch with two contracts and two nodes on a chain of up to seven *)
(* blocks: windows of two blocks, of which a search may look at two, leave *)
(* the oldest blocks out of reach.                                         *)
(***************************************************************************)
EXTENDS GatewayFetch

MCHints == {0, 1, 3, 6}
=============================================================================
