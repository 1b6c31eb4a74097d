------------------------- MODULE MCP2PNegotiation -------------------------
(***************************************************************************)
(* P2PNegotiation for TLC, with two publications.                          *)
(***************************************************************************)
EXTENDS P2PNegotiation

CONSTANTS p1, p2

MCPublications == {p1, p2}
=============================================================================
