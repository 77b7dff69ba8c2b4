--------------------------- MODULE MCOutboundProxy ---------------------------
(* Instances of OutboundProxy for TLC. *)
EXTENDS OutboundProxy

CONSTANTS c1, c2, c3, u1

ThreeConns == {c1, c2, c3}
OneUpstream == {u1}
=============================================================================
