--------------------------- MODULE MCSvidRotation ---------------------------
(* Instances of SvidRotation for TLC. *)
EXTENDS SvidRotation

CONSTANTS k1, r1, w1

OneCaller == {k1}
OneReader == {r1}
OneWatcher == {w1}
=============================================================================
