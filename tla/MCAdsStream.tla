----------------------------- MODULE MCAdsStream -----------------------------
(* AdsStream for TLC; the bounds are in the configurations.                *)
EXTENDS AdsStream
=============================================================================
