----------------------------- MODULE MCRTCRoom -----------------------------
(* Instances of RTCRoom for TLC.                                           *)
EXTENDS RTCRoom
=============================================================================
