----------------------------- MODULE MCUdpLink -----------------------------
(* Instances of UdpLink for TLC; the cfg files give its constants values.  *)
EXTENDS UdpLink
=============================================================================
