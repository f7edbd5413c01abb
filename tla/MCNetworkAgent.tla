--------------------------- MODULE MCNetworkAgent ---------------------------
(* One group: it is created with a TCP channel and may become a UDP one. *)
EXTENDS NetworkAgent, TLC

CONSTANTS tcp, udp
=============================================================================
