---------------------------- MODULE MCUdpSocket ----------------------------
(* Instance of UdpSocket for TLC: one socket, two datagrams.               *)
EXTENDS UdpSocket

CONSTANTS p1, p2

=============================================================================
