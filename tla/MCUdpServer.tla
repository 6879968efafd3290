---------------------------- MODULE MCUdpServer ----------------------------
(* A small instance of UdpServer.                                          *)
EXTENDS UdpServer
=============================================================================
