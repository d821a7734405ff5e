---------------------------- MODULE MCHttpServer ----------------------------
(* Instance of HttpServer for TLC. *)
EXTENDS HttpServer

CONSTANTS c1, c2, c3

=============================================================================
