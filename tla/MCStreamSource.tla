---------------------------- MODULE MCStreamSource ----------------------------
(* A small instance of StreamSource: a stream of a few bytes, buffers of two. *)
EXTENDS StreamSource
=============================================================================
