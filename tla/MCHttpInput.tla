---------------------------- MODULE MCHttpInput ----------------------------
(* Small instances of HttpInput: a file of a few bytes, one or two retries. *)
EXTENDS HttpInput
=============================================================================
