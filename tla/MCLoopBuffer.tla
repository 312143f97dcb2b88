---------------------------- MODULE MCLoopBuffer ----------------------------
(* Small instances of LoopBuffer: bytes, pages and reserves of one or two. *)
EXTENDS LoopBuffer
=============================================================================
