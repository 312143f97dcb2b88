--------------------------- MODULE MCPlayerControl ---------------------------
(* An instance of PlayerControl: two clients, two players, two thread ids. *)
EXTENDS PlayerControl
=============================================================================
