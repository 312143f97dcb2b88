--------------------------- MODULE MCMessagePool ----------------------------
(* MessagePool for TLC: two slots, two clients, one player.  Three cells let a
   client, or the player, hold a command while the ring is full, and all three
   threads hold one while it is empty.  No symmetry: a liveness property is
   checked. *)
EXTENDS MessagePool
=============================================================================
