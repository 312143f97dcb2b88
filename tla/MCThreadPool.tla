---------------------------- MODULE MCThreadPool ----------------------------
(* Small instances of ThreadPool: a player thread p made by the application,
   and threads under it. *)
EXTENDS ThreadPool
CONSTANTS player, sub, subsub
Pair  == {player, sub}
Chain == {player, sub, subsub}
ParentOf == [t \in Threads |-> IF t = player THEN Outside
                              ELSE IF t = sub THEN player ELSE sub]
On(op) == [op |-> op, target |-> player]
InterruptCalls == {On("cancel"), On("uncancel")}
PlayerCalls    == InterruptCalls \cup {On("wake")}
RequestCalls   == PlayerCalls \cup {[op |-> "cancel_one", target |-> sub]}
=============================================================================
