--------------------------- MODULE MCPlayerThread ---------------------------
(* Small instances of PlayerThread. *)
EXTENDS PlayerThread
Cmd(k)    == [kind |-> k, arg |-> 0]
SearchTo(t) == [kind |-> "SEARCH", arg |-> t]
Seeks     == {SearchTo(t) : t \in {0, 1, 3}}
SeekOrLoop == Seeks \cup {Cmd("LOOP"), Cmd("TSPROGRAM")}
StartOrPause == {Cmd("START"), Cmd("PAUSE"), Cmd("RESUME")}
OnlySeeks == {SearchTo(0), SearchTo(1)}
Programs  == {Cmd("TSPROGRAM")}
=============================================================================
