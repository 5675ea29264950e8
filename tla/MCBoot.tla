------------------------------ MODULE MCBoot ------------------------------
EXTENDS Boot

MCColumns == <<"start_map", "extra_args">>
MCGames == <<"cs2", "other">>

(* The second release moves a port of the first game and adds one, drops a *)
(* mode and changes the order of the others.                               *)
MCPorts == [r1 |-> [cs2 |-> <<"game", "tv">>, other |-> <<"query">>],
            r2 |-> [cs2 |-> <<"tv2", "game">>, other |-> <<>>]]
MCModes == [r1 |-> [cs2 |-> <<"casual", "retakes">>, other |-> <<>>],
            r2 |-> [cs2 |-> <<"arms", "casual">>, other |-> <<"arms">>]]
=============================================================================
