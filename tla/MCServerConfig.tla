--------------------------- MODULE MCServerConfig ---------------------------
(***************************************************************************)
(* Constants for checking ServerConfig: one custom field, which the game   *)
(* and the mode both set, and one value to type into each field.           *)
(***************************************************************************)
EXTENDS ServerConfig, TLC

CONSTANTS s1, s2, q1, u1, t1

MCServers == {s1, s2}
MCFetches == {q1}
MCSaves == {u1}
MCStarts == {t1}
MCKeys == {"map"}
MCValues == {"default", "mode", "a"}
MCTyped == [f \in {"port", "password", "map"} |-> {"a"}]
MCDefaultEnv == [f \in {"port", "password", "map"} |->
                    IF f = "map" THEN "default" ELSE Blank]
MCModeEnv == [f \in {"port", "password", "map"} |->
                 IF f = "map" THEN "mode" ELSE Blank]

MCSymmetry == Permutations(MCServers)
=============================================================================
