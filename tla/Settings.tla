----------------------------- MODULE Settings -----------------------------
(***************************************************************************)
(* What the master promises about the settings of its servers, whatever    *)
(* its database makes of them between two releases: each setting keeps its *)
(* value until a user changes it, which he can while a master serves, and  *)
(* a master that serves goes by these values and no others.  There are no  *)
(* migrations here: Boot, which has them, implements this.                 *)
(***************************************************************************)
CONSTANTS Servers, Keys,
          Setting   \* what a setting may be, "not set" included

VARIABLES value,    \* value[s][k]: setting k of server s
          served    \* the settings a master goes by: none, or those of the one
                    \* that serves

settingVars == <<value, served>>

Init == value \in [Servers -> [Keys -> Setting]] /\ served = {}

Up == served = {} /\ served' = {value} /\ UNCHANGED value

Down == served # {} /\ served' = {} /\ UNCHANGED value

Change(s, k, v) ==
    /\ served # {}
    /\ value' = [value EXCEPT ![s][k] = v]
    /\ served' = {value'}

Next == Up \/ Down \/ \E s \in Servers, k \in Keys, v \in Setting : Change(s, k, v)

Spec == Init /\ [][Next]_settingVars
=============================================================================
