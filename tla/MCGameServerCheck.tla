--------------------------- MODULE MCGameServerCheck ---------------------------
(* Two game servers on one machine, told apart by their ports *)
EXTENDS GameServerCheck, TLC

CONSTANTS g1, g2, Localhost

TwoServers == {g1, g2}
Hosts == [s \in TwoServers |-> Localhost]
Ports == (g1 :> 35201) @@ (g2 :> 35203)
=============================================================================
