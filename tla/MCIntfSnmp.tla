----------------------------- MODULE MCIntfSnmp -----------------------------
(***************************************************************************)
(* Databases for the SNMP tables.  Interfaces 1, 2 and the sub-interface   *)
(* 2.1, without ports, for IF-MIB; ports of the lanes 50-1, 50-2 and 51-1, *)
(* which IF-MIB does not show, for IP-MIB.                                 *)
(***************************************************************************)
EXTENDS IntfSnmp

MCNumber == "1" :> 1 @@ "2" :> 2 @@ "2.1" :> 2 @@ "50-1" :> 50 @@ "50-2" :> 50 @@ "51-1" :> 51
MCFirstOf == [p \in Port |-> p]

\* Different values for different keys, so that sums tell them apart.
MCKeys == <<"rx_packets", "rx_bytes", "rx_dropped", "rx_errors",
            "tx_packets", "tx_bytes", "tx_dropped", "tx_errors">>
MCStatistics == [k \in {MCKeys[n] : n \in DOMAIN MCKeys} |-> CHOOSE n \in DOMAIN MCKeys : MCKeys[n] = k]
MCIpStatistics(n) == [k \in {"uc", "mc"} \X {"rx", "tx"} \X {"packets", "bytes"} |->
    n * (IF k[1] = "uc" THEN 1 ELSE 2) * (IF k[2] = "rx" THEN 1 ELSE 4) * (IF k[3] = "bytes" THEN 16 ELSE 1)]
MCNoIp == [v4 |-> Empty, v6 |-> Empty]
MCIp == [v4 |-> MCIpStatistics(1), v6 |-> MCIpStatistics(256)]

MCRow(admin, link, speed, stats, ip) ==
    [admin_state |-> admin, link_state |-> link, link_speed |-> speed,
     statistics |-> stats, ip |-> ip]
MCUp == MCRow("up", "up", <<9>>, MCStatistics, MCIp)
MCDown == MCRow("down", "down", <<9>>, Empty, MCNoIp)
MCNew == MCRow("down", "unset", <<>>, Empty, MCNoIp)
MCInterfaceRows == {MCUp, MCDown, MCNew, [MCNew EXCEPT !.admin_state = "unset"]}

MCPort(linked, v4, v6) == [interfaces |-> linked, address |-> [v4 |-> v4, v6 |-> v6]]
MCSoundPorts == {MCPort(TRUE, "none", "primary"), MCPort(TRUE, "primary", "primary"),
                 MCPort(TRUE, "empty", "none")}
MCPortRows == MCSoundPorts \cup {MCPort(TRUE, "none", "secondary"), MCPort(FALSE, "primary", "none")}

MCLanes == {"50-1", "50-2", "51-1"}
MCSystems ==
    [intf : {f \in [{"1", "2", "2.1"} -> {MCUp, MCDown, MCNew}] : f["1"] # MCDown}
            \cup {[i \in {"50-1"} |-> MCUp]}, port : {Empty},
     order : {s \o <<"50-1", "50-2", "51-1">> : s \in {<<"2", "1", "2.1">>, <<"2.1", "2", "1">>}},
     polled : {{"ifTable", "ifXTable"}}]
    \cup
    [intf : {[i \in MCLanes |-> MCUp]}, port : [MCLanes -> MCSoundPorts],
     order : {<<"1", "2", "2.1", "50-1", "50-2", "51-1">>, <<"1", "2", "2.1", "51-1", "50-2", "50-1">>},
     polled : {{"ipIfStatsTable", "ipSystemStatsTable"}}]
=============================================================================
