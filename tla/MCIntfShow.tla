----------------------------- MODULE MCIntfShow -----------------------------
(* Instance of IntfShow for TLC: interfaces 7, 50 and its lane 50-1, two    *)
(* LAGs of which one's name is the beginning of the other's.               *)
EXTENDS IntfShow

Number(id, ext) == [kind |-> "number", id |-> id, ext |-> ext, sub |-> 0]

MCNameOf == [i \in Interface |->
    CASE i = "7" -> Number(7, 0) [] i = "50" -> Number(50, 0) [] i = "50-1" -> Number(50, 1)]
MCPrefixOf == {<<"50", "50-1">>, <<"lag1", "lag10">>}
MCParentOf == [i \in Interface |-> IF i = "50-1" THEN "50" ELSE NoInterface]
MCHwOf == [i \in Interface |->
    [pluggable |-> TRUE, connector |-> "QSFP_PLUS",
     speeds |-> IF i = "50" THEN <<40000>> ELSE <<10000, 1000>>]]
MCModuleOf == [i \in Interface |-> IF i = "50" THEN "QSFP_SR4" ELSE "SFP_SR"]
MCLagMembers == [l \in Lag |-> IF l = "lag1" THEN {"7", "50-1"} ELSE {"50-1"}]

MCCommandsFor == [i \in Interface |->
    CASE i = "7" -> {Cmd("shutdown", "", TRUE), Cmd("flowcontrol", "receive", FALSE)}
      [] i = "50" -> {Cmd("autonegotiation", "off", FALSE)}
      [] i = "50-1" -> {Cmd("shutdown", "", TRUE), CmdN("mtu", 9000, FALSE)}]

MCL3Values == [p \in PortName |->
    CASE p = "50" -> {"bridged", "routed", "address"} [] p = "lag10" -> {"address"}
      [] OTHER -> {}]

MCLinkSpeed == [i \in Interface |-> IF i = "7" THEN 1000 ELSE 10000]
MCStatistics == [i \in Interface |->
    IF i = "7" THEN [k \in {"rx_packets"} |-> 3] ELSE [k \in StatKeys |-> 5]]
MCQueueBytes == [i \in Interface |-> IF i = "7" THEN NoQueue ELSE 4]

MCQosConfigs == {NoQos, [NoQos EXCEPT !["trust"] = "dscp", !["cos"] = "one"]}
(* A CoS override that some client wrote there is not inherited.           *)
MCSystemQos == [NoQos EXCEPT !["trust"] = "none", !["schedule"] = "default", !["cos"] = "two"]
=============================================================================
