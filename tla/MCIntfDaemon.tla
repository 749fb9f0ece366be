---------------------------- MODULE MCIntfDaemon ----------------------------
(* Instance of IntfDaemon for TLC: the layers the code registers.          *)
EXTENDS IntfDaemon

Hw(connector) == [pluggable |-> FALSE, connector |-> connector, speeds |-> <<1000>>]

MCTypeOf == [i \in Interface |-> IF i = "lo1" THEN "loopback" ELSE "system"]
MCHwOf == [i \in Interface |-> IF i = "lo1" THEN Hw("absent") ELSE Hw("RJ45")]
MCParentOf == [i \in Interface |-> "none"]
MCCanHold == [p \in PortName |-> IF p \in Interface THEN {p} ELSE Physical]

(* The loopback is not configured.                                         *)
AdminConfigs == [i \in Interface |->
    {[NoUserConfig EXCEPT !.admin = a] : a \in IF i = "lo1" THEN {} ELSE {"absent", "up"}}]

(* intfd_arbiter_layer_aggregation_register: LACP, in the one layer.       *)
RegisteredLayers == << <<0>> >>
=============================================================================
