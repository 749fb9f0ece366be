--------------------------- MODULE MCIntfReconfig ---------------------------
(* Instances of IntfReconfig for TLC: a splittable interface with a lane,  *)
(* plain interfaces with a LAG, a loopback.                                *)
EXTENDS IntfReconfig

Hw(pluggable, connector, speeds) ==
    [pluggable |-> pluggable, connector |-> connector, speeds |-> speeds]

MCTypeOf == [i \in Interface |-> IF i = "lo1" THEN "loopback" ELSE "system"]
MCHwOf == [i \in Interface |->
             IF i = "lo1" THEN Hw(FALSE, "absent", <<1000>>)
             ELSE IF i \in {"50", "50-1"} THEN Hw(TRUE, "QSFP28", <<40000, 10000>>)
             ELSE Hw(FALSE, "RJ45", <<1000>>)]
MCParentOf == [i \in Interface |-> IF i = "50-1" THEN "50" ELSE "none"]

(* An L3 port has its interface's name; a LAG takes any physical one.      *)
MCCanHold == [p \in PortName |-> IF p \in Interface THEN {p} ELSE Physical]

(* The loopback is not configured.                                         *)
AdminConfigs == [i \in Interface |->
    {[NoUserConfig EXCEPT !.admin = a] : a \in IF i = "lo1" THEN {} ELSE {"absent", "up"}}]

(* Only an interface with lanes can be split.                              *)
SplitConfigs == [i \in Interface |->
    IF Children(i) = {} THEN AdminConfigs[i]
    ELSE {[c EXCEPT !.lane_split = s] : c \in AdminConfigs[i], s \in {"absent", "split"}}]

Pm(connector, status) == [connector |-> connector, connector_status |-> status, is40G |-> FALSE]
MCPmInfos == {NoPm, Pm("QSFP_SR4", "supported"), Pm("QSFP_SR4", "unsupported")}
=============================================================================
