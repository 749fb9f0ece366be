---------------------------- MODULE MCIntfConfig ----------------------------
(* Instance of IntfConfig for TLC: one interface of each kind.             *)
EXTENDS IntfConfig

Hw(pluggable, connector, speeds) ==
    [pluggable |-> pluggable, connector |-> connector, speeds |-> speeds]

MCKinds ==
    {[type |-> "system", role |-> "plain", hw |-> Hw(TRUE, "SFP_PLUS", <<1000, 10000>>)],
     [type |-> "system", role |-> "plain", hw |-> Hw(FALSE, "RJ45", <<1000>>)],
     [type |-> "system", role |-> "parent", hw |-> Hw(TRUE, "QSFP28", <<100000, 40000>>)],
     [type |-> "system", role |-> "child", hw |-> Hw(TRUE, "QSFP28", <<25000, 10000>>)],
     [type |-> "loopback", role |-> "plain", hw |-> Hw(FALSE, "absent", <<1000>>)]}

Pm(connector, status, is40G) ==
    [connector |-> connector, connector_status |-> status, is40G |-> is40G]

(* Copper that negotiates or not when split, fibre, modules that are not   *)
(* supported by status and by type, one intfd does not know, and none.     *)
MCPmInfos ==
    {Pm("QSFP28_CR4", "supported", TRUE), Pm("QSFP28_CR4", "supported", FALSE),
     Pm("QSFP_SR4", "unsupported", FALSE),
     Pm("QSFP28_PSM4", "supported", FALSE),
     Pm("SFP_LRM", "supported", FALSE), Pm("SFP56_SR", "supported", FALSE),
     Pm("ABSENT", "absent", FALSE)}

(* One below and one above the valid ones, and one that atoi makes the     *)
(* greatest of them.                                                       *)
MCMtus == {NoMtu, 575, 9193, 2 * IntSpan + 9192}

(* The last one comes to 25000.                                            *)
MCSpeedLists == {<<>>, <<10000, 1000>>, <<NotANumber>>, <<2 * IntSpan + 25000>>}
=============================================================================
