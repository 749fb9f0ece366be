------------------------------ MODULE MCIntfCli -----------------------------
(* Instances of IntfCli for TLC: interfaces 5 or 7, 50 and its lane 50-1.  *)
EXTENDS IntfCli

Number(id, ext) == [kind |-> "number", id |-> id, ext |-> ext, sub |-> 0]

MCNameOf == [i \in Interface |->
    CASE i = "5" -> Number(5, 0) [] i = "7" -> Number(7, 0)
      [] i = "50" -> Number(50, 0) [] i = "50-1" -> Number(50, 1)]

MCPrefixOf == {<<"5", "50">>, <<"5", "50-1">>, <<"50", "50-1">>} \cap (Interface \X Interface)

MCLagMembers == [l \in Lag |-> Interface \ {"50"}]
LaneLagMembers == [l \in Lag |-> {"50-1"}]
NoLagMembers == [l \in Lag |-> {}]

MCParentOf == [i \in Interface |-> IF i = "50-1" THEN "50" ELSE NoInterface]

MCHwOf == [i \in Interface |->
    [pluggable |-> TRUE, connector |-> "QSFP_PLUS",
     speeds |-> IF i = "50" THEN <<40000>> ELSE <<10000, 1000>>]]

(* The columns of an interface are independent of each other but for the   *)
(* split: each interface gets a part of the commands.                      *)
MCCommandsFor == [i \in Interface |->
    CASE i = "50" -> {Cmd("shutdown", "", no) : no \in BOOLEAN}
                     \cup {Cmd("flowcontrol", d, no) : d \in {"send", "receive"}, no \in BOOLEAN}
      [] i = "50-1" -> {Cmd("shutdown", "", no) : no \in BOOLEAN}
                       \cup {CmdN("speed", s, FALSE) : s \in {10000, 40000}}
                       \cup {Cmd("speed", "auto", FALSE)}
      [] OTHER -> {CmdN("mtu", m, FALSE) : m \in {1500, 9192, 9193}}
                  \cup {Cmd("duplex", d, FALSE) : d \in {"half", "full"}}]

(* For the effect of split on the Port table, which commands do not touch. *)
NoCommands == [i \in Interface |-> {}]
=============================================================================
