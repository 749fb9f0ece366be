----------------------------- MODULE IntfConfig -----------------------------
(***************************************************************************)
(* One interface of intfd, its columns changed one at a time by other      *)
(* clients, each change parsed and handed to set_interface_config.         *)
(* op_state is carried from call to call, so the columns written could     *)
(* depend on the history of the row; the properties say that they do not.  *)
(* (Which changes reach set_interface_config, and when, is the subject of  *)
(* IntfReconfig.)                                                          *)
(***************************************************************************)
EXTENDS IntfOpState

CONSTANTS
    Kinds,       \* [type, role, hw]: interface type, place in a split group
                 \* ("plain", "parent", "child"), hw_intf_info column
    Autonegs, Pauses, Duplexes, SpeedLists, Mtus,   \* user_config values
    PmInfos,     \* pm_info columns (of the parent for a child)
    MaxMtu       \* MTU of the base subsystem

(* The platform describes its interfaces with at most as many speeds as    *)
(* intfd parses, each of which fits an int.                                *)
ASSUME ConfigAssumption ==
    /\ MaxMtu \in Nat /\ Mtus \subseteq Int
    /\ SpeedLists \subseteq Seq(Nat \cup {NotANumber})
    /\ \A k \in Kinds :
          /\ k.role \in {"plain", "parent", "child"}
          /\ k.hw.speeds \in Seq(0..(IntSpan - 1)) /\ Len(k.hw.speeds) \in 1..INTFD_MAX_SPEEDS_ALLOWED

VARIABLES
    kind,         \* which interface this is; never changes
    uc, pm,       \* columns user_config and pm_info
    portAdmin,    \* what port_parse_admin finds
    parentSplit,  \* lane_split of the parent (for a child)
    intf, out     \* the iface structure; the columns written

vars == <<kind, uc, pm, portAdmin, parentSplit, intf, out>>

Family(k, psplit) ==
    [has_children |-> k.role = "parent", has_parent |-> k.role = "child",
     parent_split |-> psplit]

ParsedPm(k, p) ==
    IF k.role = "child" THEN intfd_parse_split_pm_info(p)
    ELSE intfd_parse_pm_info(intfd_parse_hw_info(k.hw), p)

NoUserConfig ==
    [admin |-> "absent", autoneg |-> "absent", pause |-> "absent", duplex |-> "absent",
     mtu |-> NoMtu, speeds |-> <<>>, lane_split |-> "absent"]

(* add_new_interface and the INSERTED branch, for a fresh row.             *)
NewIface(k, p) ==
    [type |-> k.type, hw_info |-> intfd_parse_hw_info(k.hw),
     user_cfg |-> intfd_parse_user_cfg(NoUserConfig, k.hw, MaxMtu),
     pm_info |-> ParsedPm(k, p), port_admin |-> "down", op_state |-> NoOpState]

Init ==
    /\ kind \in Kinds
    /\ pm \in PmInfos
    /\ uc = NoUserConfig
    /\ portAdmin = "down"
    /\ parentSplit = "no-split"
    /\ LET r == set_interface_config(NewIface(kind, pm), Family(kind, parentSplit)) IN
          /\ intf = r.intf
          /\ out = r.out

(* The handler, after the columns changed.                                 *)
Reconfigure ==
    LET parsed == [intf EXCEPT !.user_cfg = intfd_parse_user_cfg(uc', kind.hw, MaxMtu),
                               !.pm_info = ParsedPm(kind, pm'),
                               !.port_admin = portAdmin']
    IN /\ \E r \in {set_interface_config(parsed, Family(kind, parentSplit'))} :
             intf' = r.intf /\ out' = r.out
       /\ UNCHANGED kind

UserConfigChange ==
    /\ \/ \E v \in {"up", "absent"} : uc' = [uc EXCEPT !.admin = v]
       \/ \E v \in Autonegs : uc' = [uc EXCEPT !.autoneg = v]
       \/ \E p \in Pauses, d \in Duplexes : uc' = [uc EXCEPT !.pause = p, !.duplex = d]
       \/ \E v \in SpeedLists : uc' = [uc EXCEPT !.speeds = v]
       \/ \E v \in Mtus : uc' = [uc EXCEPT !.mtu = v]
       \/ \E v \in {"split", "no-split"} :
             kind.role = "parent" /\ uc' = [uc EXCEPT !.lane_split = v]
    /\ uc' # uc
    /\ UNCHANGED <<pm, portAdmin, parentSplit>>
    /\ Reconfigure

PmInfoChange ==
    /\ pm' \in PmInfos \ {pm}
    /\ UNCHANGED <<uc, portAdmin, parentSplit>>
    /\ Reconfigure

PortAdminChange ==
    /\ portAdmin' \in {"up", "down"}
    /\ UNCHANGED <<uc, pm, parentSplit>>
    /\ Reconfigure

ParentSplitChange ==
    /\ kind.role = "child"
    /\ parentSplit' \in {"split", "no-split"}
    /\ UNCHANGED <<uc, pm, portAdmin>>
    /\ Reconfigure

Next == UserConfigChange \/ PmInfoChange \/ PortAdminChange \/ ParentSplitChange

Spec == Init /\ [][Next]_vars

-----------------------------------------------------------------------------
(* Properties.                                                             *)

(* What was parsed and computed are values of the enumerations of intfd.h, *)
(* also for a pm_info of a module intfd does not know.                     *)
TypeOK ==
    /\ kind \in Kinds
    /\ pm \in PmInfos
    /\ portAdmin \in {"up", "down"}
    /\ parentSplit \in {"split", "no-split"}
    /\ intf.op_state.autoneg_capability \in {"none", "required", "optional", "unsupported"}
    /\ intf.op_state.autoneg_state \in {"invalid", "disabled", "enabled"}
    /\ intf.op_state.enabled \in BOOLEAN
    /\ intf.pm_info.connector \in Connectors
    /\ intf.pm_info.op_connector_flags \in Families

(* The table in the comment on calc_intf_op_state_n_reason (lines          *)
(* 1173-1220), completed by the port's admin state, and what each reason   *)
(* means in terms of the columns.                                          *)
Reasons ==
    <<"lanes_split", "lanes_not_split", "admin_down", "module_missing",
      "module_unrecognized", "module_unsupported", "invalid_mtu", "invalid_speeds",
      "autoneg_required", "autoneg_not_supported", "port_admin_down">>

Module == ParsedPm(kind, pm)
NeedsAutoneg == Module.op_connector_flags = "SFP"
                   \/ Module.connector \in {"SFP28_CR", "QSFP_CR4", "QSFP28_CR4"}

(* The speeds in user_config as an int and a uint32_t take them.           *)
UserSpeeds == [k \in 1..Len(uc.speeds) |-> uint32(atoi(uc.speeds[k]))]

SpeedsSupported ==
    /\ Len(uc.speeds) <= Len(kind.hw.speeds)
    /\ \A k \in 1..Len(uc.speeds) :
          /\ uc.speeds[k] # NotANumber
          /\ \E m \in 1..Len(kind.hw.speeds) : UserSpeeds[k] = kind.hw.speeds[m]

Applies(reason) ==
    CASE reason = "lanes_split" -> kind.role = "parent" /\ uc.lane_split = "split"
      [] reason = "lanes_not_split" -> kind.role = "child" /\ parentSplit = "no-split"
      [] reason = "admin_down" -> uc.admin # "up"
      [] reason = "module_missing" -> Module.connector = "ABSENT"
      [] reason = "module_unrecognized" -> Module.connector_status = "unrecognized"
      [] reason = "module_unsupported" ->
            \/ Module.connector_status = "unsupported"
            \/ Module.connector \in {"UNKNOWN", "SFP_LX", "SFP_CX", "SFP_FC"}
      [] reason = "invalid_mtu" -> uc.mtu # NoMtu /\ atoi(uc.mtu) \notin 576..MaxMtu
      [] reason = "invalid_speeds" -> ~SpeedsSupported
      [] reason = "autoneg_required" -> uc.autoneg = "off" /\ NeedsAutoneg
      [] reason = "autoneg_not_supported" -> uc.autoneg = "on" /\ ~NeedsAutoneg
      [] reason = "port_admin_down" -> portAdmin = "down"

(* Reasons that concern an interface of this kind.                         *)
Concerns(reason) ==
    kind.type \notin VirtualTypes \/ reason \in {"admin_down", "port_admin_down"}

(* After every change the error column names the first reason of the       *)
(* documented list that the CURRENT columns give, and the interface is     *)
(* enabled exactly when there is none: no earlier configuration shines     *)
(* through, although invalid mtu or speeds make                            *)
(* validate_n_set_interface_capability return with op_state half updated.  *)
ReasonIsFirstThatApplies ==
    LET applying == {k \in 1..Len(Reasons) : Concerns(Reasons[k]) /\ Applies(Reasons[k])}
    IN /\ out.hw_intf_config.enable = IF applying = {} THEN "true" ELSE "false"
       /\ out.error = IF applying = {} THEN "none"
                      ELSE Reasons[CHOOSE k \in applying : \A j \in applying : k <= j]

(* The rate a supported module is made for.                                *)
RateOf(connector) ==
    CASE connector \in {"SFP_RJ45", "SFP_SX"} -> 1000
      [] connector \in {"SFP_SR", "SFP_LR", "SFP_LRM", "SFP_ER", "SFP_DAC"} -> 10000
      [] connector \in {"SFP28_CR", "SFP28_LR", "SFP28_SR"} -> 25000
      [] connector \in {"QSFP_CR4", "QSFP_LR4", "QSFP_SR4"} -> 40000
      [] connector \in {"QSFP28_CLR4", "QSFP28_CR4", "QSFP28_PSM4", "QSFP28_CWDM4",
                        "QSFP28_LR4", "QSFP28_SR4"} -> 100000

(* Supported modules for which get_connector_if_type or                    *)
(* intfd_get_intf_type_str has no case.                                    *)
TypelessModules == {"SFP_LRM", "QSFP28_CLR4", "QSFP28_PSM4", "QSFP28_CWDM4"}

(* What an enabled physical interface is programmed with is determined by  *)
(* the current columns: autonegotiation exactly where the module needs it, *)
(* the user's speeds (only the first without autonegotiation) or, without  *)
(* any, the one rate of the module in it, the user's mtu or 1500, and the  *)
(* type of that very module but for the typeless ones.  Nothing is left of *)
(* another module, of a list of speeds that was taken back or of the       *)
(* values before one that was refused.                                     *)
HwConfigFollowsRow ==
    kind.type \notin VirtualTypes /\ out.hw_intf_config.enable = "true" =>
        LET cfg == out.hw_intf_config IN
        /\ cfg.autoneg = IF NeedsAutoneg THEN "on" ELSE "off"
        /\ cfg.speeds = IF uc.speeds = <<>> THEN <<RateOf(Module.connector)>>
                        ELSE IF NeedsAutoneg THEN UserSpeeds ELSE <<UserSpeeds[1]>>
        /\ cfg.mtu = IF uc.mtu = NoMtu THEN 1500 ELSE atoi(uc.mtu)
        /\ cfg.duplex = IF uc.duplex = "half" THEN "half" ELSE "full"
        /\ cfg.pause = IF uc.pause \in {"rxtx", "tx", "rx"} THEN uc.pause ELSE "none"
        /\ cfg.interface_type = IF Module.connector \in TypelessModules THEN "UNKNOWN"
                                ELSE Module.connector
=============================================================================
