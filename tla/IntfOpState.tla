---------------------------- MODULE IntfOpState -----------------------------
(***************************************************************************)
(* The per-interface computation of intfd (src/src/intfd_ovsdb_if.c): what *)
(* it parses from an Interface row, the operational state it derives, and  *)
(* the hw_intf_config and error columns it writes.  All of it is a         *)
(* function; the state that survives between calls is op_state, which      *)
(* set_interface_config updates only in part.                              *)
(*                                                                         *)
(* Columns: a missing key is "absent"; a list of speeds is a sequence of   *)
(* numbers, with NotANumber for a token is_a_number rejects (and for one   *)
(* past a 64-bit long, which atoi makes -1: no value intfd accepts either);*)
(* a missing speeds key is the empty list, a missing mtu key is NoMtu.     *)
(***************************************************************************)
EXTENDS Integers, Sequences

CONSTANT IntSpan   \* an int is in -IntSpan..(IntSpan - 1): 2^31, less in an instance

ASSUME IntAssumption == IntSpan \in Nat \ {0}

NotANumber == -1
NoMtu == -2

INTFD_MIN_ALLOWED_USER_SPECIFIED_MTU == 576
INTFD_DEFAULT_MTU == 1500
INTFD_MAX_SPEEDS_ALLOWED == 10

BadSpeeds == << -1 >>   \* stands for n_speeds == -1
BadMtu == -1

-----------------------------------------------------------------------------
(* Pluggable modules.                                                      *)

Connectors ==
    {"QSFP28_CLR4", "QSFP28_CR4", "QSFP28_PSM4", "QSFP28_CWDM4", "QSFP28_LR4",
     "QSFP28_SR4", "SFP28_CR", "SFP28_LR", "SFP28_SR", "QSFP_CR4", "QSFP_LR4",
     "QSFP_SR4", "SFP_CX", "SFP_DAC", "SFP_FC", "SFP_LR", "SFP_LRM", "SFP_ER",
     "SFP_LX", "SFP_RJ45", "SFP_SR", "SFP_SX", "ABSENT", "UNKNOWN"}

Families == {"SFP", "SFP_PLUS", "SFP28", "QSFP_PLUS", "QSFP28", "UNSUPPORTED"}

(* The flag combinations PM_*_FLAGS, by name.                              *)
get_connector_flags(c) ==
    CASE c \in {"SFP_RJ45", "SFP_SX"} -> "SFP"
      [] c \in {"SFP_SR", "SFP_LR", "SFP_ER", "SFP_LRM", "SFP_DAC"} -> "SFP_PLUS"
      [] c \in {"SFP28_SR", "SFP28_LR", "SFP28_CR"} -> "SFP28"
      [] c \in {"QSFP_CR4", "QSFP_SR4", "QSFP_LR4"} -> "QSFP_PLUS"
      [] c \in {"QSFP28_SR4", "QSFP28_LR4", "QSFP28_CR4", "QSFP28_CLR4",
                "QSFP28_PSM4", "QSFP28_CWDM4"} -> "QSFP28"
      [] OTHER -> "UNSUPPORTED"

(* Each interface type belongs to one connector and is named by it here.   *)
get_connector_if_type(c) ==
    IF get_connector_flags(c) = "UNSUPPORTED" \/ c = "SFP_LRM" THEN "UNKNOWN" ELSE c

PmInfo(c, status) ==
    [connector |-> c, connector_status |-> status,
     op_connector_flags |-> get_connector_flags(c),
     intf_type |-> get_connector_if_type(c)]

(* pm is the pm_info column: connector, connector_status and               *)
(* supported_speeds (only "is it 40000" matters).                          *)
ParsedStatus(pm) ==
    IF pm.connector_status \in {"supported", "unsupported"}
    THEN pm.connector_status ELSE "unrecognized"

(* Mutant of intfd_parse_pm_info: a connector it does not know is kept.    *)
ParsePmInfoVerbatim(hw_info, pm) ==
    IF ~hw_info.is_pluggable
    THEN IF hw_info.connector = "RJ45" THEN PmInfo("SFP_RJ45", "supported")
                                       ELSE PmInfo("UNKNOWN", "unrecognized")
    ELSE PmInfo(pm.connector, ParsedStatus(pm))

intfd_parse_pm_info(hw_info, pm) ==
    IF ~hw_info.is_pluggable
    THEN IF hw_info.connector = "RJ45" THEN PmInfo("SFP_RJ45", "supported")
                                       ELSE PmInfo("UNKNOWN", "unrecognized")
    ELSE PmInfo(IF pm.connector \in Connectors THEN pm.connector ELSE "UNKNOWN",
                ParsedStatus(pm))

(* A split child sees one lane of the module in its parent.                *)
LaneOf(pm) ==
    CASE pm.connector \in {"QSFP28_CWDM4", "QSFP28_PSM4", "QSFP28_CLR4", "QSFP28_LR4"} -> "SFP28_LR"
      [] pm.connector = "QSFP28_CR4" -> IF pm.is40G THEN "SFP_DAC" ELSE "SFP28_CR"
      [] pm.connector = "QSFP28_SR4" -> "SFP28_SR"
      [] pm.connector = "QSFP_CR4" -> "SFP_DAC"
      [] pm.connector = "QSFP_LR4" -> "SFP_LR"
      [] pm.connector = "QSFP_SR4" -> "SFP_SR"
      [] pm.connector = "ABSENT" -> "ABSENT"
      [] OTHER -> "UNKNOWN"

intfd_parse_split_pm_info(pm) ==
    PmInfo(LaneOf(pm), IF LaneOf(pm) = "UNKNOWN" THEN "unsupported" ELSE ParsedStatus(pm))

-----------------------------------------------------------------------------
(* User configuration.                                                     *)

(* Digits may spell more than an int holds: on a 64-bit build atoi is      *)
(* strtol narrowed to int.  Speeds are then kept in a uint32_t.            *)
atoi(n) == IF n < IntSpan THEN n ELSE ((n + IntSpan) % (2 * IntSpan)) - IntSpan
uint32(n) == IF n < 0 THEN n + 2 * IntSpan ELSE n

parse_speeds(tokens) ==
    IF \/ Len(tokens) > INTFD_MAX_SPEEDS_ALLOWED
       \/ \E k \in 1..Len(tokens) : tokens[k] = NotANumber
    THEN BadSpeeds ELSE [k \in 1..Len(tokens) |-> uint32(atoi(tokens[k]))]

(* Every user speed is one of the hardware's.                              *)
ParsedSpeeds(uc, hw) ==
    LET user == parse_speeds(uc.speeds)
        supported == parse_speeds(hw.speeds)
    IN IF \/ user \in {<<>>, BadSpeeds}
          \/ /\ supported # BadSpeeds
             /\ Len(user) <= Len(supported)
             /\ \A k \in 1..Len(user) : \E m \in 1..Len(supported) : user[k] = supported[m]
       THEN user ELSE BadSpeeds

ParsedMtu(uc, maxMtu) ==
    LET mtu == atoi(uc.mtu)
    IN IF uc.mtu = NoMtu THEN 0
       ELSE IF mtu \in INTFD_MIN_ALLOWED_USER_SPECIFIED_MTU..maxMtu THEN mtu ELSE BadMtu

(* uc is the user_config column, hw the hw_intf_info column, maxMtu the    *)
(* MTU of the base subsystem.                                              *)
intfd_parse_user_cfg(uc, hw, maxMtu) ==
    [admin_state |-> IF uc.admin = "up" THEN "up" ELSE "down",
     autoneg |-> IF uc.autoneg \in {"on", "off"} THEN uc.autoneg ELSE "default",
     pause |-> IF uc.pause \in {"rxtx", "tx", "rx"} THEN uc.pause ELSE "none",
     duplex |-> IF uc.duplex = "half" THEN "half" ELSE "full",
     speeds |-> ParsedSpeeds(uc, hw),
     mtu |-> ParsedMtu(uc, maxMtu),
     lane_split |-> IF uc.lane_split = "split" THEN "split" ELSE "no-split"]

intfd_parse_hw_info(hw) ==
    [is_pluggable |-> hw.pluggable, connector |-> hw.connector,
     speeds |-> parse_speeds(hw.speeds)]

-----------------------------------------------------------------------------
(* Operational state.  An iface intf has type, hw_info, user_cfg, pm_info, *)
(* port_admin and op_state; family is what calc reads through its split    *)
(* pointers: has_children, has_parent, parent_split.                       *)

VirtualTypes == {"internal", "vlansubint", "loopback"}

NoOpState ==    \* xzalloc
    [enabled |-> FALSE, reason |-> "uninitialized", autoneg_reason |-> "uninitialized",
     duplex |-> "full", pause |-> "none", autoneg_capability |-> "none",
     autoneg_state |-> "disabled", mtu |-> 0, speeds |-> <<>>]

(* Mutant of set_op_state_mtu: an invalid mtu is replaced, not reported.   *)
DefaultForBadMtu(intf) ==
    IF intf.user_cfg.mtu \in {BadMtu, 0} THEN INTFD_DEFAULT_MTU ELSE intf.user_cfg.mtu

set_op_state_mtu(intf) ==
    CASE intf.user_cfg.mtu = BadMtu -> BadMtu
      [] intf.user_cfg.mtu = 0 -> INTFD_DEFAULT_MTU
      [] OTHER -> intf.user_cfg.mtu

(* Capability and speed of a module: copper (CR) needs autonegotiation.    *)
ModuleAutoneg(pm_info) ==
    IF pm_info.connector \in {"SFP28_CR", "QSFP_CR4", "QSFP28_CR4"}
       \/ pm_info.op_connector_flags \in {"SFP", "UNSUPPORTED"}
    THEN "required" ELSE "unsupported"

ModuleSpeeds(pm_info) ==
    CASE pm_info.op_connector_flags = "SFP_PLUS" -> <<10000>>
      [] pm_info.op_connector_flags = "SFP28" -> <<25000>>
      [] pm_info.op_connector_flags = "SFP" -> <<1000>>
      [] pm_info.op_connector_flags = "QSFP_PLUS" -> <<40000>>
      [] pm_info.op_connector_flags = "QSFP28" -> <<100000>>
      [] OTHER -> <<>>

intfd_highest_speed(speeds) ==
    IF speeds \in {<<>>, BadSpeeds} THEN 0
    ELSE CHOOSE s \in {speeds[k] : k \in 1..Len(speeds)} :
            \A k \in 1..Len(speeds) : speeds[k] <= s

(* The user's autoneg and speeds against the capability cap: the resulting *)
(* state, reason and speeds; moduleSpeeds is what the module implies.      *)
AutonegOutcome(cfg, cap, moduleSpeeds, hwSpeeds) ==
    LET res(state, reason, speeds) ==
            [state |-> state, reason |-> reason, speeds |-> speeds]
        invalid(reason) == res("invalid", reason, moduleSpeeds)
        userFirst == IF cfg.speeds = <<>> THEN moduleSpeeds ELSE <<cfg.speeds[1]>>
        userAll == IF cfg.speeds = <<>> THEN moduleSpeeds ELSE cfg.speeds
    IN CASE cfg.autoneg = "on" /\ cap = "unsupported" -> invalid("autoneg_not_supported")
         [] cfg.autoneg = "on" /\ cap # "unsupported" -> res("enabled", "uninitialized", userAll)
         [] cfg.autoneg = "off" /\ cap = "required" -> invalid("autoneg_required")
         [] cfg.autoneg = "off" /\ cap # "required" ->
               IF cap = "optional" /\ cfg.speeds = <<>>
               THEN res("disabled", "uninitialized", <<intfd_highest_speed(hwSpeeds)>>)
               ELSE res("disabled", "uninitialized", userFirst)
         [] cfg.autoneg = "default" /\ cap = "unsupported" ->
               res("disabled", "uninitialized", userFirst)
         [] cfg.autoneg = "default" /\ cap # "unsupported" ->
               res("enabled", "uninitialized", userAll)

(* Mutant of validate_n_set_interface_capability: the speeds of the module *)
(* are only filled in where there are none.                                *)
ValidateFillsSpeedsOnce(intf, op) ==
    LET cap == ModuleAutoneg(intf.pm_info)
        out == AutonegOutcome(intf.user_cfg, cap, ModuleSpeeds(intf.pm_info),
                              intf.hw_info.speeds)
    IN IF intf.user_cfg.speeds = BadSpeeds THEN [op EXCEPT !.speeds = BadSpeeds]
       ELSE IF intf.user_cfg.mtu = BadMtu THEN op
       ELSE [op EXCEPT !.autoneg_capability = cap, !.autoneg_state = out.state,
                       !.autoneg_reason = out.reason,
                       !.speeds = IF intf.user_cfg.speeds = <<>> /\ op.speeds \notin {<<>>, BadSpeeds}
                                  THEN op.speeds ELSE out.speeds]

(* Invalid user input returns early and leaves the other fields as the     *)
(* previous call left them.                                                *)
validate_n_set_interface_capability(intf, op) ==
    LET cap == ModuleAutoneg(intf.pm_info)
        out == AutonegOutcome(intf.user_cfg, cap, ModuleSpeeds(intf.pm_info),
                              intf.hw_info.speeds)
    IN IF intf.user_cfg.speeds = BadSpeeds THEN [op EXCEPT !.speeds = BadSpeeds]
       ELSE IF intf.user_cfg.mtu = BadMtu THEN op
       ELSE [op EXCEPT !.autoneg_capability = cap, !.autoneg_state = out.state,
                       !.autoneg_reason = out.reason, !.speeds = out.speeds]

(* The first reason there is to keep the interface down.                   *)
ReasonOf(intf, op, family) ==
    IF intf.type \in VirtualTypes
    THEN CASE intf.user_cfg.admin_state = "down" -> "admin_down"
           [] intf.user_cfg.admin_state # "down" /\ intf.port_admin = "down" -> "port_admin_down"
           [] OTHER -> "ok"
    ELSE IF family.has_children /\ intf.user_cfg.lane_split = "split" THEN "lanes_split"
    ELSE IF family.has_parent /\ family.parent_split = "no-split" THEN "lanes_not_split"
    ELSE IF intf.user_cfg.admin_state = "down" THEN "admin_down"
    ELSE IF intf.pm_info.connector = "ABSENT" THEN "module_missing"
    ELSE IF intf.pm_info.connector_status = "unrecognized" THEN "module_unrecognized"
    ELSE IF \/ intf.pm_info.connector_status = "unsupported"
            \/ intf.pm_info.op_connector_flags = "UNSUPPORTED" THEN "module_unsupported"
    ELSE IF op.mtu = BadMtu THEN "invalid_mtu"
    ELSE IF op.speeds = BadSpeeds THEN "invalid_speeds"
    ELSE IF op.autoneg_state = "invalid" THEN op.autoneg_reason
    ELSE IF intf.port_admin = "down" THEN "port_admin_down"
    ELSE "ok"

calc_intf_op_state_n_reason(intf, op, family) ==
    LET reason == ReasonOf(intf, op, family)
    IN [op EXCEPT !.enabled = (reason = "ok"), !.reason = reason]

(* The strings of the columns, named like the enumeration (UNKNOWN is the   *)
(* string "unknown"): each reason has one, three interface types have not. *)
Reason ==
    {"uninitialized", "admin_down", "module_missing", "module_unrecognized",
     "module_unsupported", "lanes_split", "lanes_not_split", "invalid_mtu",
     "invalid_speeds", "autoneg_not_supported", "autoneg_required",
     "port_admin_down", "ok"}

intfd_get_error_str(reason) == IF reason \in Reason THEN reason ELSE "???"

intfd_get_intf_type_str(intf_type) ==
    IF intf_type \in {"QSFP28_CLR4", "QSFP28_PSM4", "QSFP28_CWDM4"} THEN "UNKNOWN"
    ELSE intf_type

(* The columns.  Only an enabled interface gets the keys after "enable";   *)
(* the test of the type at line 1516 is true of every type.                *)
DisabledConfig ==
    [enable |-> "false", autoneg |-> "absent", duplex |-> "absent", pause |-> "absent",
     mtu |-> 0, speeds |-> <<>>, interface_type |-> "absent"]

set_intf_hw_config_in_db(intf, op) ==
    [error |-> IF op.enabled THEN "none" ELSE intfd_get_error_str(op.reason),
     hw_intf_config |->
        IF ~op.enabled THEN DisabledConfig
        ELSE [enable |-> "true",
              autoneg |-> IF op.autoneg_state = "enabled" THEN "on" ELSE "off",
              duplex |-> op.duplex,
              pause |-> op.pause,
              mtu |-> IF op.mtu >= INTFD_MIN_ALLOWED_USER_SPECIFIED_MTU THEN op.mtu ELSE 0,
              speeds |-> IF op.speeds = BadSpeeds THEN <<>> ELSE op.speeds,
              interface_type |-> intfd_get_intf_type_str(intf.pm_info.intf_type)]]

NewOpState(intf, family) ==
    LET op1 == [intf.op_state EXCEPT !.mtu = set_op_state_mtu(intf)]
        op2 == validate_n_set_interface_capability(intf, op1)
        op3 == calc_intf_op_state_n_reason(intf, op2, family)
    IN IF op3.enabled
       THEN [op3 EXCEPT !.pause = intf.user_cfg.pause, !.duplex = intf.user_cfg.duplex]
       ELSE op3

(* The iface and the columns after the call.                               *)
set_interface_config(intf, family) ==
    LET op == NewOpState(intf, family)
    IN [intf |-> [intf EXCEPT !.op_state = op],
        out |-> set_intf_hw_config_in_db(intf, op)]
=============================================================================
