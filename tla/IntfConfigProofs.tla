-------------------------- MODULE IntfConfigProofs --------------------------
(***************************************************************************)
(* Proofs about IntfConfig: whatever the history of an interface, the      *)
(* columns intfd writes are those its present row asks for, for any kinds  *)
(* of interface, modules and values of user_config.                        *)
(***************************************************************************)
EXTENDS IntfConfig, IntfOpStateProofs

Role == Family(kind, parentSplit)

(* The row, with its columns.                                              *)
RowInv ==
    /\ kind \in Kinds /\ pm \in PmInfos
    /\ portAdmin \in {"up", "down"} /\ parentSplit \in {"split", "no-split"}
    /\ uc = [admin |-> uc.admin, autoneg |-> uc.autoneg, pause |-> uc.pause,
             duplex |-> uc.duplex, mtu |-> uc.mtu, speeds |-> uc.speeds,
             lane_split |-> uc.lane_split]
    /\ uc.mtu \in Int /\ uc.speeds \in Seq(Nat \cup {NotANumber})

(* op_state is what some earlier calls left behind.                        *)
OpTyped(o) ==
    /\ o.autoneg_capability \in {"none", "required", "optional", "unsupported"}
    /\ o.autoneg_state \in {"invalid", "disabled", "enabled"}
    /\ o.enabled \in BOOLEAN

(* The iface holds what the row says; the columns were computed from it.   *)
IfaceInv ==
    /\ IsIface(intf) /\ OpTyped(intf.op_state)
    /\ intf.type = kind.type /\ intf.hw_info = intfd_parse_hw_info(kind.hw)
    /\ intf.user_cfg = intfd_parse_user_cfg(uc, kind.hw, MaxMtu)
    /\ intf.pm_info = Module /\ intf.port_admin = portAdmin
    /\ Computed(out, intf, Role)

-----------------------------------------------------------------------------
(* What a call leaves in op_state.                                         *)

LEMMA OutcomeState ==
    ASSUME NEW x, IsUserCfg(x.user_cfg)
    PROVE  Outcome(x).state \in {"invalid", "disabled", "enabled"}
<1>1. PICK c, cap, ms, h : /\ c = x.user_cfg /\ cap = ModuleAutoneg(x.pm_info)
                           /\ ms = ModuleSpeeds(x.pm_info) /\ h = x.hw_info.speeds
  OBVIOUS
<1>2. c.autoneg \in {"on", "off", "default"}
  BY <1>1 DEF IsUserCfg
<1>3. AutonegOutcome(c, cap, ms, h).state \in {"invalid", "disabled", "enabled"}
  BY <1>2 DEF AutonegOutcome
<1> QED BY <1>1, <1>3 DEF Outcome

LEMMA OpStateTyped ==
    ASSUME NEW x, NEW f, IsIface(x), OpTyped(x.op_state), NEW n, n = NewOpState(x, f)
    PROVE  OpTyped(n)
<1>1. PICK o1 : o1 = [x.op_state EXCEPT !.mtu = set_op_state_mtu(x)]
  OBVIOUS
<1>2. IsOpState(o1) /\ OpTyped(o1)
  BY <1>1 DEF IsIface, IsOpState, OpTyped
<1>3. PICK o2 : o2 = validate_n_set_interface_capability(x, o1)
  OBVIOUS
<1>4. PICK cap, s, r, v : /\ cap = ModuleAutoneg(x.pm_info) /\ s = Outcome(x).state
                          /\ r = Outcome(x).reason /\ v = Outcome(x).speeds
  OBVIOUS
<1>5. \/ o2 = [o1 EXCEPT !.speeds = BadSpeeds]
      \/ o2 = o1
      \/ o2 = [o1 EXCEPT !.autoneg_capability = cap, !.autoneg_state = s,
                         !.autoneg_reason = r, !.speeds = v]
  BY <1>3, <1>4, Zenon DEF validate_n_set_interface_capability, Outcome
<1>6. cap \in {"required", "unsupported"} /\ s \in {"invalid", "disabled", "enabled"}
  BY <1>4, OutcomeState DEF IsIface, ModuleAutoneg
<1>7. OpTyped(o2)
  BY <1>2, <1>5, <1>6 DEF IsOpState, OpTyped
<1>8. IsOpState(o2)
  BY <1>2, <1>3, ValidateIs DEF IsIface
<1>9. PICK o3 : o3 = calc_intf_op_state_n_reason(x, o2, f)
  OBVIOUS
<1>10. PICK e, why : o3 = [o2 EXCEPT !.enabled = e, !.reason = why] /\ e \in BOOLEAN
  <2>1. (ReasonOf(x, o2, f) = "ok") \in BOOLEAN
    OBVIOUS
  <2> QED BY <1>9, <2>1, Zenon DEF calc_intf_op_state_n_reason
<1>11. OpTyped(o3) /\ IsOpState(o3)
  BY <1>7, <1>8, <1>9, <1>10, CalcIs DEF IsOpState, OpTyped
<1>12. n = IF o3.enabled
           THEN [o3 EXCEPT !.pause = x.user_cfg.pause, !.duplex = x.user_cfg.duplex]
           ELSE o3
  BY <1>1, <1>3, <1>9, Zenon DEF NewOpState
<1> QED BY <1>11, <1>12 DEF IsOpState, OpTyped

-----------------------------------------------------------------------------
(* The invariant.                                                          *)

(* What a call makes of an iface.                                          *)
LEMMA Handled ==
    ASSUME NEW x, NEW f, IsIface(x), OpTyped(x.op_state),
           NEW r, r = set_interface_config(x, f)
    PROVE  /\ IsIface(r.intf) /\ OpTyped(r.intf.op_state) /\ SameConfig(r.intf, x)
           /\ Computed(r.out, r.intf, f)
<1>1. IsIface(r.intf) /\ SameConfig(r.intf, x)
  BY SetInterfaceConfigKeeps
<1>2. PICK n : n = NewOpState(x, f)
  OBVIOUS
<1>3. OpTyped(n)
  BY <1>2, OpStateTyped
<1>4. r.intf.op_state = n
  <2>1. r.intf = [x EXCEPT !.op_state = n]
    BY <1>2, Zenon DEF set_interface_config
  <2> QED BY <2>1 DEF IsIface
<1> QED BY <1>1, <1>3, <1>4 DEF Computed, SameConfig

LEMMA ConfigInit == Init => RowInv /\ IfaceInv
<1> SUFFICES ASSUME Init PROVE RowInv /\ IfaceInv
  OBVIOUS
<1>1. RowInv
  BY DEF Init, RowInv, NoUserConfig, NoMtu
<1>2. PICK x : x = NewIface(kind, pm)
  OBVIOUS
<1>3. /\ IsIface(x) /\ OpTyped(x.op_state)
      /\ x.type = kind.type /\ x.hw_info = intfd_parse_hw_info(kind.hw)
      /\ x.user_cfg = intfd_parse_user_cfg(uc, kind.hw, MaxMtu)
      /\ x.pm_info = Module /\ x.port_admin = portAdmin
  <2>1. PICK u : u = intfd_parse_user_cfg(NoUserConfig, kind.hw, MaxMtu)
    OBVIOUS
  <2>2. IsUserCfg(u)
    BY <2>1, UserCfgIs
  <2>3. IsOpState(NoOpState) /\ OpTyped(NoOpState)
    BY DEF NoOpState, IsOpState, OpTyped
  <2>4. PICK h, p, o : h = intfd_parse_hw_info(kind.hw) /\ p = ParsedPm(kind, pm) /\ o = NoOpState
    OBVIOUS
  <2>5. x = [type |-> kind.type, hw_info |-> h, user_cfg |-> u, pm_info |-> p,
             port_admin |-> "down", op_state |-> o]
    BY <1>2, <2>1, <2>4, Zenon DEF NewIface
  <2> QED BY <2>1, <2>2, <2>3, <2>4, <2>5 DEF IsIface, Init, Module
<1>4. PICK r : r = set_interface_config(x, Role)
  OBVIOUS
<1>5. intf = r.intf /\ out = r.out
  BY <1>2, <1>4, Zenon DEF Init, Role
<1>6. /\ IsIface(intf) /\ OpTyped(intf.op_state) /\ SameConfig(intf, x)
      /\ Computed(out, intf, Role)
  BY <1>3, <1>4, <1>5, Handled
<1> QED BY <1>1, <1>3, <1>6 DEF IfaceInv, SameConfig

LEMMA ConfigStep == RowInv /\ IfaceInv /\ [Next]_vars => RowInv' /\ IfaceInv'
<1> SUFFICES ASSUME RowInv, IfaceInv, [Next]_vars PROVE RowInv' /\ IfaceInv'
  OBVIOUS
<1>1. CASE UNCHANGED vars
  BY <1>1 DEF vars, RowInv, IfaceInv, Role, Module
<1>2. CASE Next
  <2>1. Reconfigure /\ kind' = kind
    BY <1>2 DEF Next, UserConfigChange, PmInfoChange, PortAdminChange, ParentSplitChange, Reconfigure
  <2>2. RowInv'
    <3>1. CASE UserConfigChange
      <4>1. UNCHANGED <<pm, portAdmin, parentSplit>>
        BY <3>1 DEF UserConfigChange
      <4>2. \/ \E v : uc' = [uc EXCEPT !.admin = v]
            \/ \E v : uc' = [uc EXCEPT !.autoneg = v]
            \/ \E p, d : uc' = [uc EXCEPT !.pause = p, !.duplex = d]
            \/ \E v \in SpeedLists : uc' = [uc EXCEPT !.speeds = v]
            \/ \E v \in Mtus : uc' = [uc EXCEPT !.mtu = v]
            \/ \E v : uc' = [uc EXCEPT !.lane_split = v]
        BY <3>1 DEF UserConfigChange
      <4> QED BY <2>1, <4>1, <4>2, ConfigAssumption DEF RowInv
    <3>2. CASE ~UserConfigChange
      BY <1>2, <2>1, <3>2 DEF Next, PmInfoChange, PortAdminChange, ParentSplitChange, RowInv
    <3> QED BY <3>1, <3>2
  <2>3. PICK u, p, a : /\ u = intfd_parse_user_cfg(uc', kind.hw, MaxMtu)
                       /\ p = ParsedPm(kind, pm') /\ a = portAdmin'
    OBVIOUS
  <2>4. PICK x : x = [intf EXCEPT !.user_cfg = u, !.pm_info = p, !.port_admin = a]
    OBVIOUS
  <2>5. PICK r : r = set_interface_config(x, Role') /\ intf' = r.intf /\ out' = r.out
    BY <2>1, <2>3, <2>4, Zenon DEF Reconfigure, Role
  <2>6. IsUserCfg(u) /\ a \in {"up", "down"}
    BY <2>2, <2>3, UserCfgIs DEF RowInv
  <2>7. /\ IsIface(x) /\ OpTyped(x.op_state) /\ x.type = kind.type
        /\ x.hw_info = intfd_parse_hw_info(kind.hw)
        /\ x.user_cfg = u /\ x.pm_info = p /\ x.port_admin = a
    BY <2>4, <2>6 DEF IfaceInv, IsIface
  <2>8. /\ IsIface(intf') /\ OpTyped(intf'.op_state) /\ SameConfig(intf', x)
        /\ Computed(out', intf', Role')
    BY <2>5, <2>7, Handled
  <2>9. p = Module'
    BY <2>1, <2>3 DEF Module
  <2>10. IfaceInv'
    BY <2>1, <2>3, <2>7, <2>8, <2>9 DEF IfaceInv, SameConfig
  <2> QED BY <2>2, <2>10
<1> QED BY <1>1, <1>2

LEMMA ConfigInvariant == Spec => [](RowInv /\ IfaceInv)
  BY ConfigInit, ConfigStep, PTL DEF Spec

-----------------------------------------------------------------------------
(* Types.                                                                  *)

LEMMA ModuleIs ==
    Module.connector \in Connectors /\ Module.op_connector_flags = get_connector_flags(Module.connector)
    /\ Module.intf_type = get_connector_if_type(Module.connector)
<1>1. \E c, s : c \in Connectors /\ Module = PmInfo(c, s)
  <2>1. LaneOf(pm) \in Connectors
    BY DEF LaneOf, Connectors
  <2>2. {"UNKNOWN", "SFP_RJ45"} \subseteq Connectors
    BY DEF Connectors
  <2> QED BY <2>1, <2>2, Zenon DEF Module, ParsedPm, intfd_parse_split_pm_info, intfd_parse_pm_info
<1> QED BY <1>1 DEF PmInfo

(* Whatever connector and status pmd writes, and whichever user values are *)
(* refused half way, iface keeps values of the enumerations of intfd.h.    *)
THEOREM ConfigTypes == Spec => []TypeOK
<1>1. RowInv /\ IfaceInv => TypeOK
  BY ModuleIs DEF RowInv, IfaceInv, OpTyped, TypeOK, Families, get_connector_flags
<1> QED BY <1>1, ConfigInvariant, PTL

-----------------------------------------------------------------------------
(* What the user's values come to.                                         *)

(* A speed the platform gives is kept as it is.                            *)
LEMMA IntKept == ASSUME NEW n \in 0..(IntSpan - 1) PROVE uint32(atoi(n)) = n
BY IntAssumption DEF uint32, atoi

LEMMA SpeedsParsed ==
    ASSUME RowInv, NEW s, s = ParsedSpeeds(uc, kind.hw)
    PROVE  /\ s = BadSpeeds <=> ~SpeedsSupported
           /\ SpeedsSupported => /\ s = UserSpeeds /\ (s # <<>> => s[1] # -1)
                                 /\ s = <<>> <=> uc.speeds = <<>>
<1>1. PICK u, h, v : u = uc.speeds /\ h = kind.hw.speeds /\ v = UserSpeeds
  OBVIOUS
<1>2. /\ u \in Seq(Nat \cup {NotANumber}) /\ h \in Seq(0..(IntSpan - 1))
      /\ Len(h) \in 1..10 /\ NotANumber = -1 /\ BadSpeeds = <<-1>>
  BY <1>1, ConfigAssumption DEF RowInv, NotANumber, BadSpeeds, INTFD_MAX_SPEEDS_ALLOWED
<1>3. Len(u) \in Nat /\ Len(h) \in Nat /\ Len(h) >= 1 /\ Len(h) <= 10
  <2>1. PICK n : n = Len(h)
    OBVIOUS
  <2>2. n \in 1..10
    BY <1>2, <2>1
  <2>3. n \in Nat /\ n >= 1 /\ n <= 10
    BY <2>2
  <2>4. Len(u) \in Nat
    <3>1. u \in Seq(Nat \cup {NotANumber})
      BY <1>2
    <3> QED BY <3>1
  <2> QED BY <2>1, <2>3, <2>4
<1>4. v = [k \in 1..Len(u) |-> uint32(atoi(u[k]))]
  BY <1>1 DEF UserSpeeds
<1>5. /\ Len(v) = Len(u) /\ DOMAIN v = 1..Len(u)
      /\ v = <<>> <=> u = <<>>
  BY <1>2, <1>3, <1>4
<1>6. \A k \in 1..Len(h) : h[k] \in 0..(IntSpan - 1)
  <2>1. PICK S : S = 0..(IntSpan - 1)
    OBVIOUS
  <2>2. h \in Seq(S)
    BY <1>2, <2>1
  <2>3. \A k \in 1..Len(h) : h[k] \in S
    BY <2>2
  <2> QED BY <2>1, <2>3
<1>7. parse_speeds(h) = h /\ h # BadSpeeds
  <2>1. \A k \in 1..Len(h) : h[k] # -1 /\ uint32(atoi(h[k])) = h[k]
    BY <1>6, IntKept
  <2>2. parse_speeds(h) = [k \in 1..Len(h) |-> uint32(atoi(h[k]))]
    <3>1. ~(Len(h) > 10)
      BY <1>3
    <3>2. ~\E k \in 1..Len(h) : h[k] = NotANumber
      BY <1>2, <2>1
    <3> QED BY <3>1, <3>2, Zenon DEF parse_speeds, INTFD_MAX_SPEEDS_ALLOWED
  <2>3. parse_speeds(h) = h
    <3>1. PICK g : g = parse_speeds(h)
      OBVIOUS
    <3>2. g = [k \in 1..Len(h) |-> h[k]]
      BY <2>1, <2>2, <3>1
    <3>3. h = [k \in 1..Len(h) |-> h[k]]
      BY <1>2
    <3> QED BY <2>1, <3>1, <3>2, <3>3
  <2>4. h # <<-1>>
    <3>1. CASE h = <<-1>>
      BY <2>1, <3>1
    <3> QED BY <3>1
  <2> QED BY <1>2, <2>3, <2>4
<1>8. SpeedsSupported <=>
        /\ Len(u) <= Len(h)
        /\ \A k \in 1..Len(u) : u[k] # NotANumber /\ \E m \in 1..Len(h) : v[k] = h[m]
  BY <1>1 DEF SpeedsSupported
<1>9. SpeedsSupported => parse_speeds(u) = v /\ v # BadSpeeds
  <2> SUFFICES ASSUME SpeedsSupported PROVE parse_speeds(u) = v /\ v # <<-1>>
    BY <1>2
  <2>1. parse_speeds(u) = v
    <3>1. ~(Len(u) > 10)
      BY <1>3, <1>8
    <3>2. ~\E k \in 1..Len(u) : u[k] = NotANumber
      BY <1>8
    <3> QED BY <1>4, <3>1, <3>2, Zenon DEF parse_speeds, INTFD_MAX_SPEEDS_ALLOWED
  <2>2. v # <<-1>>
    <3>1. CASE v = <<-1>>
      <4>1. \A k \in 1..Len(u) : v[k] # -1
        BY <1>6, <1>8
      <4> QED BY <1>5, <3>1, <4>1
    <3> QED BY <3>1
  <2> QED BY <2>1, <2>2
<1>10. u = <<>> => SpeedsSupported
  BY <1>2, <1>3, <1>8
<1>11. ~SpeedsSupported => s = BadSpeeds
  <2> SUFFICES ASSUME ~SpeedsSupported PROVE s = BadSpeeds
    OBVIOUS
  <2>1. CASE parse_speeds(u) = BadSpeeds
    BY <1>1, <1>7, <2>1 DEF ParsedSpeeds
  <2>2. CASE parse_speeds(u) # BadSpeeds
    <3>1. ~\E k \in 1..Len(u) : u[k] = NotANumber
      BY <2>2, Zenon DEF parse_speeds
    <3>2. parse_speeds(u) = v
      BY <1>4, <2>2, Zenon DEF parse_speeds
    <3>3. ~(Len(v) <= Len(h) /\ \A k \in 1..Len(v) : \E m \in 1..Len(h) : v[k] = h[m])
      BY <1>5, <1>8, <3>1
    <3>4. v # <<>>
      BY <1>5, <1>10
    <3> QED BY <1>1, <1>7, <2>2, <3>2, <3>3, <3>4 DEF ParsedSpeeds
  <2> QED BY <2>1, <2>2
<1>12. SpeedsSupported => s = v
  <2> SUFFICES ASSUME SpeedsSupported PROVE s = v
    OBVIOUS
  <2>1. Len(v) <= Len(h) /\ \A k \in 1..Len(v) : \E m \in 1..Len(h) : v[k] = h[m]
    BY <1>5, <1>8
  <2> QED BY <1>1, <1>7, <1>9, <2>1 DEF ParsedSpeeds
<1>13. SpeedsSupported /\ v # <<>> => v[1] # -1
  <2> SUFFICES ASSUME SpeedsSupported, v # <<>> PROVE v[1] # -1
    OBVIOUS
  <2>1. 1 \in 1..Len(u)
    BY <1>2, <1>3, <1>5
  <2> QED BY <1>6, <1>8, <2>1
<1> QED BY <1>1, <1>5, <1>9, <1>11, <1>12, <1>13

LEMMA MtuParsed ==
    ASSUME RowInv, NEW m, m = ParsedMtu(uc, MaxMtu)
    PROVE  /\ m = BadMtu <=> uc.mtu # NoMtu /\ atoi(uc.mtu) \notin 576..MaxMtu
           /\ m # BadMtu => m = IF uc.mtu = NoMtu THEN 0 ELSE atoi(uc.mtu)
           /\ m # BadMtu /\ m # 0 => m >= 576
           /\ m \in Int
<1>1. PICK a : a = atoi(uc.mtu)
  OBVIOUS
<1>2. m = IF uc.mtu = NoMtu THEN 0 ELSE IF a \in 576..MaxMtu THEN a ELSE BadMtu
  BY <1>1 DEF ParsedMtu, INTFD_MIN_ALLOWED_USER_SPECIFIED_MTU
<1> QED BY <1>1, <1>2, ConfigAssumption DEF BadMtu

(* The iface, in terms of the row.                                         *)
LEMMA ConfigParsed ==
    ASSUME RowInv, IfaceInv, NEW u, u = intf.user_cfg
    PROVE  /\ u.admin_state = IF uc.admin = "up" THEN "up" ELSE "down"
           /\ u.autoneg = IF uc.autoneg \in {"on", "off"} THEN uc.autoneg ELSE "default"
           /\ u.pause = IF uc.pause \in {"rxtx", "tx", "rx"} THEN uc.pause ELSE "none"
           /\ u.duplex = IF uc.duplex = "half" THEN "half" ELSE "full"
           /\ u.speeds = ParsedSpeeds(uc, kind.hw) /\ u.mtu = ParsedMtu(uc, MaxMtu)
           /\ u.lane_split = IF uc.lane_split = "split" THEN "split" ELSE "no-split"
BY DEF IfaceInv, intfd_parse_user_cfg

(* Autonegotiation against the module.                                     *)
LEMMA AutonegIs ==
    ASSUME RowInv, IfaceInv, get_connector_flags(Module.connector) # "UNSUPPORTED",
           NEW o, o = Outcome(intf)
    PROVE  /\ NeedsAutoneg => ModuleAutoneg(intf.pm_info) = "required"
           /\ ~NeedsAutoneg => ModuleAutoneg(intf.pm_info) = "unsupported"
           /\ uc.autoneg = "off" /\ NeedsAutoneg <=>
                 o.state = "invalid" /\ o.reason = "autoneg_required"
           /\ uc.autoneg = "on" /\ ~NeedsAutoneg <=>
                 o.state = "invalid" /\ o.reason = "autoneg_not_supported"
           /\ o.state = "invalid" => o.reason \in {"autoneg_required", "autoneg_not_supported"}
           /\ o.state # "invalid" =>
                 /\ o.state = IF NeedsAutoneg THEN "enabled" ELSE "disabled"
                 /\ o.speeds = IF intf.user_cfg.speeds = <<>> THEN ModuleSpeeds(intf.pm_info)
                               ELSE IF NeedsAutoneg THEN intf.user_cfg.speeds
                               ELSE <<intf.user_cfg.speeds[1]>>
<1>1. PICK c, cap, ms, h : /\ c = intf.user_cfg /\ cap = ModuleAutoneg(intf.pm_info)
                           /\ ms = ModuleSpeeds(intf.pm_info) /\ h = intf.hw_info.speeds
  OBVIOUS
<1>2. o = AutonegOutcome(c, cap, ms, h)
  BY <1>1 DEF Outcome
<1>3. /\ c.autoneg = IF uc.autoneg \in {"on", "off"} THEN uc.autoneg ELSE "default"
  BY <1>1, ConfigParsed
<1>4. cap = IF NeedsAutoneg THEN "required" ELSE "unsupported"
  BY <1>1, ModuleIs DEF IfaceInv, ModuleAutoneg, NeedsAutoneg
<1>5. CASE c.autoneg = "on"
  BY <1>1, <1>2, <1>3, <1>4, <1>5 DEF AutonegOutcome
<1>6. CASE c.autoneg = "off"
  BY <1>1, <1>2, <1>3, <1>4, <1>6 DEF AutonegOutcome
<1>7. CASE c.autoneg = "default"
  <2>1. CASE NeedsAutoneg
    BY <1>1, <1>2, <1>3, <1>4, <1>7, <2>1 DEF AutonegOutcome
  <2>2. CASE ~NeedsAutoneg
    BY <1>1, <1>2, <1>3, <1>4, <1>7, <2>2 DEF AutonegOutcome
  <2> QED BY <2>1, <2>2
<1> QED BY <1>3, <1>5, <1>6, <1>7

-----------------------------------------------------------------------------
(* The reason.                                                             *)

Applying == {k \in 1..Len(Reasons) : Concerns(Reasons[k]) /\ Applies(Reasons[k])}

(* The reasons by their place in the list; a virtual interface has two.    *)
LEMMA ApplyingIs ==
    /\ Applying \subseteq 1..11
    /\ kind.type \in VirtualTypes => Applying \subseteq {3, 11}
    /\ kind.type \notin VirtualTypes =>
          /\ 1 \in Applying <=> kind.role = "parent" /\ uc.lane_split = "split"
          /\ 2 \in Applying <=> kind.role = "child" /\ parentSplit = "no-split"
          /\ 4 \in Applying <=> Module.connector = "ABSENT"
          /\ 5 \in Applying <=> Module.connector_status = "unrecognized"
          /\ 6 \in Applying <=> \/ Module.connector_status = "unsupported"
                                \/ Module.connector \in {"UNKNOWN", "SFP_LX", "SFP_CX", "SFP_FC"}
          /\ 7 \in Applying <=> uc.mtu # NoMtu /\ atoi(uc.mtu) \notin 576..MaxMtu
          /\ 8 \in Applying <=> ~SpeedsSupported
          /\ 9 \in Applying <=> uc.autoneg = "off" /\ NeedsAutoneg
          /\ 10 \in Applying <=> uc.autoneg = "on" /\ ~NeedsAutoneg
    /\ 3 \in Applying <=> uc.admin # "up"
    /\ 11 \in Applying <=> portAdmin = "down"
<1>1. /\ Len(Reasons) = 11
      /\ Reasons[1] = "lanes_split" /\ Reasons[2] = "lanes_not_split"
      /\ Reasons[3] = "admin_down" /\ Reasons[4] = "module_missing"
      /\ Reasons[5] = "module_unrecognized" /\ Reasons[6] = "module_unsupported"
      /\ Reasons[7] = "invalid_mtu" /\ Reasons[8] = "invalid_speeds"
      /\ Reasons[9] = "autoneg_required" /\ Reasons[10] = "autoneg_not_supported"
      /\ Reasons[11] = "port_admin_down"
  BY DEF Reasons
<1>2. \A k : k \in Applying <=> k \in 1..11 /\ Concerns(Reasons[k]) /\ Applies(Reasons[k])
  BY <1>1 DEF Applying
<1>3. /\ Applies("lanes_split") <=> kind.role = "parent" /\ uc.lane_split = "split"
      /\ Applies("lanes_not_split") <=> kind.role = "child" /\ parentSplit = "no-split"
      /\ Applies("admin_down") <=> uc.admin # "up"
      /\ Applies("module_missing") <=> Module.connector = "ABSENT"
      /\ Applies("module_unrecognized") <=> Module.connector_status = "unrecognized"
      /\ Applies("module_unsupported") <=>
            \/ Module.connector_status = "unsupported"
            \/ Module.connector \in {"UNKNOWN", "SFP_LX", "SFP_CX", "SFP_FC"}
  BY DEF Applies
<1>4. /\ Applies("invalid_mtu") <=> uc.mtu # NoMtu /\ atoi(uc.mtu) \notin 576..MaxMtu
      /\ Applies("invalid_speeds") <=> ~SpeedsSupported
      /\ Applies("autoneg_required") <=> uc.autoneg = "off" /\ NeedsAutoneg
      /\ Applies("autoneg_not_supported") <=> uc.autoneg = "on" /\ ~NeedsAutoneg
      /\ Applies("port_admin_down") <=> portAdmin = "down"
  BY DEF Applies
<1>5. CASE kind.type \in VirtualTypes
  <2>1. \A k \in 1..11 : Concerns(Reasons[k]) <=> k \in {3, 11}
    BY <1>1, <1>5 DEF Concerns
  <2> QED BY <1>1, <1>2, <1>3, <1>4, <1>5, <2>1
<1>6. CASE kind.type \notin VirtualTypes
  <2>1. \A k \in 1..11 : Concerns(Reasons[k])
    BY <1>6 DEF Concerns
  <2> QED BY <1>1, <1>2, <1>3, <1>4, <1>6, <2>1
<1> QED BY <1>5, <1>6

(* The op_state a call leaves, with the op_state op its reason is read     *)
(* from; x is the iface before the call.                                   *)
CallInv(x, op, n) ==
    /\ IsIface(x) /\ SameConfig(x, intf) /\ out = set_intf_hw_config_in_db(x, n)
    /\ op.mtu = set_op_state_mtu(x)
    /\ x.user_cfg.speeds = BadSpeeds => op.speeds = BadSpeeds
    /\ x.user_cfg.speeds # BadSpeeds /\ x.user_cfg.mtu # BadMtu =>
          /\ op.autoneg_state = Outcome(intf).state
          /\ op.autoneg_reason = Outcome(intf).reason
          /\ op.speeds = Outcome(intf).speeds
    /\ n.mtu = op.mtu /\ n.speeds = op.speeds
    /\ n.autoneg_state = op.autoneg_state
    /\ n.enabled = (ReasonOf(x, op, Role) = "ok")
    /\ n.reason = ReasonOf(x, op, Role)
    /\ n.enabled => n.pause = x.user_cfg.pause /\ n.duplex = x.user_cfg.duplex

LEMMA LastCall == ASSUME IfaceInv PROVE \E x, op, n : CallInv(x, op, n)
<1>1. PICK x : /\ IsIface(x) /\ SameConfig(x, intf)
               /\ out = set_interface_config(x, Role).out
  BY DEF IfaceInv, Computed
<1>2. PICK n : n = NewOpState(x, Role)
  OBVIOUS
<1>3. out = set_intf_hw_config_in_db(x, n)
  BY <1>1, <1>2 DEF set_interface_config
<1>4. Outcome(x) = Outcome(intf)
  BY <1>1, Zenon DEF Outcome, SameConfig
<1>5. n.enabled => n.pause = x.user_cfg.pause /\ n.duplex = x.user_cfg.duplex
  BY <1>1, <1>2, NewOpStateIs
<1>6. PICK op :
                 /\ op.mtu = set_op_state_mtu(x)
                 /\ x.user_cfg.speeds = BadSpeeds => op.speeds = BadSpeeds
                 /\ x.user_cfg.speeds # BadSpeeds /\ x.user_cfg.mtu # BadMtu =>
                       /\ op.autoneg_state = Outcome(x).state
                       /\ op.autoneg_reason = Outcome(x).reason
                       /\ op.speeds = Outcome(x).speeds
                 /\ n.mtu = op.mtu /\ n.speeds = op.speeds
                 /\ n.autoneg_state = op.autoneg_state
                 /\ n.enabled = (ReasonOf(x, op, Role) = "ok")
                 /\ n.reason = ReasonOf(x, op, Role)
  BY <1>1, <1>2, NewOpStateIs
<1>7. CallInv(x, op, n)
  BY <1>1, <1>3, <1>4, <1>5, <1>6 DEF CallInv
<1> QED BY <1>7

(* The mtu and speeds the reason is read from are bad if the row's are.    *)
LEMMA ValuesOf ==
    ASSUME RowInv, IfaceInv, NEW x, NEW op, NEW n, CallInv(x, op, n)
    PROVE  /\ op.mtu = BadMtu <=> uc.mtu # NoMtu /\ atoi(uc.mtu) \notin 576..MaxMtu
           /\ op.mtu # BadMtu => op.mtu = IF uc.mtu = NoMtu THEN 1500 ELSE atoi(uc.mtu)
           /\ op.mtu # BadMtu => op.mtu >= 576
           /\ op.mtu # BadMtu => x.user_cfg.mtu # BadMtu
           /\ ~SpeedsSupported => op.speeds = BadSpeeds
           /\ SpeedsSupported => /\ x.user_cfg.speeds # BadSpeeds /\ x.user_cfg.speeds = UserSpeeds
                                 /\ x.user_cfg.speeds = <<>> <=> uc.speeds = <<>>
<1>1. PICK m, s : /\ m = ParsedMtu(uc, MaxMtu) /\ s = ParsedSpeeds(uc, kind.hw)
                  /\ x.user_cfg.mtu = m /\ x.user_cfg.speeds = s
  BY ConfigParsed DEF CallInv, SameConfig
<1>2. op.mtu = CASE m = BadMtu -> BadMtu [] m = 0 -> 1500 [] OTHER -> m
  BY <1>1 DEF CallInv, set_op_state_mtu, INTFD_DEFAULT_MTU
<1>3. /\ m = BadMtu <=> uc.mtu # NoMtu /\ atoi(uc.mtu) \notin 576..MaxMtu
      /\ m # BadMtu => m = IF uc.mtu = NoMtu THEN 0 ELSE atoi(uc.mtu)
      /\ m # BadMtu /\ m # 0 => m >= 576
      /\ m \in Int
  BY <1>1, MtuParsed
<1>4. BadMtu = -1 /\ 1500 >= 576
  BY DEF BadMtu
<1>5. /\ op.mtu = BadMtu <=> m = BadMtu
      /\ op.mtu # BadMtu => op.mtu = IF m = 0 THEN 1500 ELSE m
  BY <1>2, <1>4
<1>6. uc.mtu # NoMtu /\ atoi(uc.mtu) \in 576..MaxMtu => atoi(uc.mtu) # 0
  BY ConfigAssumption
<1>7. op.mtu # BadMtu => op.mtu = IF uc.mtu = NoMtu THEN 1500 ELSE atoi(uc.mtu)
  BY <1>3, <1>5, <1>6
<1>8. op.mtu # BadMtu => op.mtu >= 576
  BY <1>3, <1>4, <1>5
<1>9. /\ s = BadSpeeds <=> ~SpeedsSupported
      /\ SpeedsSupported => s = UserSpeeds /\ (s = <<>> <=> uc.speeds = <<>>)
  BY <1>1, SpeedsParsed
<1>10. ~SpeedsSupported => op.speeds = BadSpeeds
  BY <1>1, <1>9 DEF CallInv
<1> QED BY <1>1, <1>3, <1>5, <1>7, <1>8, <1>9, <1>10

(* Supported values never come to the mark of a bad list.                  *)
LEMMA SpeedsOutcome ==
    ASSUME RowInv, IfaceInv, SpeedsSupported,
           get_connector_flags(Module.connector) # "UNSUPPORTED",
           NEW o, o = Outcome(intf)
    PROVE  o.speeds # BadSpeeds /\ o.speeds # <<>>
<1>1. PICK s, ms : /\ s = ParsedSpeeds(uc, kind.hw) /\ s = intf.user_cfg.speeds
                   /\ ms = ModuleSpeeds(intf.pm_info)
  BY ConfigParsed
<1>2. s # BadSpeeds /\ s = UserSpeeds /\ (s # <<>> => s[1] # -1)
  BY <1>1, SpeedsParsed
<1>3. ms # <<>> /\ ms # <<-1>>
  <2>1. intf.pm_info.op_connector_flags \in Families \ {"UNSUPPORTED"}
    BY ModuleIs DEF IfaceInv, get_connector_flags, Families
  <2> QED BY <1>1, <2>1 DEF ModuleSpeeds, Families
<1>4. o.speeds \in {ms, s, <<s[1]>>} /\ (o.speeds # ms => s # <<>>)
  <2>1. PICK c, cap, h : /\ c = intf.user_cfg /\ cap = ModuleAutoneg(intf.pm_info)
                         /\ h = intf.hw_info.speeds
    OBVIOUS
  <2>2. o = AutonegOutcome(c, cap, ms, h) /\ c.speeds = s
    BY <1>1, <2>1 DEF Outcome
  <2>3. c.autoneg \in {"on", "off", "default"}
    BY <2>1, ConfigParsed
  <2>4. cap \in {"required", "unsupported"}
    BY <2>1 DEF ModuleAutoneg
  <2> QED BY <2>2, <2>3, <2>4 DEF AutonegOutcome
<1>5. <<s[1]>> # <<>> /\ (s # <<>> => <<s[1]>> # <<-1>>)
  BY <1>2
<1> QED BY <1>2, <1>3, <1>4, <1>5 DEF BadSpeeds

(* The reason a call finds is the first in the list.                       *)
LEMMA ReasonIsFirst ==
    ASSUME RowInv, IfaceInv, NEW x, NEW op, NEW n, CallInv(x, op, n),
           NEW w, w = ReasonOf(x, op, Role)
    PROVE  \/ w = "ok" /\ Applying = {}
           \/ \E k \in Applying : w = Reasons[k] /\ \A j \in Applying : k <= j
<1> DEFINE A == Applying
<1>1. /\ Reasons[1] = "lanes_split" /\ Reasons[2] = "lanes_not_split"
      /\ Reasons[3] = "admin_down" /\ Reasons[4] = "module_missing"
      /\ Reasons[5] = "module_unrecognized" /\ Reasons[6] = "module_unsupported"
      /\ Reasons[7] = "invalid_mtu" /\ Reasons[8] = "invalid_speeds"
      /\ Reasons[9] = "autoneg_required" /\ Reasons[10] = "autoneg_not_supported"
      /\ Reasons[11] = "port_admin_down"
  BY DEF Reasons
<1>2. /\ x.type = kind.type /\ x.pm_info = Module /\ x.port_admin = portAdmin
      /\ x.user_cfg.admin_state = IF uc.admin = "up" THEN "up" ELSE "down"
      /\ x.user_cfg.lane_split = IF uc.lane_split = "split" THEN "split" ELSE "no-split"
  BY ConfigParsed DEF CallInv, SameConfig, IfaceInv
<1>3. (3 \in A <=> x.user_cfg.admin_state = "down") /\ (11 \in A <=> x.port_admin = "down")
  BY <1>2, ApplyingIs
<1>4. CASE kind.type \in VirtualTypes
  <2>1. w = IF 3 \in A THEN "admin_down" ELSE IF 11 \in A THEN "port_admin_down" ELSE "ok"
    BY <1>2, <1>3, <1>4 DEF ReasonOf
  <2>2. A \subseteq {3, 11}
    BY <1>4, ApplyingIs
  <2> QED BY <1>1, <2>1, <2>2
<1>5. CASE kind.type \notin VirtualTypes
  <2>1. (1 \in A <=> Role.has_children /\ x.user_cfg.lane_split = "split")
        /\ (2 \in A <=> Role.has_parent /\ Role.parent_split = "no-split")
    <3>1. /\ Role.has_children = (kind.role = "parent") /\ Role.has_parent = (kind.role = "child")
          /\ Role.parent_split = parentSplit
      BY DEF Role, Family
    <3>2. 1 \in A <=> kind.role = "parent" /\ uc.lane_split = "split"
      BY <1>5, ApplyingIs
    <3>3. 2 \in A <=> kind.role = "child" /\ parentSplit = "no-split"
      BY <1>5, ApplyingIs
    <3> QED BY <1>2, <3>1, <3>2, <3>3
  <2>2. (4 \in A <=> x.pm_info.connector = "ABSENT")
        /\ (5 \in A <=> x.pm_info.connector_status = "unrecognized")
    BY <1>2, <1>5, ApplyingIs
  <2>3. 4 \notin A => (6 \in A <=> \/ x.pm_info.connector_status = "unsupported"
                                   \/ x.pm_info.op_connector_flags = "UNSUPPORTED")
    <3>1. Module.connector # "ABSENT" =>
            (Module.op_connector_flags = "UNSUPPORTED" <=>
               Module.connector \in {"UNKNOWN", "SFP_LX", "SFP_CX", "SFP_FC"})
      BY ModuleIs DEF Connectors, get_connector_flags
    <3> QED BY <1>2, <1>5, <2>2, <3>1, ApplyingIs
  <2>4. (7 \in A <=> op.mtu = BadMtu) /\ (8 \in A => op.speeds = BadSpeeds)
    BY <1>5, ApplyingIs, ValuesOf
  <2>5. ASSUME 4 \notin A, 6 \notin A, 7 \notin A, 8 \notin A
        PROVE  /\ op.speeds # BadSpeeds
               /\ op.autoneg_state = "invalid" <=> 9 \in A \/ 10 \in A
               /\ 9 \in A => op.autoneg_reason = "autoneg_required"
               /\ 10 \in A /\ 9 \notin A => op.autoneg_reason = "autoneg_not_supported"
    <3>1. get_connector_flags(Module.connector) # "UNSUPPORTED"
      BY <1>2, <2>3, <2>5, ModuleIs
    <3>2. SpeedsSupported /\ op.mtu # BadMtu
      BY <1>5, <2>4, <2>5, ApplyingIs
    <3>3. x.user_cfg.mtu # BadMtu /\ x.user_cfg.speeds # BadSpeeds /\ x.user_cfg.speeds = UserSpeeds
      BY <3>2, ValuesOf
    <3>4. PICK o : /\ o = Outcome(intf) /\ op.autoneg_state = o.state
                   /\ op.autoneg_reason = o.reason /\ op.speeds = o.speeds
      BY <3>3 DEF CallInv
    <3>5. /\ uc.autoneg = "off" /\ NeedsAutoneg <=>
                 o.state = "invalid" /\ o.reason = "autoneg_required"
          /\ uc.autoneg = "on" /\ ~NeedsAutoneg <=>
                 o.state = "invalid" /\ o.reason = "autoneg_not_supported"
          /\ o.state = "invalid" => o.reason \in {"autoneg_required", "autoneg_not_supported"}
      BY <3>1, <3>4, AutonegIs
    <3>6. o.speeds # BadSpeeds
      BY <3>1, <3>2, <3>3, <3>4, SpeedsOutcome DEF CallInv, SameConfig
    <3> QED BY <1>5, <3>4, <3>5, <3>6, ApplyingIs
  <2>6. w = IF 1 \in A THEN "lanes_split"
            ELSE IF 2 \in A THEN "lanes_not_split"
            ELSE IF 3 \in A THEN "admin_down"
            ELSE IF 4 \in A THEN "module_missing"
            ELSE IF 5 \in A THEN "module_unrecognized"
            ELSE IF 6 \in A THEN "module_unsupported"
            ELSE IF 7 \in A THEN "invalid_mtu"
            ELSE IF 8 \in A THEN "invalid_speeds"
            ELSE IF 9 \in A THEN "autoneg_required"
            ELSE IF 10 \in A THEN "autoneg_not_supported"
            ELSE IF 11 \in A THEN "port_admin_down"
            ELSE "ok"
    BY <1>2, <1>3, <1>5, <2>1, <2>2, <2>3, <2>4, <2>5 DEF ReasonOf
  <2>7. A \subseteq 1..11
    BY ApplyingIs
  <2> HIDE DEF A
  <2>8. \/ w = "ok" /\ A = {}
        \/ \E k \in A : w = Reasons[k] /\ \A j \in A : k <= j
    BY <1>1, <2>6, <2>7
  <2> QED BY <2>8 DEF A
<1> QED BY <1>4, <1>5

(* The error column names the first of the documented reasons that the     *)
(* present row gives, and the interface is enabled exactly when there is   *)
(* none: whatever was configured before and left in op_state.              *)
THEOREM ReasonIsFirstReason == Spec => []ReasonIsFirstThatApplies
<1>1. RowInv /\ IfaceInv => ReasonIsFirstThatApplies
  <2> SUFFICES ASSUME RowInv, IfaceInv PROVE ReasonIsFirstThatApplies
    OBVIOUS
  <2>1. PICK x, op, n : CallInv(x, op, n)
    BY LastCall
  <2>2. PICK w : w = ReasonOf(x, op, Role)
    OBVIOUS
  <2>3. /\ out = set_intf_hw_config_in_db(x, n) /\ n.enabled = (w = "ok") /\ n.reason = w
    BY <2>1, <2>2 DEF CallInv
  <2>4. PICK A : A = Applying
    OBVIOUS
  <2>5. \/ w = "ok" /\ A = {}
        \/ \E k \in A : w = Reasons[k] /\ \A j \in A : k <= j
    BY <2>1, <2>2, <2>4, ReasonIsFirst
  <2>6. CASE w = "ok" /\ A = {}
    <3>1. n.enabled
      BY <2>3, <2>6
    <3>2. out.hw_intf_config.enable = "true" /\ out.error = "none"
      BY <2>3, <3>1 DEF set_intf_hw_config_in_db
    <3> QED BY <2>4, <2>6, <3>2 DEF ReasonIsFirstThatApplies, Applying
  <2>7. ASSUME NEW k \in A, w = Reasons[k], \A j \in A : k <= j
        PROVE  ReasonIsFirstThatApplies
    <3>1. A \subseteq 1..11
      BY <2>4, ApplyingIs
    <3>2. w # "ok" /\ w \in Reason
      BY <2>7, <3>1 DEF Reasons, Reason
    <3>3. out.hw_intf_config.enable = "false" /\ out.error = w
      BY <2>3, <3>2 DEF set_intf_hw_config_in_db, DisabledConfig, intfd_get_error_str
    <3>4. (CHOOSE m \in A : \A j \in A : m <= j) = k
      <4>1. PICK l : l = CHOOSE m \in A : \A j \in A : m <= j
        OBVIOUS
      <4>2. l \in A /\ \A j \in A : l <= j
        BY <2>7, <4>1
      <4>3. k <= l /\ l <= k /\ k \in Int /\ l \in Int
        BY <2>7, <3>1, <4>2
      <4> QED BY <4>1, <4>3
    <3> QED BY <2>4, <2>7, <3>3, <3>4 DEF ReasonIsFirstThatApplies, Applying
  <2> QED BY <2>5, <2>6, <2>7
<1> QED BY <1>1, ConfigInvariant, PTL

-----------------------------------------------------------------------------
(* What an enabled interface is programmed with.                           *)

(* An enabled interface has a known, supported module and valid values.    *)
LEMMA EnabledIsClean ==
    ASSUME RowInv, IfaceInv, NEW x, NEW op, NEW n, CallInv(x, op, n), n.enabled,
           kind.type \notin VirtualTypes
    PROVE  /\ get_connector_flags(Module.connector) # "UNSUPPORTED"
           /\ SpeedsSupported /\ op.mtu # BadMtu
           /\ op.autoneg_state # "invalid"
<1>1. PICK w : w = ReasonOf(x, op, Role)
  OBVIOUS
<1>2. w = "ok"
  BY <1>1 DEF CallInv
<1>3. \A k \in 1..11 : Reasons[k] # "ok"
  BY DEF Reasons
<1>4. Applying = {}
  <2>1. PICK A : A = Applying
    OBVIOUS
  <2>2. \/ w = "ok" /\ A = {}
        \/ \E k \in A : w = Reasons[k] /\ \A j \in A : k <= j
    BY <1>1, <2>1, ReasonIsFirst
  <2>3. A \subseteq 1..11
    BY <2>1, ApplyingIs
  <2> QED BY <1>2, <1>3, <2>1, <2>2, <2>3
<1>5. SpeedsSupported /\ op.mtu # BadMtu
  BY <1>4, ApplyingIs, ValuesOf
<1>6. x.pm_info = Module /\ x.type = kind.type
  BY DEF CallInv, SameConfig, IfaceInv
<1>7. Module.op_connector_flags # "UNSUPPORTED"
  BY <1>1, <1>2, <1>6 DEF ReasonOf
<1>8. PICK o : o = Outcome(intf) /\ op.autoneg_state = o.state /\ op.autoneg_reason = o.reason
  BY <1>5, ValuesOf DEF CallInv
<1>9. o.state = "invalid" => o.reason \in {"autoneg_required", "autoneg_not_supported"}
  BY <1>7, <1>8, ModuleIs, AutonegIs
<1>10. op.autoneg_state # "invalid"
  BY <1>1, <1>2, <1>6, <1>8, <1>9 DEF ReasonOf
<1> QED BY <1>5, <1>7, <1>10, ModuleIs

(* Autonegotiation, speeds, mtu, duplex, pause and type come from the      *)
(* present row and module, whatever op_state went through before.          *)
THEOREM HwConfigFollows == Spec => []HwConfigFollowsRow
<1>1. RowInv /\ IfaceInv => HwConfigFollowsRow
  <2> SUFFICES ASSUME RowInv, IfaceInv, kind.type \notin VirtualTypes,
                      out.hw_intf_config.enable = "true",
                      NEW cfg, cfg = out.hw_intf_config
               PROVE  /\ cfg.autoneg = IF NeedsAutoneg THEN "on" ELSE "off"
                      /\ cfg.speeds = IF uc.speeds = <<>> THEN <<RateOf(Module.connector)>>
                                      ELSE IF NeedsAutoneg THEN UserSpeeds ELSE <<UserSpeeds[1]>>
                      /\ cfg.mtu = IF uc.mtu = NoMtu THEN 1500 ELSE atoi(uc.mtu)
                      /\ cfg.duplex = IF uc.duplex = "half" THEN "half" ELSE "full"
                      /\ cfg.pause = IF uc.pause \in {"rxtx", "tx", "rx"} THEN uc.pause ELSE "none"
                      /\ cfg.interface_type = IF Module.connector \in TypelessModules THEN "UNKNOWN"
                                              ELSE Module.connector
    BY DEF HwConfigFollowsRow
  <2>1. PICK x, op, n : CallInv(x, op, n)
    BY LastCall
  <2>2. out = set_intf_hw_config_in_db(x, n)
    BY <2>1 DEF CallInv
  <2>3. n.enabled
    BY <2>2 DEF set_intf_hw_config_in_db, DisabledConfig
  <2>4. cfg = [enable |-> "true",
               autoneg |-> IF n.autoneg_state = "enabled" THEN "on" ELSE "off",
               duplex |-> n.duplex, pause |-> n.pause,
               mtu |-> IF n.mtu >= INTFD_MIN_ALLOWED_USER_SPECIFIED_MTU THEN n.mtu ELSE 0,
               speeds |-> IF n.speeds = BadSpeeds THEN <<>> ELSE n.speeds,
               interface_type |-> intfd_get_intf_type_str(x.pm_info.intf_type)]
    BY <2>2, <2>3 DEF set_intf_hw_config_in_db
  <2>5. /\ get_connector_flags(Module.connector) # "UNSUPPORTED"
        /\ SpeedsSupported /\ op.mtu # BadMtu /\ op.autoneg_state # "invalid"
    BY <2>1, <2>3, EnabledIsClean
  <2>6. /\ op.mtu = IF uc.mtu = NoMtu THEN 1500 ELSE atoi(uc.mtu)
        /\ op.mtu >= 576 /\ x.user_cfg.mtu # BadMtu
        /\ x.user_cfg.speeds # BadSpeeds /\ x.user_cfg.speeds = UserSpeeds
        /\ x.user_cfg.speeds = <<>> <=> uc.speeds = <<>>
    BY <2>1, <2>5, ValuesOf
  <2>7. PICK o : o = Outcome(intf) /\ op.autoneg_state = o.state /\ op.speeds = o.speeds
    BY <2>1, <2>6 DEF CallInv
  <2>8. o.speeds # BadSpeeds /\ o.speeds # <<>>
    BY <2>5, <2>7, SpeedsOutcome
  <2>9. x.user_cfg = intf.user_cfg /\ x.pm_info = Module
    BY <2>1 DEF CallInv, SameConfig, IfaceInv
  <2>10. /\ o.state = IF NeedsAutoneg THEN "enabled" ELSE "disabled"
         /\ o.speeds = IF intf.user_cfg.speeds = <<>> THEN ModuleSpeeds(intf.pm_info)
                       ELSE IF NeedsAutoneg THEN intf.user_cfg.speeds
                       ELSE <<intf.user_cfg.speeds[1]>>
    BY <2>5, <2>7, AutonegIs
  <2>11. /\ n.mtu = op.mtu /\ n.speeds = op.speeds /\ n.autoneg_state = op.autoneg_state
         /\ n.pause = x.user_cfg.pause /\ n.duplex = x.user_cfg.duplex
    BY <2>1, <2>3 DEF CallInv
  <2>12. cfg.autoneg = IF NeedsAutoneg THEN "on" ELSE "off"
    BY <2>4, <2>7, <2>10, <2>11
  <2>13. cfg.speeds = o.speeds
    BY <2>4, <2>7, <2>8, <2>11
  <2>14. cfg.mtu = op.mtu
    BY <2>4, <2>6, <2>11 DEF INTFD_MIN_ALLOWED_USER_SPECIFIED_MTU
  <2>15. /\ cfg.duplex = IF uc.duplex = "half" THEN "half" ELSE "full"
         /\ cfg.pause = IF uc.pause \in {"rxtx", "tx", "rx"} THEN uc.pause ELSE "none"
    <3>1. PICK u : u = intf.user_cfg
      OBVIOUS
    <3>2. cfg.duplex = u.duplex /\ cfg.pause = u.pause
      BY <2>4, <2>9, <2>11, <3>1
    <3> QED BY <3>1, <3>2, ConfigParsed
  <2>16. cfg.interface_type = IF Module.connector \in TypelessModules THEN "UNKNOWN"
                              ELSE Module.connector
    <3>1. Module.intf_type = IF Module.connector = "SFP_LRM" THEN "UNKNOWN" ELSE Module.connector
      BY <2>5, ModuleIs DEF get_connector_if_type
    <3>2. Module.connector # "UNKNOWN"
      BY <2>5 DEF get_connector_flags
    <3>3. cfg.interface_type = intfd_get_intf_type_str(Module.intf_type)
      BY <2>4, <2>9
    <3> QED BY <3>1, <3>2, <3>3 DEF intfd_get_intf_type_str, TypelessModules
  <2>17. ModuleSpeeds(Module) = <<RateOf(Module.connector)>>
    BY <2>5, ModuleIs DEF Connectors, get_connector_flags, ModuleSpeeds, RateOf
  <2>18. cfg.speeds = IF uc.speeds = <<>> THEN <<RateOf(Module.connector)>>
                      ELSE IF NeedsAutoneg THEN UserSpeeds ELSE <<UserSpeeds[1]>>
    <3>1. PICK us, s : us = UserSpeeds /\ s = intf.user_cfg.speeds
      OBVIOUS
    <3>2. s = us /\ (s = <<>> <=> uc.speeds = <<>>)
      BY <2>6, <2>9, <3>1
    <3>3. o.speeds = IF s = <<>> THEN ModuleSpeeds(Module)
                     ELSE IF NeedsAutoneg THEN s ELSE <<s[1]>>
      BY <2>9, <2>10, <3>1 DEF IfaceInv
    <3> QED BY <2>13, <2>17, <3>1, <3>2, <3>3, Zenon
  <2> QED BY <2>6, <2>12, <2>14, <2>15, <2>16, <2>18
<1> QED BY <1>1, ConfigInvariant, PTL
=============================================================================
