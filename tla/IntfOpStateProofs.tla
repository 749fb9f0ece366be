-------------------------- MODULE IntfOpStateProofs --------------------------
(***************************************************************************)
(* Lemmas about the computation of one interface's columns: what           *)
(* set_interface_config keeps of the iface, when it enables the interface, *)
(* and that what it writes does not depend on the op_state an earlier call *)
(* left behind.  They hold for every value of the columns.                 *)
(***************************************************************************)
EXTENDS IntfOpState, TLAPS

(* The fields of the structures of intfd.                                  *)
IsUserCfg(u) ==
    /\ u = [admin_state |-> u.admin_state, autoneg |-> u.autoneg, pause |-> u.pause,
            duplex |-> u.duplex, speeds |-> u.speeds, mtu |-> u.mtu,
            lane_split |-> u.lane_split]
    /\ u.admin_state \in {"up", "down"} /\ u.autoneg \in {"on", "off", "default"}
    /\ u.lane_split \in {"split", "no-split"}

IsOpState(o) ==
    /\ o = [enabled |-> o.enabled, reason |-> o.reason, autoneg_reason |-> o.autoneg_reason,
            duplex |-> o.duplex, pause |-> o.pause,
            autoneg_capability |-> o.autoneg_capability,
            autoneg_state |-> o.autoneg_state, mtu |-> o.mtu, speeds |-> o.speeds]
    /\ o.autoneg_reason \in {"uninitialized", "autoneg_not_supported", "autoneg_required"}

IsIface(x) ==
    /\ x = [type |-> x.type, hw_info |-> x.hw_info, user_cfg |-> x.user_cfg,
            pm_info |-> x.pm_info, port_admin |-> x.port_admin, op_state |-> x.op_state]
    /\ IsUserCfg(x.user_cfg) /\ IsOpState(x.op_state)
    /\ x.port_admin \in {"up", "down"}

(* Everything set_interface_config reads but op_state.                     *)
SameConfig(x, y) ==
    /\ x.type = y.type /\ x.hw_info = y.hw_info /\ x.user_cfg = y.user_cfg
    /\ x.pm_info = y.pm_info /\ x.port_admin = y.port_admin

(* k are columns computed for the configuration of y.                      *)
Computed(k, y, family) ==
    \E x : IsIface(x) /\ SameConfig(x, y) /\ k = set_interface_config(x, family).out

IsColumns(k) == k = [error |-> k.error, hw_intf_config |-> k.hw_intf_config]

(* What the user's configuration and the module come to.                   *)
Outcome(x) ==
    AutonegOutcome(x.user_cfg, ModuleAutoneg(x.pm_info), ModuleSpeeds(x.pm_info),
                   x.hw_info.speeds)

-----------------------------------------------------------------------------
(* The steps of the computation.                                           *)

LEMMA OutcomeReason ==
    ASSUME NEW x, IsUserCfg(x.user_cfg)
    PROVE  Outcome(x).reason \in {"uninitialized", "autoneg_not_supported", "autoneg_required"}
<1>1. PICK cap, ms : cap = ModuleAutoneg(x.pm_info) /\ ms = ModuleSpeeds(x.pm_info)
  OBVIOUS
<1>2. PICK c, h : c = x.user_cfg /\ h = x.hw_info.speeds
  OBVIOUS
<1>3. c.autoneg \in {"on", "off", "default"}
  BY <1>2 DEF IsUserCfg
<1>4. AutonegOutcome(c, cap, ms, h).reason
        \in {"uninitialized", "autoneg_not_supported", "autoneg_required"}
  BY <1>3 DEF AutonegOutcome
<1> QED BY <1>1, <1>2, <1>4 DEF Outcome

(* The reason decides whether the interface is enabled.                    *)
LEMMA CalcIs ==
    ASSUME NEW x, NEW f, NEW o, IsOpState(o),
           NEW n, n = calc_intf_op_state_n_reason(x, o, f)
    PROVE  /\ IsOpState(n)
           /\ n.mtu = o.mtu /\ n.speeds = o.speeds /\ n.autoneg_state = o.autoneg_state
           /\ n.enabled = (ReasonOf(x, o, f) = "ok")
           /\ n.reason = ReasonOf(x, o, f)
<1>1. PICK r : r = ReasonOf(x, o, f)
  OBVIOUS
<1>2. PICK e : e = (r = "ok")
  OBVIOUS
<1>3. n = [o EXCEPT !.enabled = e, !.reason = r]
  BY <1>1, <1>2, Zenon DEF calc_intf_op_state_n_reason
<1>4. PICK m : m = [o EXCEPT !.enabled = e]
  OBVIOUS
<1>5. /\ IsOpState(m) /\ m.enabled = e
      /\ m.mtu = o.mtu /\ m.speeds = o.speeds /\ m.autoneg_state = o.autoneg_state
  BY <1>4 DEF IsOpState
<1>6. n = [m EXCEPT !.reason = r]
  BY <1>3, <1>4
<1>7. /\ IsOpState(n) /\ n.enabled = e /\ n.reason = r
      /\ n.mtu = o.mtu /\ n.speeds = o.speeds /\ n.autoneg_state = o.autoneg_state
  BY <1>5, <1>6 DEF IsOpState
<1> QED BY <1>1, <1>2, <1>7

(* The checks of the user's configuration: the fields the rest of the      *)
(* computation reads depend on the configuration alone, unless it is not   *)
(* valid.                                                                  *)
LEMMA ValidateIs ==
    ASSUME NEW x, IsUserCfg(x.user_cfg), NEW o, IsOpState(o),
           NEW n, n = validate_n_set_interface_capability(x, o)
    PROVE  /\ IsOpState(n) /\ n.mtu = o.mtu
           /\ x.user_cfg.speeds = BadSpeeds => n.speeds = BadSpeeds
           /\ x.user_cfg.speeds # BadSpeeds /\ x.user_cfg.mtu # BadMtu =>
                 /\ n.autoneg_state = Outcome(x).state
                 /\ n.autoneg_reason = Outcome(x).reason
                 /\ n.speeds = Outcome(x).speeds
<1>1. CASE x.user_cfg.speeds = BadSpeeds
  <2>1. n = [o EXCEPT !.speeds = BadSpeeds]
    BY <1>1, Zenon DEF validate_n_set_interface_capability
  <2> QED BY <1>1, <2>1 DEF IsOpState
<1>2. CASE x.user_cfg.speeds # BadSpeeds /\ x.user_cfg.mtu = BadMtu
  <2>1. n = o
    BY <1>2, Zenon DEF validate_n_set_interface_capability
  <2> QED BY <1>2, <2>1
<1>3. CASE x.user_cfg.speeds # BadSpeeds /\ x.user_cfg.mtu # BadMtu
  <2>1. PICK cap, s, r, v : /\ cap = ModuleAutoneg(x.pm_info) /\ s = Outcome(x).state
                            /\ r = Outcome(x).reason /\ v = Outcome(x).speeds
    OBVIOUS
  <2>2. n = [o EXCEPT !.autoneg_capability = cap, !.autoneg_state = s,
                      !.autoneg_reason = r, !.speeds = v]
    BY <1>3, <2>1, Zenon DEF validate_n_set_interface_capability, Outcome
  <2>3. r \in {"uninitialized", "autoneg_not_supported", "autoneg_required"}
    BY <2>1, OutcomeReason
  <2>4. /\ IsOpState(n) /\ n.mtu = o.mtu
        /\ n.autoneg_state = s /\ n.autoneg_reason = r /\ n.speeds = v
    BY <2>2, <2>3 DEF IsOpState
  <2> QED BY <1>3, <2>1, <2>4
<1> QED BY <1>1, <1>2, <1>3

(* The op_state a call computes, through the op_state op that the reason   *)
(* is read from.                                                           *)
LEMMA NewOpStateIs ==
    ASSUME NEW x, NEW f, IsIface(x), NEW n, n = NewOpState(x, f)
    PROVE  /\ IsOpState(n)
           /\ n.enabled => n.pause = x.user_cfg.pause /\ n.duplex = x.user_cfg.duplex
           /\ \E op :
                 /\ IsOpState(op)
                 /\ op.mtu = set_op_state_mtu(x)
                 /\ x.user_cfg.speeds = BadSpeeds => op.speeds = BadSpeeds
                 /\ x.user_cfg.speeds # BadSpeeds /\ x.user_cfg.mtu # BadMtu =>
                       /\ op.autoneg_state = Outcome(x).state
                       /\ op.autoneg_reason = Outcome(x).reason
                       /\ op.speeds = Outcome(x).speeds
                 /\ n.mtu = op.mtu /\ n.speeds = op.speeds
                 /\ n.autoneg_state = op.autoneg_state
                 /\ n.enabled = (ReasonOf(x, op, f) = "ok")
                 /\ n.reason = ReasonOf(x, op, f)
<1>1. PICK o1 : o1 = [x.op_state EXCEPT !.mtu = set_op_state_mtu(x)]
  OBVIOUS
<1>2. IsOpState(o1) /\ o1.mtu = set_op_state_mtu(x)
  BY <1>1 DEF IsIface, IsOpState
<1>3. PICK o2 : o2 = validate_n_set_interface_capability(x, o1)
  OBVIOUS
<1>4. /\ IsOpState(o2) /\ o2.mtu = set_op_state_mtu(x)
      /\ x.user_cfg.speeds = BadSpeeds => o2.speeds = BadSpeeds
      /\ x.user_cfg.speeds # BadSpeeds /\ x.user_cfg.mtu # BadMtu =>
            /\ o2.autoneg_state = Outcome(x).state
            /\ o2.autoneg_reason = Outcome(x).reason
            /\ o2.speeds = Outcome(x).speeds
  BY <1>2, <1>3, ValidateIs DEF IsIface
<1>5. PICK o3 : o3 = calc_intf_op_state_n_reason(x, o2, f)
  OBVIOUS
<1>6. /\ IsOpState(o3)
      /\ o3.mtu = o2.mtu /\ o3.speeds = o2.speeds /\ o3.autoneg_state = o2.autoneg_state
      /\ o3.enabled = (ReasonOf(x, o2, f) = "ok")
      /\ o3.reason = ReasonOf(x, o2, f)
  BY <1>4, <1>5, CalcIs
<1>7. n = IF o3.enabled
          THEN [o3 EXCEPT !.pause = x.user_cfg.pause, !.duplex = x.user_cfg.duplex]
          ELSE o3
  BY <1>1, <1>3, <1>5, Zenon DEF NewOpState
<1>8. /\ IsOpState(n)
      /\ n.enabled = o3.enabled /\ n.reason = o3.reason
      /\ n.mtu = o3.mtu /\ n.speeds = o3.speeds /\ n.autoneg_state = o3.autoneg_state
      /\ n.enabled => n.pause = x.user_cfg.pause /\ n.duplex = x.user_cfg.duplex
  <2>1. CASE ~o3.enabled
    BY <1>6, <1>7, <2>1
  <2>2. CASE o3.enabled
    <3>1. PICK m : m = [o3 EXCEPT !.pause = x.user_cfg.pause]
      OBVIOUS
    <3>2. /\ IsOpState(m) /\ m.enabled = o3.enabled /\ m.reason = o3.reason
          /\ m.mtu = o3.mtu /\ m.speeds = o3.speeds /\ m.autoneg_state = o3.autoneg_state
          /\ m.pause = x.user_cfg.pause
      BY <1>6, <3>1 DEF IsOpState
    <3>3. n = [m EXCEPT !.duplex = x.user_cfg.duplex]
      BY <1>7, <2>2, <3>1
    <3> QED BY <3>2, <3>3 DEF IsOpState
  <2> QED BY <2>1, <2>2
<1> QED BY <1>4, <1>6, <1>8, Zenon

LEMMA UserCfgIs ==
    ASSUME NEW u, NEW hw, NEW m
    PROVE  IsUserCfg(intfd_parse_user_cfg(u, hw, m))
  BY DEF intfd_parse_user_cfg, IsUserCfg

-----------------------------------------------------------------------------
(* What callers rely on.                                                   *)

(* A call changes op_state and nothing else of the iface, and writes both  *)
(* columns.                                                                *)
LEMMA SetInterfaceConfigKeeps ==
    ASSUME NEW x, NEW f, IsIface(x), NEW r, r = set_interface_config(x, f)
    PROVE  IsIface(r.intf) /\ SameConfig(r.intf, x) /\ IsColumns(r.out)
<1>1. PICK n : n = NewOpState(x, f)
  OBVIOUS
<1>2. IsOpState(n)
  BY <1>1, NewOpStateIs
<1>3. PICK y : y = [x EXCEPT !.op_state = n]
  OBVIOUS
<1>4. IsIface(y) /\ SameConfig(y, x)
  BY <1>2, <1>3 DEF IsIface, SameConfig
<1>5. PICK out : out = set_intf_hw_config_in_db(x, n)
  OBVIOUS
<1>6. IsColumns(out)
  <2>1. \E e, h : out = [error |-> e, hw_intf_config |-> h]
    BY <1>5, Zenon DEF set_intf_hw_config_in_db
  <2> QED BY <2>1 DEF IsColumns
<1>7. r = [intf |-> y, out |-> out]
  BY <1>1, <1>3, <1>5, Zenon DEF set_interface_config
<1> QED BY <1>4, <1>6, <1>7

(* An interface is enabled only when there is no reason against it: the    *)
(* user's and the port's admin states, and, of an interface that has a     *)
(* module, the module and the split state of its family.                   *)
LEMMA EnabledHasNoReason ==
    ASSUME NEW y, NEW f, NEW k, Computed(k, y, f), k.hw_intf_config.enable = "true"
    PROVE  /\ y.user_cfg.admin_state = "up" /\ y.port_admin = "up"
           /\ y.type \notin VirtualTypes =>
                 /\ y.pm_info.connector # "ABSENT"
                 /\ ~(f.has_children /\ y.user_cfg.lane_split = "split")
                 /\ ~(f.has_parent /\ f.parent_split = "no-split")
<1>0. PICK x, r : /\ IsIface(x) /\ SameConfig(x, y)
                  /\ r = set_interface_config(x, f) /\ r.out = k
  BY DEF Computed
<1>1. PICK n : n = NewOpState(x, f)
  OBVIOUS
<1>2. PICK op : IsOpState(op) /\ n.enabled = (ReasonOf(x, op, f) = "ok")
  BY <1>0, <1>1, NewOpStateIs
<1>3. r.out = set_intf_hw_config_in_db(x, n)
  BY <1>0, <1>1 DEF set_interface_config
<1>4. n.enabled
  BY <1>0, <1>3 DEF set_intf_hw_config_in_db, DisabledConfig
<1>5. ReasonOf(x, op, f) = "ok"
  BY <1>2, <1>4
<1>6. x.user_cfg.admin_state \in {"up", "down"} /\ x.port_admin \in {"up", "down"}
  BY <1>0 DEF IsIface, IsUserCfg
<1>7. op.autoneg_reason # "ok"
  BY <1>2 DEF IsOpState
<1> QED BY <1>0, <1>5, <1>6, <1>7 DEF ReasonOf, SameConfig

(* What is written for an interface that has a module does not depend on   *)
(* the op_state of earlier calls, although an invalid configuration leaves *)
(* part of it in place.  (It does for a virtual interface: an invalid mtu  *)
(* or speed does not disable it, and the earlier autonegotiation stays.)   *)
LEMMA OutcomeIgnoresHistory ==
    ASSUME NEW x, NEW y, NEW f, IsIface(x), IsIface(y), SameConfig(x, y),
           x.type \notin VirtualTypes
    PROVE  set_interface_config(x, f).out = set_interface_config(y, f).out
<1> USE DEF SameConfig
<1>1. PICK nx, ny : nx = NewOpState(x, f) /\ ny = NewOpState(y, f)
  OBVIOUS
<1>2. PICK ox :
        /\ IsOpState(ox)
        /\ ox.mtu = set_op_state_mtu(x)
        /\ x.user_cfg.speeds = BadSpeeds => ox.speeds = BadSpeeds
        /\ x.user_cfg.speeds # BadSpeeds /\ x.user_cfg.mtu # BadMtu =>
              /\ ox.autoneg_state = Outcome(x).state
              /\ ox.autoneg_reason = Outcome(x).reason
              /\ ox.speeds = Outcome(x).speeds
        /\ nx.mtu = ox.mtu /\ nx.speeds = ox.speeds
        /\ nx.autoneg_state = ox.autoneg_state
        /\ nx.enabled = (ReasonOf(x, ox, f) = "ok")
        /\ nx.reason = ReasonOf(x, ox, f)
  BY <1>1, NewOpStateIs
<1>3. PICK oy :
        /\ IsOpState(oy)
        /\ oy.mtu = set_op_state_mtu(y)
        /\ y.user_cfg.speeds = BadSpeeds => oy.speeds = BadSpeeds
        /\ y.user_cfg.speeds # BadSpeeds /\ y.user_cfg.mtu # BadMtu =>
              /\ oy.autoneg_state = Outcome(y).state
              /\ oy.autoneg_reason = Outcome(y).reason
              /\ oy.speeds = Outcome(y).speeds
        /\ ny.mtu = oy.mtu /\ ny.speeds = oy.speeds
        /\ ny.autoneg_state = oy.autoneg_state
        /\ ny.enabled = (ReasonOf(y, oy, f) = "ok")
        /\ ny.reason = ReasonOf(y, oy, f)
  BY <1>1, NewOpStateIs
<1>4. nx.enabled => nx.pause = x.user_cfg.pause /\ nx.duplex = x.user_cfg.duplex
  BY <1>1, NewOpStateIs
<1>5. ny.enabled => ny.pause = y.user_cfg.pause /\ ny.duplex = y.user_cfg.duplex
  BY <1>1, NewOpStateIs
<1>6. ox.mtu = oy.mtu /\ (x.user_cfg.mtu = BadMtu => ox.mtu = BadMtu)
  <2>1. set_op_state_mtu(x) = set_op_state_mtu(y)
    BY Zenon DEF set_op_state_mtu
  <2>2. x.user_cfg.mtu = BadMtu => set_op_state_mtu(x) = BadMtu
    BY DEF set_op_state_mtu, BadMtu
  <2> QED BY <1>2, <1>3, <2>1, <2>2
<1>7. Outcome(x) = Outcome(y)
  BY Zenon DEF Outcome
<1>8. ReasonOf(x, ox, f) = ReasonOf(y, oy, f)
  <2>1. CASE x.user_cfg.speeds = BadSpeeds
    BY <2>1, <1>2, <1>3, <1>6 DEF ReasonOf
  <2>2. CASE x.user_cfg.mtu = BadMtu
    BY <2>2, <1>2, <1>3, <1>6 DEF ReasonOf
  <2>3. CASE x.user_cfg.speeds # BadSpeeds /\ x.user_cfg.mtu # BadMtu
    BY <2>3, <1>2, <1>3, <1>6, <1>7 DEF ReasonOf
  <2> QED BY <2>1, <2>2, <2>3
<1>9. nx.enabled = ny.enabled /\ nx.reason = ny.reason
  BY <1>2, <1>3, <1>8
<1>10. ReasonOf(x, ox, f) = "ok" => x.user_cfg.speeds # BadSpeeds /\ x.user_cfg.mtu # BadMtu
  BY <1>2, <1>6 DEF ReasonOf
<1>11. nx.enabled => /\ nx.mtu = ny.mtu /\ nx.speeds = ny.speeds
                     /\ nx.autoneg_state = ny.autoneg_state
                     /\ nx.pause = ny.pause /\ nx.duplex = ny.duplex
  <2> SUFFICES ASSUME nx.enabled
               PROVE  /\ nx.mtu = ny.mtu /\ nx.speeds = ny.speeds
                      /\ nx.autoneg_state = ny.autoneg_state
                      /\ nx.pause = ny.pause /\ nx.duplex = ny.duplex
    OBVIOUS
  <2>1. x.user_cfg.speeds # BadSpeeds /\ x.user_cfg.mtu # BadMtu
    BY <1>2, <1>10
  <2>2. x.user_cfg = y.user_cfg
    OBVIOUS
  <2>3. nx.mtu = ny.mtu
    BY <1>2, <1>3, <1>6
  <2>4. nx.speeds = ny.speeds /\ nx.autoneg_state = ny.autoneg_state
    BY <1>2, <1>3, <1>7, <2>1, <2>2
  <2>5. nx.pause = ny.pause /\ nx.duplex = ny.duplex
    BY <1>4, <1>5, <1>9, <2>2
  <2> QED BY <2>3, <2>4, <2>5
<1>12. set_intf_hw_config_in_db(x, nx) = set_intf_hw_config_in_db(y, ny)
  <2>1. CASE nx.enabled
    BY <1>9, <1>11, <2>1, Zenon DEF set_intf_hw_config_in_db
  <2>2. CASE ~nx.enabled
    BY <1>9, <2>2, Zenon DEF set_intf_hw_config_in_db
  <2> QED BY <2>1, <2>2
<1> QED BY <1>1, <1>12 DEF set_interface_config

LEMMA ComputedIs ==
    ASSUME NEW k, NEW y, NEW f, IsIface(y), Computed(k, y, f), y.type \notin VirtualTypes
    PROVE  k = set_interface_config(y, f).out
  BY OutcomeIgnoresHistory DEF Computed, SameConfig
=============================================================================
