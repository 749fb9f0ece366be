---------------------------- MODULE IntfReconfig ----------------------------
(***************************************************************************)
(* The main loop of intfd (src/src/intfd_ovsdb_if.c): other clients change *)
(* Interface and Port rows; intfd learns of a batch of changes, brings its *)
(* caches all_interfaces and all_ports up to date, computes the columns    *)
(* error and hw_intf_config of the interfaces it finds changed, and        *)
(* commits them in one transaction.                                        *)
(*                                                                         *)
(* The replica of the database does not move during a pass, but the walks  *)
(* over it are in hash order, so each step of a walk takes any row that is *)
(* left.  Changes arrive between passes and while a commit blocks.         *)
(***************************************************************************)
EXTENDS IntfOpState

CONSTANTS
    Interface,     \* names of Interface rows, physical and virtual
    TypeOf, HwOf,  \* columns type and hw_intf_info of an interface
    ParentOf,      \* column split_parent, or NoParent
    NoParent,
    PortName,      \* names of Port rows; an L3 port has its interface's name
    CanHold,       \* interfaces a port may be given
    InitialPort,   \* ports present at the start, each with its one interface
    UserConfigs,   \* values of column user_config, for each interface
    PmInfos, PortAdmins,   \* values of columns pm_info and admin
    MaxMtu,        \* MTU of the base subsystem
    Events,        \* kinds of change the other clients make
    MaxFaults      \* bound: failed commits, restarts and lost connections

VARIABLES
    rows, uc, pm,            \* Interface rows, user_config, pm_info
    ports, padmin, members,  \* Port rows, admin, interfaces
    dbCol,                   \* error and hw_intf_config in the database
    col,                     \* the same, with the writes of the open transaction
    news,                    \* the IDL's sequence number has moved
    insI, modI,              \* Interface rows inserted, modified since the last pass
    insP, delP, modP,        \* Port rows: any inserted, any deleted, which modified
    allI, cache, linked,     \* all_interfaces; who has its split pointers set
    allP, pmem,              \* all_ports, with their interfaces
    pc, todo,                \* where the pass is; the rows its walk has left
    split_changed, pm_info_changed, rc,   \* locals of the pass
    reborn,                  \* history: cache entries of an earlier row or value
    unheard,                 \* history: ports newer than the first pass, never walked over
    failures, restarts       \* commits that failed; restarts, lost connections

replica == <<rows, uc, pm, ports, padmin, members>>
tracking == <<news, insI, modI, insP, delP, modP>>
caches == <<allI, cache, linked, allP, pmem>>
locals == <<todo, split_changed, pm_info_changed, rc>>
history == <<reborn, unheard>>
bounds == <<failures, restarts>>
vars == <<replica, dbCol, col, tracking, caches, pc, locals, history, bounds>>

Physical == {i \in Interface : TypeOf[i] \notin VirtualTypes}
Virtual == Interface \ Physical
Children(i) == {c \in Interface : ParentOf[c] = i}

ASSUME ReconfigAssumption ==
    /\ MaxMtu \in Nat /\ MaxFaults \in Nat
    /\ ParentOf \in [Interface -> Physical \cup {NoParent}] /\ NoParent \notin Interface
    /\ \A i \in Interface : ParentOf[i] # NoParent => ParentOf[ParentOf[i]] = NoParent
    /\ CanHold \in [PortName -> SUBSET Interface]
    /\ Virtual \cup InitialPort \subseteq PortName /\ InitialPort \subseteq Physical
    /\ \A i \in Virtual : ParentOf[i] = NoParent

-----------------------------------------------------------------------------
(* Reading the replica.                                                    *)

get_matching_port_row(i) == {p \in ports : i \in members[p]}   \* at most one

port_parse_admin(i) ==
    IF \E p \in get_matching_port_row(i) : padmin[p] # "down" THEN "up" ELSE "down"

intf_parse_admin(i) == IF uc[i].admin = "up" THEN "up" ELSE "down"

(* The module an interface uses: a child takes its parent's.               *)
PmOf(i) ==
    IF ParentOf[i] = NoParent
    THEN intfd_parse_pm_info(intfd_parse_hw_info(HwOf[i]), pm[i])
    ELSE intfd_parse_split_pm_info(pm[ParentOf[i]])

UserCfgOf(i) == intfd_parse_user_cfg(uc[i], HwOf[i], MaxMtu)

-----------------------------------------------------------------------------
(* The caches.                                                             *)

NoIface == [type |-> "none"]

(* A fresh iface has the module of its own row; the split pointers and the *)
(* module of a child come with the INSERTED branch.                        *)
add_new_interface(i) ==
    [type |-> TypeOf[i], hw_info |-> intfd_parse_hw_info(HwOf[i]),
     user_cfg |-> UserCfgOf(i),
     pm_info |-> intfd_parse_pm_info(intfd_parse_hw_info(HwOf[i]), pm[i]),
     port_admin |-> port_parse_admin(i), op_state |-> NoOpState]

(* A child takes the module of its parent.                                 *)
WithModule(x, pm_info) == [x EXCEPT !.pm_info = pm_info]

(* What calc_intf_op_state_n_reason reads through the split pointers.      *)
FamilyOf(c, lk, i) ==
    [has_children |-> i \in lk /\ Children(i) # {},
     has_parent |-> i \in lk /\ ParentOf[i] # NoParent,
     parent_split |-> IF i \in lk /\ ParentOf[i] # NoParent
                      THEN c[ParentOf[i]].user_cfg.lane_split ELSE "no-split"]

(* set_interface_config for each interface of S, from the caches c and lk, *)
(* and enable=false for those of off.  A call changes nothing that another *)
(* call reads, so the order is immaterial.                                 *)
ConfigureAll(S, off, c, lk) ==
    LET r == [i \in S |-> set_interface_config(c[i], FamilyOf(c, lk, i))]
    IN /\ cache' = [i \in Interface |-> IF i \in S THEN r[i].intf ELSE c[i]]
       /\ col' = [i \in Interface |->
                    CASE i \in S -> r[i].out
                      [] i \in off \ S -> [col[i] EXCEPT !.hw_intf_config = DisabledConfig]
                      [] OTHER -> col[i]]

Disabled(k, S) ==   \* enable=false is written, error stays
    [i \in Interface |-> IF i \in S THEN [k[i] EXCEPT !.hw_intf_config = DisabledConfig]
                                    ELSE k[i]]

-----------------------------------------------------------------------------
(* Other clients: CLI, REST, pmd, switchd, lacpd.                          *)

NoUserConfig ==
    [admin |-> "absent", autoneg |-> "absent", pause |-> "absent", duplex |-> "absent",
     mtu |-> NoMtu, speeds |-> <<>>, lane_split |-> "absent"]

AllUserConfigs == (UNION {UserConfigs[i] : i \in Interface}) \cup {NoUserConfig}

NoPm == [connector |-> "ABSENT", connector_status |-> "absent", is40G |-> FALSE]

NoColumns ==    \* of a new row
    [error |-> "none", hw_intf_config |-> [DisabledConfig EXCEPT !.enable = "absent"]]

Init ==
    /\ rows = Physical
    /\ uc = [i \in Interface |-> NoUserConfig]
    /\ pm = [i \in Interface |-> NoPm]
    /\ ports = InitialPort
    /\ padmin = [p \in PortName |-> "absent"]
    /\ members = [p \in PortName |-> IF p \in InitialPort THEN {p} ELSE {}]
    /\ dbCol = [i \in Interface |-> NoColumns] /\ col = dbCol
    /\ news = TRUE /\ insI = rows /\ modI = {} /\ insP = TRUE /\ delP = FALSE /\ modP = {}
    /\ allI = {} /\ cache = [i \in Interface |-> NoIface] /\ linked = {}
    /\ allP = {} /\ pmem = [p \in PortName |-> {}]
    /\ pc = "idle" /\ todo = {} /\ split_changed = FALSE /\ pm_info_changed = FALSE /\ rc = FALSE
    /\ reborn = {} /\ unheard = {} /\ failures = 0 /\ restarts = 0

Others(kind) ==     \* another client makes a change intfd is told about
    /\ kind \in Events /\ pc \in {"idle", "commit"}
    /\ news' = TRUE
    /\ UNCHANGED <<caches, pc, locals, history, bounds>>

UserConfigWrite ==
    /\ Others("user_config")
    /\ \E i \in rows : \E v \in UserConfigs[i] \ {uc[i]} :
          uc' = [uc EXCEPT ![i] = v] /\ modI' = modI \cup {i}
    /\ UNCHANGED <<rows, pm, ports, padmin, members, dbCol, col, insI, insP, delP, modP>>

PmInfoWrite ==      \* pmd: only an interface with a connector has a module
    /\ Others("pm_info")
    /\ \E i \in rows \cap Physical : \E v \in PmInfos \ {pm[i]} :
          ParentOf[i] = NoParent /\ pm' = [pm EXCEPT ![i] = v] /\ modI' = modI \cup {i}
    /\ UNCHANGED <<rows, uc, ports, padmin, members, dbCol, col, insI, insP, delP, modP>>

StatusWrite ==      \* hw_status or bond_status
    /\ Others("status") \/ Others("bond_status")
    /\ \E i \in rows : modI' = modI \cup {i}
    /\ UNCHANGED <<replica, dbCol, col, insI, insP, delP, modP>>

PortAdminWrite ==
    /\ Others("port_admin")
    /\ \E p \in ports : \E a \in PortAdmins \ {padmin[p]} :
          padmin' = [padmin EXCEPT ![p] = a] /\ modP' = modP \cup {p}
    /\ UNCHANGED <<rows, uc, pm, ports, members, dbCol, col, insI, modI, insP, delP>>

(* Interfaces that port p may be given: no interface is in two ports.      *)
Free(p) == {i \in CanHold[p] \cap rows : get_matching_port_row(i) \subseteq {p}}

PortMembersWrite ==
    /\ Others("members")
    /\ \E p \in ports : \E S \in SUBSET Free(p) \ {members[p]} :
          /\ p \notin Virtual
          /\ members' = [members EXCEPT ![p] = S]
          /\ modP' = modP \cup {p}
    /\ UNCHANGED <<rows, uc, pm, ports, padmin, dbCol, col, insI, modI, insP, delP>>

(* The IDL may count an inserted row among the modified ones.              *)
PortInsert ==
    /\ Others("port_insert")
    /\ \E p \in PortName \ (ports \cup Virtual) : \E S \in SUBSET Free(p) :
       \E a \in PortAdmins \cup {"absent"} :
          /\ ports' = ports \cup {p}
          /\ members' = [members EXCEPT ![p] = S]
          /\ padmin' = [padmin EXCEPT ![p] = a]
          /\ modP' \in {modP, modP \cup {p}}
    /\ insP' = TRUE
    /\ UNCHANGED <<rows, uc, pm, dbCol, col, insI, modI, delP>>

RemovePort(p) ==
    /\ ports' = ports \ {p}
    /\ members' = [members EXCEPT ![p] = {}]
    /\ padmin' = [padmin EXCEPT ![p] = "absent"]
    /\ modP' = modP \ {p}
    /\ delP' = TRUE

PortDelete ==
    /\ Others("port_delete")
    /\ \E p \in ports \ Virtual : RemovePort(p)
    /\ UNCHANGED <<rows, uc, pm, dbCol, col, insI, modI, insP>>

(* A VLAN, loopback or sub-interface comes and goes with its port.         *)
VirtualInsert ==
    /\ Others("virtual")
    /\ \E v \in Virtual \ rows :
          /\ rows' = rows \cup {v} /\ insI' = insI \cup {v}
          /\ ports' = ports \cup {v}
          /\ members' = [members EXCEPT ![v] = {v}]
          /\ modP' \in {modP, modP \cup {v}}
    /\ insP' = TRUE
    /\ UNCHANGED <<uc, pm, padmin, dbCol, col, modI, delP>>

VirtualDelete ==
    /\ Others("virtual")
    /\ \E v \in Virtual \cap rows :
          /\ rows' = rows \ {v}
          /\ insI' = insI \ {v} /\ modI' = modI \ {v}
          /\ uc' = [uc EXCEPT ![v] = NoUserConfig]
          /\ dbCol' = [dbCol EXCEPT ![v] = NoColumns]
          /\ col' = [col EXCEPT ![v] = NoColumns]
          /\ RemovePort(v)
    /\ UNCHANGED <<pm, insP>>

(* The changes that take no Interface row away.                            *)
RowsStay ==
    \/ UserConfigWrite \/ PmInfoWrite \/ StatusWrite
    \/ PortAdminWrite \/ PortMembersWrite \/ PortInsert \/ PortDelete
    \/ VirtualInsert

Environment == RowsStay \/ VirtualDelete

-----------------------------------------------------------------------------
(* A pass: intfd_run and intfd_reconfigure.                                *)

(* Mutant of StartPass: an iface is freed but its node of the hash stays.  *)
StartPassKeepsNodes ==
    /\ pc = "idle" /\ news
    /\ pc' = "ports"
    /\ allI' = allI \cup rows
    /\ cache' = [i \in Interface |->
                    CASE i \in rows \ allI -> add_new_interface(i)
                      [] i \in rows \cap allI -> cache[i]
                      [] OTHER -> NoIface]
    /\ linked' = linked \cap rows
    /\ split_changed' = FALSE /\ pm_info_changed' = FALSE /\ rc' = FALSE
    /\ reborn' = (reborn \cup (insI \cap allI \cap (modI \cup Virtual))) \cap rows
    /\ unheard' = (unheard \cap ports) \cup (IF allI = {} THEN {} ELSE ports \ (allP \cup Virtual))
    /\ UNCHANGED <<replica, dbCol, col, tracking, allP, pmem, todo, bounds>>

(* Rows that are gone leave all_interfaces, new ones enter it.             *)
StartPass ==
    /\ pc = "idle" /\ news
    /\ pc' = "ports"
    /\ allI' = rows
    /\ cache' = [i \in Interface |->
                    CASE i \in rows \ allI -> add_new_interface(i)
                      [] i \in rows \cap allI -> cache[i]
                      [] OTHER -> NoIface]
    /\ linked' = linked \cap rows
    /\ split_changed' = FALSE /\ pm_info_changed' = FALSE /\ rc' = FALSE
    /\ reborn' = (reborn \cup (insI \cap allI \cap (modI \cup Virtual))) \cap rows
    /\ unheard' = (unheard \cap ports) \cup (IF allI = {} THEN {} ELSE ports \ (allP \cup Virtual))
    /\ UNCHANGED <<replica, dbCol, col, tracking, allP, pmem, todo, bounds>>

(* port_reconfigure.  An insertion hides a deletion in the same batch; a   *)
(* deletion is handled one port at a time, and not at all when the first   *)
(* row of the Port table belongs to a virtual interface.  Both hide the    *)
(* modifications of the batch.  The port bridge_normal always exists.      *)
BridgeNormal == "bridge_normal"
IsVirtualPort(p) == p = BridgeNormal \/ p \in rows \cap Virtual

WalkPorts(S) == pc' = "port_mods" /\ todo' = S

(* Mutant of AddPorts: like a deletion it ends with the first port found.  *)
AddOnePort ==
    /\ pc = "ports" /\ insP
    /\ \E S \in {{p} : p \in ports \ allP} \cup {{}} :
          /\ S = {} => ports \subseteq allP
          /\ allP' = allP \cup S
          /\ pmem' = [p \in PortName |-> IF p \in S THEN members[p] ELSE pmem[p]]
    /\ WalkPorts(modP)
    /\ UNCHANGED <<replica, dbCol, col, tracking, allI, cache, linked,
                   split_changed, pm_info_changed, rc, history, bounds>>

(* Mutant of AddPorts: like a deletion it skips the modified ports.        *)
AddPortsOnly ==
    /\ pc = "ports" /\ insP
    /\ allP' = allP \cup ports
    /\ pmem' = [p \in PortName |-> IF p \in ports \ allP THEN members[p] ELSE pmem[p]]
    /\ WalkPorts({})
    /\ UNCHANGED <<replica, dbCol, col, tracking, allI, cache, linked,
                   split_changed, pm_info_changed, rc, history, bounds>>

AddPorts ==
    /\ pc = "ports" /\ insP
    /\ allP' = allP \cup ports
    /\ pmem' = [p \in PortName |-> IF p \in ports \ allP THEN members[p] ELSE pmem[p]]
    /\ WalkPorts(modP)
    /\ UNCHANGED <<replica, dbCol, col, tracking, allI, cache, linked,
                   split_changed, pm_info_changed, rc, history, bounds>>

(* Mutant of SkipPorts: the early exit leaves the whole pass.              *)
SkipPortsAndInterfaces ==
    /\ pc = "ports" /\ ~insP /\ delP
    /\ \E first \in ports \cup {BridgeNormal} : IsVirtualPort(first)
    /\ pc' = "commit" /\ todo' = {}
    /\ news' = FALSE /\ insI' = {} /\ modI' = {} /\ delP' = FALSE /\ modP' = {}
    /\ UNCHANGED <<replica, dbCol, col, insP, caches,
                   split_changed, pm_info_changed, rc, history, bounds>>

SkipPorts ==
    /\ pc = "ports" /\ ~insP /\ delP
    /\ \E first \in ports \cup {BridgeNormal} : IsVirtualPort(first)
    /\ WalkPorts({})
    /\ UNCHANGED <<replica, dbCol, col, tracking, caches,
                   split_changed, pm_info_changed, rc, history, bounds>>

(* Its interfaces are disabled if an interface has the port's name and     *)
(* they are in no other port.                                              *)
del_old_port(p) ==
    /\ col' = Disabled(col, {i \in pmem[p] : p \in rows /\ get_matching_port_row(i) = {}})
    /\ allP' = allP \ {p}
    /\ pmem' = [pmem EXCEPT ![p] = {}]

DeleteOnePort ==
    /\ pc = "ports" /\ ~insP /\ delP
    /\ \E first \in ports : ~IsVirtualPort(first)
    /\ \E p \in allP \ ports : del_old_port(p)
    /\ rc' = TRUE
    /\ WalkPorts({})
    /\ UNCHANGED <<replica, dbCol, tracking, allI, cache, linked,
                   split_changed, pm_info_changed, history, bounds>>

NoOldPorts ==
    /\ pc = "ports" /\ ~insP
    /\ delP => allP \subseteq ports /\ \E first \in ports : ~IsVirtualPort(first)
    /\ WalkPorts(modP)
    /\ UNCHANGED <<replica, dbCol, col, tracking, caches,
                   split_changed, pm_info_changed, rc, history, bounds>>

(* Mutant of Detached: only a port without interfaces releases them.       *)
DetachedIfEmptied(p) == IF members[p] = {} THEN pmem[p] ELSE {}

(* The cached interfaces that have left the port.                          *)
Detached(p) == pmem[p] \ members[p]

(* The interfaces it has, or had and another port has now; and those that  *)
(* no port has any more.                                                   *)
Kept(p) == members[p] \cup {i \in Detached(p) : get_matching_port_row(i) # {}}
Lost(p) == {i \in Detached(p) : get_matching_port_row(i) = {}}

(* What a modified port refreshes of an iface.                             *)
WithPort(x, i) ==
    [x EXCEPT !.port_admin = port_parse_admin(i), !.user_cfg.admin_state = intf_parse_admin(i)]

Refreshed(p) ==
    [i \in Interface |-> CASE i \in Kept(p) -> WithPort(cache[i], i)
                           [] i \in Lost(p) -> [cache[i] EXCEPT !.port_admin = "down"]
                           [] OTHER -> cache[i]]

(* add_del_interface_handle_port_config_mods and remove_interface_from_port *)
(* for one modified row of a cached port; an empty port counts too.         *)
PortMod(p) ==
    /\ ConfigureAll(Kept(p), Lost(p), Refreshed(p), linked)
    /\ rc' = TRUE
    /\ pmem' = [pmem EXCEPT ![p] = members[p]]

PortStep ==
    /\ pc = "port_mods"
    /\ \E p \in todo :
          /\ todo' = todo \ {p}
          /\ IF p \in allP THEN PortMod(p) ELSE UNCHANGED <<cache, col, rc, pmem>>
          /\ unheard' = unheard \ {p}
    /\ UNCHANGED <<replica, dbCol, tracking, allI, linked, allP, pc,
                   split_changed, pm_info_changed, reborn, bounds>>

PortsDone ==
    /\ pc = "port_mods" /\ todo = {}
    /\ pc' = "intf_mods" /\ todo' = insI \cup modI
    /\ UNCHANGED <<replica, dbCol, col, tracking, caches,
                   split_changed, pm_info_changed, rc, history, bounds>>

(* handle_interfaces_config_mods: an inserted row ...                      *)
IntfInserted(i) ==
    LET lane == ParentOf[i] # NoParent
        c == [k \in Interface |-> IF k = i /\ lane THEN WithModule(cache[i], PmOf(i)) ELSE cache[k]]
    IN /\ linked' = linked \cup {i}
       /\ ConfigureAll({i}, {}, c, linked')
       /\ rc' = TRUE
       /\ UNCHANGED <<split_changed, pm_info_changed>>

(* Mutant of Differs: a change of the module is not noticed.               *)
DiffersUserOnly(old, user_cfg, pm_info) == old.user_cfg # user_cfg

(* ... and a modified one: each field of the cached configuration is        *)
(* compared with the row.                                                  *)
Differs(old, user_cfg, pm_info) == old.user_cfg # user_cfg \/ old.pm_info # pm_info

(* Mutant of Targets: the children are left as they are.                   *)
TargetsWithoutChildren(i, cfg_changed, splitChanged) == IF cfg_changed THEN {i} ELSE {}

(* The interfaces handed to set_interface_config.                          *)
Targets(i, cfg_changed, splitChanged) ==
    (IF cfg_changed THEN {i} ELSE {}) \cup (IF splitChanged THEN Children(i) ELSE {})

(* Mutant of Count: rc is assigned, not accumulated.                       *)
CountLast(changed) == changed

(* The calls for children are not counted.                                 *)
Count(changed) == rc \/ changed

(* All ten elements of the array of speeds are compared too.  They are     *)
(* uninitialized without a speeds key, and left overs of a list that is    *)
(* not valid, so cfg_changed may come out true without a change.           *)
Spurious(i) == UserCfgOf(i).speeds \in {<<>>, BadSpeeds}

(* split_changed and pm_info_changed carry over to the rows that follow.   *)
PmChanged(i) == pm_info_changed \/ cache[i].pm_info.connector # PmOf(i).connector
PassOn(i) == IF PmChanged(i) THEN Children(i) ELSE {}
SplitChanged(i) ==
    \/ split_changed
    \/ cache[i].user_cfg.lane_split # UserCfgOf(i).lane_split
    \/ PassOn(i) # {}

(* The row's configuration, and the module for the children.               *)
ModifiedCache(i) ==
    [k \in Interface |->
        CASE k = i -> [cache[i] EXCEPT !.user_cfg = UserCfgOf(i), !.pm_info = PmOf(i),
                                       !.port_admin = port_parse_admin(i)]
          [] k \in PassOn(i) \ {i} -> WithModule(cache[k], intfd_parse_split_pm_info(pm[i]))
          [] OTHER -> cache[k]]

IntfModified(i) ==
    LET differs == Differs(cache[i], UserCfgOf(i), PmOf(i))
    IN \E cfg_changed \in {differs, Spurious(i)} :
          /\ differs => cfg_changed
          /\ ConfigureAll(Targets(i, cfg_changed, SplitChanged(i)), {}, ModifiedCache(i), linked)
          /\ rc' = Count(cfg_changed)
          /\ split_changed' = SplitChanged(i)
          /\ pm_info_changed' = PmChanged(i)
          /\ UNCHANGED linked

IntfStep ==
    /\ pc = "intf_mods"
    /\ \E i \in todo :
          /\ todo' = todo \ {i}
          /\ IF i \in insI THEN IntfInserted(i) ELSE IntfModified(i)
          /\ reborn' = IF i \in insI THEN reborn ELSE reborn \ {i}
    /\ UNCHANGED <<replica, dbCol, tracking, allI, allP, pmem, pc, unheard, bounds>>

(* The end of intfd_reconfigure; arbiter is the result of the arbiter,     *)
(* which may have something to write as well.  Without any the transaction *)
(* is dropped.  Either way the batch counts as handled.                    *)
EndPassWith(arbiter) ==
    /\ pc = "intf_mods" /\ todo = {}
    /\ news' = FALSE /\ insI' = {} /\ modI' = {}
    /\ insP' = FALSE /\ delP' = FALSE /\ modP' = {}
    /\ IF rc \/ arbiter THEN pc' = "commit" /\ UNCHANGED col
                        ELSE pc' = "idle" /\ col' = dbCol
    /\ UNCHANGED <<replica, dbCol, caches, locals, history, bounds>>

(* Here any result of the arbiter; module IntfDaemon computes it.          *)
EndPass == \E arbiter \in BOOLEAN : EndPassWith(arbiter)

(* Mutant of Commit: the sequence number is read after the commit.         *)
CommitThenReadSeqno ==
    /\ pc = "commit"
    /\ pc' = "idle" /\ dbCol' = col
    /\ news' = FALSE /\ insI' = {} /\ modI' = {}
    /\ insP' = FALSE /\ delP' = FALSE /\ modP' = {}
    /\ UNCHANGED <<replica, col, caches, locals, history, bounds>>

Commit ==
    /\ pc = "commit"
    /\ pc' = "idle" /\ dbCol' = col
    /\ UNCHANGED <<replica, col, tracking, caches, locals, history, bounds>>

CommitFails ==      \* the result of ovsdb_idl_txn_commit_block is not read
    /\ pc = "commit" /\ failures + restarts < MaxFaults
    /\ pc' = "idle" /\ col' = dbCol
    /\ failures' = failures + 1
    /\ UNCHANGED <<replica, dbCol, tracking, caches, locals, history, restarts>>

(* intfd dies, perhaps with a commit on the wire that still lands, and     *)
(* finds every row inserted when it comes back.                            *)
RestartWith(landed) ==
    /\ failures + restarts < MaxFaults
    /\ restarts' = restarts + 1
    /\ dbCol' = IF landed THEN col ELSE dbCol
    /\ col' = dbCol'
    /\ pc' = "idle" /\ todo' = {}
    /\ split_changed' = FALSE /\ pm_info_changed' = FALSE /\ rc' = FALSE
    /\ allI' = {} /\ cache' = [i \in Interface |-> NoIface] /\ linked' = {}
    /\ allP' = {} /\ pmem' = [p \in PortName |-> {}]
    /\ news' = TRUE /\ insI' = rows /\ modI' = {}
    /\ insP' = TRUE /\ delP' = FALSE /\ modP' = {}
    /\ reborn' = {} /\ unheard' = {}
    /\ UNCHANGED <<replica, failures>>

MayLand == {FALSE, pc = "commit"}

Restart == \E landed \in MayLand : RestartWith(landed)

(* The connection to the database is lost and comes back (the IDL retries; *)
(* without the lock intfd_run does nothing).  The IDL then has all rows as *)
(* inserted, a commit on the wire may have landed, and the caches stay:    *)
(* rows that have changed since the last pass are taken for what they were. *)
(* all_ports now points to rows that are gone, which intfd follows when a  *)
(* port changes: the action is for instances whose ports do not.           *)
Reconnect ==
    /\ pc \in {"idle", "commit"} /\ failures + restarts < MaxFaults
    /\ Events \cap {"port_admin", "members", "port_insert", "port_delete", "virtual"} = {}
    /\ restarts' = restarts + 1
    /\ \E landed \in MayLand : dbCol' = IF landed THEN col ELSE dbCol
    /\ col' = dbCol' /\ pc' = "idle"
    /\ news' = TRUE /\ insI' = rows /\ modI' = {}
    /\ insP' = TRUE /\ delP' = FALSE /\ modP' = {}
    /\ reborn' = reborn \cup (modI \cap allI)
    /\ UNCHANGED <<replica, caches, locals, unheard, failures>>

Walks ==
    \/ StartPass
    \/ AddPorts \/ SkipPorts \/ DeleteOnePort \/ NoOldPorts
    \/ PortStep \/ PortsDone
    \/ IntfStep

Pass == Walks \/ EndPass \/ Commit

Next == Environment \/ Pass \/ CommitFails \/ Restart \/ Reconnect

Spec == Init /\ [][Next]_vars

(* Some step of a pass is possible exactly when one is due.                *)
PassDue == pc # "idle" \/ news

-----------------------------------------------------------------------------
(* Properties.                                                             *)

(* The variables keep their types; an interface is in at most one port, a  *)
(* row that is inserted or modified exists, and however rows come and go   *)
(* the caches hold no freed entry: all_interfaces has a node exactly for   *)
(* each iface, split pointers are of ifaces that exist, and interfaces are *)
(* only remembered of ports that are in all_ports.                         *)
TypeOK ==
    /\ Physical \subseteq rows /\ rows \subseteq Interface
    /\ uc \in [Interface -> AllUserConfigs]
    /\ pm \in [Interface -> PmInfos \cup {NoPm}]
    /\ ports \subseteq PortName /\ padmin \in [PortName -> PortAdmins \cup {"absent"}]
    /\ members \in [PortName -> SUBSET Interface]
    /\ \A p, q \in ports : members[p] \cap members[q] # {} => p = q
    /\ news \in BOOLEAN /\ insP \in BOOLEAN /\ delP \in BOOLEAN
    /\ insI \subseteq rows /\ modI \subseteq rows /\ modP \subseteq ports
    /\ linked \subseteq allI
    /\ \A i \in Interface : cache[i] = NoIface <=> i \notin allI
    /\ pmem \in [PortName -> SUBSET Interface]
    /\ \A p \in PortName : pmem[p] # {} => p \in allP
    /\ pc \in {"idle", "ports", "port_mods", "intf_mods", "commit"}
    /\ pc \in {"idle", "ports", "commit"} => todo = {}
    /\ split_changed \in BOOLEAN /\ pm_info_changed \in BOOLEAN /\ rc \in BOOLEAN
    /\ reborn \subseteq allI /\ unheard \subseteq PortName
    /\ failures \in Nat /\ restarts \in Nat /\ failures + restarts <= MaxFaults

(* No change is waiting and no commit is under way.                        *)
Settled == pc = "idle" /\ ~news

IsEnabled(columns) == columns.hw_intf_config.enable = "true"

(* A splittable interface and one of its lanes are never enabled together  *)
(* in the database, at no time: switchd would program the same lanes twice. *)
(* The two are computed by separate calls from cached configuration, so    *)
(* it takes the one transaction per pass and the pass-on to the children   *)
(* in handle_interfaces_config_mods.  A lost commit may break it.          *)
SplitExclusive ==
    failures = 0 =>
        \A c \in Interface : ParentOf[c] # NoParent =>
            ~(IsEnabled(dbCol[c]) /\ IsEnabled(dbCol[ParentOf[c]]))

(* What handle_interfaces_config_mods cached of a row is what the row says *)
(* once the changes are handled, whatever arrived while a commit blocked:  *)
(* user_config of every interface, pm_info of those with a module of their *)
(* own.  The exception is a row that changed before intfd found it         *)
(* inserted, because it was deleted and inserted again within one batch or *)
(* the connection was lost: it keeps the entry of its namesake until it is *)
(* modified in a batch of its own.                                         *)
CacheTracksRows ==
    Settled => \A i \in rows \ reborn :
        /\ cache[i].user_cfg = UserCfgOf(i)
        /\ ParentOf[i] = NoParent => cache[i].pm_info = PmOf(i)

(* The rows as a freshly started intfd would see them, except the cached   *)
(* module and port.                                                        *)
FreshFamily(i) ==
    [has_children |-> Children(i) # {}, has_parent |-> ParentOf[i] # NoParent,
     parent_split |-> IF ParentOf[i] = NoParent THEN "no-split"
                      ELSE UserCfgOf(ParentOf[i]).lane_split]
FreshColumns(i) ==
    set_interface_config([add_new_interface(i) EXCEPT !.pm_info = cache[i].pm_info,
                                                      !.port_admin = cache[i].port_admin],
                         FreshFamily(i)).out

(* While ports do not change, the columns in the database are a function   *)
(* of the rows: whatever the order of the changes, in whatever batches and *)
(* walks they were handled, nothing was missed, computed from a stale      *)
(* parent or left from an earlier configuration.  (But for what a lost     *)
(* connection hid, in the row or in its parent's.)                         *)
ColumnsFollowRows ==
    Settled /\ failures = 0 => \A i \in rows :
        {i, ParentOf[i]} \cap reborn = {} => dbCol[i] = FreshColumns(i)

(* A pass that returns 0 has written nothing: calls of                     *)
(* set_interface_config that do not count (those for split children) only  *)
(* happen after one that does.  Otherwise intfd_run drops the transaction. *)
WritesAreCommitted ==
    pc = "intf_mods" /\ todo = {} /\ ~rc => col = dbCol

(* What a freshly started intfd would write.                               *)
RestartColumns(i) ==
    set_interface_config([add_new_interface(i) EXCEPT !.pm_info = PmOf(i)], FreshFamily(i)).out

(* As long as no Port row is deleted, an interface in a port is configured *)
(* as a restart of intfd would configure it, and one outside is disabled:  *)
(* whether it came by a new port, a change of members or a change of       *)
(* admin, was moved, or left a port (and kept the op_state of its time     *)
(* there).  The exceptions are a port whose row came later than interfaces *)
(* and has not changed since, as add_new_port does not look at its         *)
(* interfaces; a lane, whose module is its parent's; a change hidden by a  *)
(* lost connection.                                                        *)
ColumnsFollowPorts ==
    Settled /\ failures = 0 => \A i \in rows :
        IF get_matching_port_row(i) = {} THEN ~IsEnabled(dbCol[i])
        ELSE /\ get_matching_port_row(i) \cap unheard = {}
             /\ ParentOf[i] = NoParent /\ i \notin reborn
             => dbCol[i] = RestartColumns(i)

(* all_ports is the Port table: who left a port is found by comparing the  *)
(* two.                                                                    *)
PortCacheTracksRows ==
    Settled => allP = ports /\ \A p \in ports : pmem[p] = members[p]

(* Whatever happens to ports, an interface is enabled only when its row    *)
(* says so: admin up, and the module in it present, for a lane the one in  *)
(* its parent.  The early exits of port_reconfigure skip port changes,     *)
(* never interface changes.  (But for a row that inherited the cache entry *)
(* of its namesake; and after a lost connection the parent of a lane may   *)
(* not notice that its module has come and gone.)                          *)
EnabledNeedsRow ==
    Settled /\ failures = 0 => \A i \in rows \ reborn : IsEnabled(dbCol[i]) =>
        /\ uc[i].admin = "up"
        /\ i \in Physical /\ (ParentOf[i] = NoParent \/ restarts = 0) =>
              PmOf(i).connector # "ABSENT"

(* Every port that exists is in all_ports, although deleted ones are taken *)
(* out one per pass and leftovers take the names of new ones: otherwise    *)
(* changes of a port would be skipped for good.                            *)
PortsAreCached == Settled => ports \subseteq allP

-----------------------------------------------------------------------------
(* Statements of the repository that the code does not keep.               *)

(* "Children ports take PM info from their parent." (line 939)             *)
ChildrenTakePmInfo ==
    Settled => \A c \in rows : ParentOf[c] # NoParent => cache[c].pm_info = PmOf(c)

(* "Interfaces detached from lag gets back to default state down" (step 15 *)
(* of ops-tests/component/test_intfd_ct_admin_state.py)                    *)
DetachedIsDown ==
    Settled => \A i \in rows : get_matching_port_row(i) = {} => ~IsEnabled(dbCol[i])
=============================================================================
