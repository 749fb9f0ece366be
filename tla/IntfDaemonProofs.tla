-------------------------- MODULE IntfDaemonProofs --------------------------
(***************************************************************************)
(* Proofs about intfd, for any number of interfaces, ports, lanes and      *)
(* values of their columns.  First IntfReconfig: its invariant is built in *)
(* layers, the replica, the batch of changes, the caches; then what        *)
(* relates them, and the columns of the database to the caches.  Then      *)
(* intfd as a whole: the composition keeps every promise of IntfReconfig,  *)
(* forwarding_state follows the committed enable values, and the committed *)
(* columns behave as IntfForwarding says.                                  *)
(***************************************************************************)
EXTENDS IntfDaemon, IntfOpStateProofs, WellFoundedInduction

-----------------------------------------------------------------------------
(* The replica.                                                            *)

(* Interfaces are in ports only while both rows exist, in one at most; a   *)
(* virtual interface and its port come and go together.                    *)
ReplicaInv ==
    /\ Physical \subseteq rows /\ rows \subseteq Interface
    /\ uc \in [Interface -> AllUserConfigs]
    /\ pm \in [Interface -> PmInfos \cup {NoPm}]
    /\ ports \subseteq PortName /\ padmin \in [PortName -> PortAdmins \cup {"absent"}]
    /\ members \in [PortName -> SUBSET Interface]
    /\ \A p \in PortName : members[p] \subseteq rows
    /\ \A p \in PortName \ ports : members[p] = {}
    /\ \A p, q \in ports : members[p] \cap members[q] # {} => p = q
    /\ \A v \in Virtual : v \in rows <=> v \in ports
    /\ \A v \in Virtual \cap rows : members[v] = {v}
    /\ \A p \in PortName \ Virtual : members[p] \subseteq Physical

LEMMA ReplicaInit == Init => ReplicaInv
  BY ReconfigAssumption DEF Init, ReplicaInv, Virtual, Physical, AllUserConfigs

LEMMA UserConfigWriteReplica == ReplicaInv /\ UserConfigWrite => ReplicaInv'
<1> SUFFICES ASSUME ReplicaInv, UserConfigWrite PROVE ReplicaInv'
  OBVIOUS
<1>1. PICK i \in rows : \E v \in UserConfigs[i] \ {uc[i]} : uc' = [uc EXCEPT ![i] = v]
  BY DEF UserConfigWrite
<1>2. PICK v \in UserConfigs[i] : uc' = [uc EXCEPT ![i] = v]
  BY <1>1
<1>3. i \in Interface /\ v \in AllUserConfigs
  BY <1>1, <1>2 DEF AllUserConfigs, ReplicaInv
<1>4. uc' \in [Interface -> AllUserConfigs]
  BY <1>2, <1>3 DEF ReplicaInv
<1> QED BY <1>4 DEF UserConfigWrite, ReplicaInv

LEMMA PmInfoWriteReplica == ReplicaInv /\ PmInfoWrite => ReplicaInv'
<1> SUFFICES ASSUME ReplicaInv, PmInfoWrite PROVE ReplicaInv'
  OBVIOUS
<1>1. pm' \in [Interface -> PmInfos \cup {NoPm}]
  BY DEF PmInfoWrite, ReplicaInv
<1> QED BY <1>1 DEF PmInfoWrite, ReplicaInv

(* The interfaces a port may be given are in no other port.                *)
LEMMA FreeIsFree ==
    ASSUME ReplicaInv, NEW p \in PortName
    PROVE  /\ Free(p) \subseteq rows /\ (p \notin Virtual => Free(p) \subseteq Physical)
           /\ \A q \in ports \ {p} : Free(p) \cap members[q] = {}
<1>1. /\ Free(p) \subseteq rows
      /\ \A q \in ports \ {p} : Free(p) \cap members[q] = {}
  BY DEF Free, get_matching_port_row, ReplicaInv
<1>2. ASSUME p \notin Virtual, NEW i \in Free(p) PROVE i \in Physical
  <2>1. CASE i \in Virtual
    <3>1. i \in ports /\ members[i] = {i} /\ i # p
      BY <1>1, <1>2, <2>1 DEF ReplicaInv
    <3> QED BY <1>1, <3>1
  <2> QED BY <1>1, <2>1 DEF ReplicaInv, Virtual
<1> QED BY <1>1, <1>2

LEMMA PortMembersWriteReplica == ReplicaInv /\ PortMembersWrite => ReplicaInv'
<1> SUFFICES ASSUME ReplicaInv, PortMembersWrite PROVE ReplicaInv'
  OBVIOUS
<1>1. PICK p, S : /\ p \in ports \ Virtual /\ S \subseteq Free(p)
                  /\ members' = [members EXCEPT ![p] = S]
  BY DEF PortMembersWrite
<1>2. p \in PortName /\ S \subseteq rows /\ S \subseteq Physical /\ \A q \in ports \ {p} : S \cap members[q] = {}
  BY <1>1, FreeIsFree DEF ReplicaInv
<1>3. UNCHANGED <<rows, uc, pm, ports, padmin>>
  BY DEF PortMembersWrite
<1>4. /\ members' \in [PortName -> SUBSET Interface]
      /\ members'[p] = S /\ \A q \in PortName \ {p} : members'[q] = members[q]
  BY <1>1, <1>2 DEF ReplicaInv
<1> QED BY <1>1, <1>2, <1>3, <1>4 DEF ReplicaInv

LEMMA PortInsertReplica == ReplicaInv /\ PortInsert => ReplicaInv'
<1> SUFFICES ASSUME ReplicaInv, PortInsert PROVE ReplicaInv'
  OBVIOUS
<1>1. PICK p, a, S :
         /\ p \in PortName \ (ports \cup Virtual) /\ a \in PortAdmins \cup {"absent"}
         /\ S \subseteq Free(p)
         /\ ports' = ports \cup {p}
         /\ members' = [members EXCEPT ![p] = S]
         /\ padmin' = [padmin EXCEPT ![p] = a]
  BY DEF PortInsert
<1>2. S \subseteq rows /\ S \subseteq Physical /\ \A q \in ports \ {p} : S \cap members[q] = {}
  BY <1>1, FreeIsFree
<1>3. UNCHANGED <<rows, uc, pm>>
  BY DEF PortInsert
<1>4. /\ members' \in [PortName -> SUBSET Interface]
      /\ members'[p] = S /\ \A q \in PortName \ {p} : members'[q] = members[q]
  BY <1>1, <1>2 DEF ReplicaInv
<1>5. padmin' \in [PortName -> PortAdmins \cup {"absent"}]
  BY <1>1 DEF ReplicaInv
<1> QED BY <1>1, <1>2, <1>3, <1>4, <1>5 DEF ReplicaInv

LEMMA RemovePortReplica ==
    ASSUME ReplicaInv, NEW p \in ports, RemovePort(p)
    PROVE  /\ ports' = ports \ {p} /\ ports' \subseteq PortName
           /\ padmin' \in [PortName -> PortAdmins \cup {"absent"}]
           /\ members' \in [PortName -> SUBSET Interface]
           /\ members'[p] = {} /\ \A q \in PortName \ {p} : members'[q] = members[q]
  BY DEF RemovePort, ReplicaInv

LEMMA PortDeleteReplica == ReplicaInv /\ PortDelete => ReplicaInv'
<1> SUFFICES ASSUME ReplicaInv, PortDelete PROVE ReplicaInv'
  OBVIOUS
<1>1. PICK p \in ports \ Virtual : RemovePort(p)
  BY DEF PortDelete
<1>2. UNCHANGED <<rows, uc, pm>>
  BY DEF PortDelete
<1> QED BY <1>1, <1>2, RemovePortReplica DEF ReplicaInv

LEMMA VirtualInsertReplica == ReplicaInv /\ VirtualInsert => ReplicaInv'
<1> SUFFICES ASSUME ReplicaInv, VirtualInsert PROVE ReplicaInv'
  OBVIOUS
<1>1. PICK v \in Virtual \ rows : /\ rows' = rows \cup {v}
                                  /\ ports' = ports \cup {v}
                                  /\ members' = [members EXCEPT ![v] = {v}]
  BY DEF VirtualInsert
<1>2. UNCHANGED <<uc, pm, padmin>>
  BY DEF VirtualInsert
<1>3. v \in Interface /\ v \in PortName /\ v \notin ports
  BY <1>1, ReconfigAssumption DEF ReplicaInv, Virtual
<1>4. /\ members' \in [PortName -> SUBSET Interface]
      /\ members'[v] = {v} /\ \A q \in PortName \ {v} : members'[q] = members[q]
  BY <1>1, <1>3 DEF ReplicaInv
<1> QED BY <1>1, <1>2, <1>3, <1>4 DEF ReplicaInv

LEMMA VirtualDeleteReplica == ReplicaInv /\ VirtualDelete => ReplicaInv'
<1> SUFFICES ASSUME ReplicaInv, VirtualDelete PROVE ReplicaInv'
  OBVIOUS
<1>1. PICK v \in Virtual \cap rows : /\ rows' = rows \ {v}
                                     /\ uc' = [uc EXCEPT ![v] = NoUserConfig]
                                     /\ RemovePort(v)
  BY DEF VirtualDelete
<1>2. pm' = pm
  BY DEF VirtualDelete
<1>3. v \in Interface /\ v \in ports /\ members[v] = {v} /\ v \in PortName
  BY <1>1 DEF ReplicaInv
<1>4. /\ ports' = ports \ {v} /\ ports' \subseteq PortName
      /\ padmin' \in [PortName -> PortAdmins \cup {"absent"}]
      /\ members' \in [PortName -> SUBSET Interface]
      /\ members'[v] = {} /\ \A q \in PortName \ {v} : members'[q] = members[q]
  BY <1>1, <1>3, RemovePortReplica
<1>5. uc' \in [Interface -> AllUserConfigs]
  BY <1>1 DEF ReplicaInv, AllUserConfigs
<1>6. \A q \in PortName \ {v} : v \notin members[q]
  BY <1>3 DEF ReplicaInv
<1> QED BY <1>1, <1>2, <1>3, <1>4, <1>5, <1>6 DEF ReplicaInv, Physical, Virtual

(* A pass and the failures leave the replica alone.                        *)
LEMMA ReplicaStays ==
    Pass \/ CommitFails \/ Restart \/ Reconnect => UNCHANGED replica
  BY DEF Pass, Walks, StartPass, AddPorts, SkipPorts, DeleteOnePort, NoOldPorts, PortStep,
         PortsDone, IntfStep, EndPass, EndPassWith, Commit, CommitFails, Restart, RestartWith,
         Reconnect

LEMMA ReplicaStep == ReplicaInv /\ [Next]_vars => ReplicaInv'
<1> SUFFICES ASSUME ReplicaInv, [Next]_vars PROVE ReplicaInv'
  OBVIOUS
<1>1. CASE UNCHANGED replica
  BY <1>1 DEF replica, ReplicaInv
<1>2. CASE UNCHANGED vars
  BY <1>1, <1>2 DEF vars
<1>3. CASE Pass \/ CommitFails \/ Restart \/ Reconnect
  BY <1>1, <1>3, ReplicaStays
<1>4. CASE StatusWrite
  BY <1>1, <1>4 DEF StatusWrite
<1>5. CASE PortAdminWrite
  <2>1. padmin' \in [PortName -> PortAdmins \cup {"absent"}]
    BY <1>5 DEF PortAdminWrite, ReplicaInv
  <2> QED BY <1>5, <2>1 DEF PortAdminWrite, ReplicaInv
<1> QED BY <1>2, <1>3, <1>4, <1>5, UserConfigWriteReplica, PmInfoWriteReplica,
           PortMembersWriteReplica, PortInsertReplica, PortDeleteReplica,
           VirtualInsertReplica, VirtualDeleteReplica DEF Next, Environment, RowsStay

-----------------------------------------------------------------------------
(* The batch of changes.                                                   *)

(* The change tracking only knows rows that exist; while a batch is being  *)
(* handled nothing moves, and a batch that is not empty is announced.      *)
BatchInv ==
    /\ news \in BOOLEAN /\ insP \in BOOLEAN /\ delP \in BOOLEAN
    /\ insI \subseteq rows /\ modI \subseteq rows /\ modP \subseteq ports
    /\ pc \in {"idle", "ports", "port_mods", "intf_mods", "commit"}
    /\ pc \in {"ports", "port_mods", "intf_mods"} => news /\ allI = rows
    /\ ~news => /\ insI = {} /\ modI = {} /\ modP = {} /\ ~insP /\ ~delP
                /\ allI = rows
    /\ pc \in {"idle", "ports", "commit"} => todo = {}
    /\ pc = "port_mods" => todo \subseteq modP
    /\ pc = "intf_mods" => todo \subseteq insI \cup modI

LEMMA BatchInit == Init => BatchInv
  BY DEF Init, BatchInv

LEMMA BatchEnvironment == ReplicaInv /\ BatchInv /\ Environment => BatchInv'
<1> SUFFICES ASSUME ReplicaInv, BatchInv, Environment PROVE BatchInv'
  OBVIOUS
<1> USE DEF Others, caches, locals, replica
<1>0. pc \in {"idle", "commit"} /\ news' = TRUE /\ UNCHANGED <<caches, pc, locals>>
  BY DEF Environment, RowsStay, UserConfigWrite, PmInfoWrite, StatusWrite, PortAdminWrite,
         PortMembersWrite, PortInsert, PortDelete, VirtualInsert, VirtualDelete
<1>1. CASE UserConfigWrite
  BY <1>0, <1>1 DEF BatchInv, UserConfigWrite
<1>2. CASE PmInfoWrite
  BY <1>0, <1>2 DEF BatchInv, PmInfoWrite
<1>3. CASE StatusWrite
  BY <1>0, <1>3 DEF BatchInv, StatusWrite
<1>4. CASE PortAdminWrite
  BY <1>0, <1>4 DEF BatchInv, PortAdminWrite
<1>5. CASE PortMembersWrite
  BY <1>0, <1>5 DEF BatchInv, PortMembersWrite
<1>6. CASE PortInsert
  BY <1>0, <1>6 DEF BatchInv, PortInsert
<1>7. CASE PortDelete
  BY <1>0, <1>7 DEF BatchInv, PortDelete, RemovePort
<1>8. CASE VirtualInsert
  BY <1>0, <1>8 DEF BatchInv, VirtualInsert
<1>9. CASE VirtualDelete
  BY <1>0, <1>9 DEF BatchInv, VirtualDelete, RemovePort
<1> QED BY <1>1, <1>2, <1>3, <1>4, <1>5, <1>6, <1>7, <1>8, <1>9 DEF Environment, RowsStay

LEMMA BatchStep == ReplicaInv /\ BatchInv /\ [Next]_vars => BatchInv'
<1> SUFFICES ASSUME ReplicaInv, BatchInv, [Next]_vars PROVE BatchInv'
  OBVIOUS
<1> USE DEF replica, caches, locals, tracking
<1>1. CASE UNCHANGED vars
  BY <1>1 DEF BatchInv, vars
<1>2. CASE StartPass
  BY <1>2 DEF BatchInv, StartPass
<1>3. CASE AddPorts \/ SkipPorts \/ DeleteOnePort \/ NoOldPorts
  BY <1>3 DEF BatchInv, AddPorts, SkipPorts, DeleteOnePort, NoOldPorts, WalkPorts
<1>4. CASE PortStep
  BY <1>4 DEF BatchInv, PortStep
<1>5. CASE PortsDone
  BY <1>5 DEF BatchInv, PortsDone
<1>6. CASE IntfStep
  BY <1>6 DEF BatchInv, IntfStep
<1>7. CASE EndPass
  BY <1>7 DEF BatchInv, EndPass, EndPassWith
<1>8. CASE Commit \/ CommitFails
  BY <1>8 DEF BatchInv, Commit, CommitFails
<1>9. CASE Restart
  BY <1>9 DEF BatchInv, Restart, RestartWith
<1>10. CASE Reconnect
  BY <1>10 DEF BatchInv, Reconnect
<1> QED BY <1>1, <1>2, <1>3, <1>4, <1>5, <1>6, <1>7, <1>8, <1>9, <1>10, BatchEnvironment
        DEF Next, Pass, Walks

-----------------------------------------------------------------------------
(* The caches and the columns.                                             *)

IsMap(f) == f = [i \in Interface |-> f[i]]

IfaceOf(x, i) ==
    IsIface(x) /\ x.type = TypeOf[i] /\ x.hw_info = intfd_parse_hw_info(HwOf[i])

(* all_interfaces and all_ports have an entry exactly for what they track. *)
CacheInv ==
    /\ allI \subseteq Interface /\ linked \subseteq allI
    /\ IsMap(cache) /\ IsMap(col) /\ IsMap(dbCol)
    /\ \A i \in Interface : IsColumns(col[i]) /\ IsColumns(dbCol[i])
    /\ \A i \in allI : IfaceOf(cache[i], i)
    /\ \A i \in Interface \ allI : cache[i] = NoIface
    /\ allP \subseteq PortName /\ pmem \in [PortName -> SUBSET Interface]
    /\ \A p \in PortName : pmem[p] # {} => p \in allP
    /\ \A v \in Virtual : pmem[v] \subseteq {v}
    /\ \A p \in PortName \ Virtual : pmem[p] \subseteq Physical

LEMMA NewIfaceIs ==
    ASSUME NEW i \in Interface
    PROVE  IfaceOf(add_new_interface(i), i)
<1>1. IsUserCfg(UserCfgOf(i))
  BY UserCfgIs DEF UserCfgOf
<1>2. IsOpState(NoOpState)
  BY DEF IsOpState, NoOpState
<1>3. port_parse_admin(i) \in {"up", "down"}
  BY DEF port_parse_admin
<1>4. PICK u, o, a : u = UserCfgOf(i) /\ o = NoOpState /\ a = port_parse_admin(i)
  OBVIOUS
<1> QED BY <1>1, <1>2, <1>3, <1>4 DEF add_new_interface, IfaceOf, IsIface

(* The split pointers only lead to lane_split.                             *)
LEMMA FamilyIs ==
    ASSUME NEW i \in Interface, NEW lk, NEW c, NEW d,
           ParentOf[i] # NoParent =>
              c[ParentOf[i]].user_cfg.lane_split = d[ParentOf[i]].user_cfg.lane_split
    PROVE  FamilyOf(c, lk, i) = FamilyOf(d, lk, i)
  BY DEF FamilyOf

LEMMA ParentsArePhysical ==
    ASSUME NEW i \in Interface, ParentOf[i] # NoParent
    PROVE  /\ ParentOf[i] \in Physical /\ i \in Physical
           /\ ParentOf[ParentOf[i]] = NoParent /\ ParentOf[i] # i
  BY ReconfigAssumption DEF Physical, Virtual

(* What set_interface_config does to the caches and the columns.           *)
LEMMA ConfigureAllIs ==
    ASSUME NEW S, NEW off, NEW c, NEW lk, S \subseteq Interface,
           ConfigureAll(S, off, c, lk), \A i \in S : IsIface(c[i])
    PROVE  /\ IsMap(cache') /\ IsMap(col')
           /\ \A i \in Interface \ S : cache'[i] = c[i]
           /\ \A i \in Interface \ (S \cup off) : col'[i] = col[i]
           /\ \A i \in (Interface \cap off) \ S :
                 col'[i] = [col[i] EXCEPT !.hw_intf_config = DisabledConfig]
           /\ \A i \in S : /\ IsIface(cache'[i]) /\ SameConfig(cache'[i], c[i])
                           /\ IsColumns(col'[i])
                           /\ Computed(col'[i], cache'[i], FamilyOf(cache', lk, i))
<1>1. /\ cache' = [i \in Interface |->
            IF i \in S THEN set_interface_config(c[i], FamilyOf(c, lk, i)).intf ELSE c[i]]
      /\ col' = [i \in Interface |->
            CASE i \in S -> set_interface_config(c[i], FamilyOf(c, lk, i)).out
              [] i \in off \ S -> [col[i] EXCEPT !.hw_intf_config = DisabledConfig]
              [] OTHER -> col[i]]
  BY DEF ConfigureAll
<1>2. ASSUME NEW i \in S
      PROVE  /\ IsIface(cache'[i]) /\ SameConfig(cache'[i], c[i]) /\ IsColumns(col'[i])
             /\ Computed(col'[i], cache'[i], FamilyOf(c, lk, i))
  <2>1. PICK x, f, r : x = c[i] /\ f = FamilyOf(c, lk, i) /\ r = set_interface_config(x, f)
    OBVIOUS
  <2>2. IsIface(x) /\ IsIface(r.intf) /\ SameConfig(r.intf, x) /\ IsColumns(r.out)
    BY <2>1, SetInterfaceConfigKeeps
  <2>3. cache'[i] = r.intf /\ col'[i] = r.out
    BY <1>1, <2>1
  <2>4. SameConfig(x, r.intf)
    BY <2>2 DEF SameConfig
  <2>5. Computed(r.out, r.intf, f)
    BY <2>1, <2>2, <2>4 DEF Computed
  <2> QED BY <2>1, <2>2, <2>3, <2>5
<1>3. IsMap(cache') /\ IsMap(col')
  BY <1>1 DEF IsMap
<1>4. /\ \A i \in Interface \ S : cache'[i] = c[i]
      /\ \A i \in Interface \ (S \cup off) : col'[i] = col[i]
      /\ \A i \in (Interface \cap off) \ S :
            col'[i] = [col[i] EXCEPT !.hw_intf_config = DisabledConfig]
  BY <1>1
<1>5. \A i \in Interface : cache'[i].user_cfg = c[i].user_cfg
  BY <1>2, <1>4 DEF SameConfig
<1>6. \A i \in S : FamilyOf(c, lk, i) = FamilyOf(cache', lk, i)
  <2> TAKE i \in S
  <2>1. ParentOf[i] # NoParent => ParentOf[i] \in Interface
    BY ParentsArePhysical DEF Physical
  <2> QED BY <1>5, <2>1, FamilyIs
<1> QED BY <1>2, <1>3, <1>4, <1>6

LEMMA DisabledIs ==
    ASSUME NEW k, IsColumns(k), NEW d, d = [k EXCEPT !.hw_intf_config = DisabledConfig]
    PROVE  IsColumns(d) /\ ~IsEnabled(d)
  BY DEF IsColumns, IsEnabled, DisabledConfig

(* The invariant after a step that configures the interfaces of S.         *)
LEMMA ConfigureAllCache ==
    ASSUME CacheInv, NEW S, NEW off, NEW c, NEW lk, S \subseteq allI,
           ConfigureAll(S, off, c, lk),
           \A i \in allI : IfaceOf(c[i], i),
           \A i \in Interface \ allI : c[i] = NoIface,
           linked' \subseteq allI, UNCHANGED <<allI, dbCol>>
    PROVE  /\ IsMap(cache') /\ IsMap(col') /\ IsMap(dbCol')
           /\ linked' \subseteq allI'
           /\ \A i \in Interface : IsColumns(col'[i]) /\ IsColumns(dbCol'[i])
           /\ \A i \in allI' : IfaceOf(cache'[i], i)
           /\ \A i \in Interface \ allI' : cache'[i] = NoIface
<1>1. S \subseteq Interface /\ \A i \in S : IsIface(c[i])
  BY DEF CacheInv, IfaceOf
<1>2. /\ IsMap(cache') /\ IsMap(col')
      /\ \A i \in Interface \ S : cache'[i] = c[i]
      /\ \A i \in Interface \ (S \cup off) : col'[i] = col[i]
      /\ \A i \in (Interface \cap off) \ S :
            col'[i] = [col[i] EXCEPT !.hw_intf_config = DisabledConfig]
      /\ \A i \in S : /\ IsIface(cache'[i]) /\ SameConfig(cache'[i], c[i])
                      /\ IsColumns(col'[i])
  BY <1>1, ConfigureAllIs
<1>3. \A i \in allI : IfaceOf(cache'[i], i)
  BY <1>2 DEF IfaceOf, SameConfig, CacheInv
<1>4. \A i \in (Interface \cap off) \ S : IsColumns(col'[i])
  BY <1>2, DisabledIs DEF CacheInv
<1> QED BY <1>2, <1>3, <1>4 DEF CacheInv, IsMap

(* A step that leaves the caches and the columns alone.                    *)
LEMMA CacheStays ==
    CacheInv /\ UNCHANGED <<allI, cache, linked, allP, pmem, col, dbCol>> => CacheInv'
  BY DEF CacheInv, IsMap

LEMMA CacheInit == Init => CacheInv
<1> SUFFICES ASSUME Init PROVE CacheInv
  OBVIOUS
<1>1. IsColumns(NoColumns)
  BY DEF IsColumns, NoColumns
<1>2. IsMap(cache) /\ IsMap(col) /\ IsMap(dbCol)
  BY DEF Init, IsMap
<1>3. \A i \in Interface : IsColumns(col[i]) /\ IsColumns(dbCol[i])
  BY <1>1 DEF Init
<1>4. \A i \in Interface : cache[i] = NoIface
  BY DEF Init
<1>5. allI = {} /\ linked = {} /\ allP = {} /\ pmem = [p \in PortName |-> {}]
  BY DEF Init
<1> QED BY <1>2, <1>3, <1>4, <1>5, ReconfigAssumption DEF CacheInv

LEMMA CacheEnvironment == ReplicaInv /\ CacheInv /\ Environment => CacheInv'
<1> SUFFICES ASSUME ReplicaInv, CacheInv, Environment PROVE CacheInv'
  OBVIOUS
<1>1. UNCHANGED <<allI, cache, linked, allP, pmem>>
  BY DEF Environment, RowsStay, UserConfigWrite, PmInfoWrite, StatusWrite, PortAdminWrite,
         PortMembersWrite, PortInsert, PortDelete, VirtualInsert, VirtualDelete, Others, caches
<1>2. CASE RowsStay
  <2>1. UNCHANGED <<col, dbCol>>
    BY <1>2 DEF RowsStay, UserConfigWrite, PmInfoWrite, StatusWrite, PortAdminWrite,
         PortMembersWrite, PortInsert, PortDelete, VirtualInsert
  <2> QED BY <1>1, <2>1, CacheStays
<1>3. CASE VirtualDelete
  <2>1. PICK v : /\ dbCol' = [dbCol EXCEPT ![v] = NoColumns]
                 /\ col' = [col EXCEPT ![v] = NoColumns]
    BY <1>3 DEF VirtualDelete
  <2>2. IsColumns(NoColumns)
    BY DEF IsColumns, NoColumns
  <2>3. \A i \in Interface : IsColumns(col'[i]) /\ IsColumns(dbCol'[i])
    BY <2>1, <2>2 DEF CacheInv, IsMap
  <2> QED BY <1>1, <2>1, <2>3 DEF CacheInv, IsMap
<1> QED BY <1>2, <1>3 DEF Environment

LEMMA StartPassCache == ReplicaInv /\ CacheInv /\ StartPass => CacheInv'
<1> SUFFICES ASSUME ReplicaInv, CacheInv, StartPass PROVE CacheInv'
  OBVIOUS
<1>1. /\ allI' = rows /\ linked' = linked \cap rows
      /\ cache' = [i \in Interface |-> CASE i \in rows \ allI -> add_new_interface(i)
                                          [] i \in rows \cap allI -> cache[i]
                                          [] OTHER -> NoIface]
      /\ UNCHANGED <<dbCol, col, allP, pmem>>
  BY DEF StartPass
<1>2. \A i \in Interface : /\ i \in rows \ allI => cache'[i] = add_new_interface(i)
                           /\ i \in rows \cap allI => cache'[i] = cache[i]
                           /\ i \notin rows => cache'[i] = NoIface
  BY <1>1
<1>3. \A i \in allI' : IfaceOf(cache'[i], i)
  BY <1>1, <1>2, NewIfaceIs DEF ReplicaInv, CacheInv
<1> QED BY <1>1, <1>2, <1>3 DEF CacheInv, ReplicaInv, IsMap

(* The two fields a modified port refreshes.                               *)
LEMMA WithPortIs ==
    ASSUME NEW i, NEW x, IsIface(x), NEW y, y = WithPort(x, i)
    PROVE  /\ IsIface(y) /\ y.type = x.type /\ y.hw_info = x.hw_info /\ y.pm_info = x.pm_info
           /\ y.port_admin = port_parse_admin(i)
           /\ y.user_cfg.lane_split = x.user_cfg.lane_split
           /\ y.user_cfg.admin_state = intf_parse_admin(i)
<1>1. PICK a, b : a = port_parse_admin(i) /\ b = intf_parse_admin(i)
  OBVIOUS
<1>2. a \in {"up", "down"} /\ b \in {"up", "down"}
  BY <1>1 DEF port_parse_admin, intf_parse_admin
<1>3. PICK u : u = [x.user_cfg EXCEPT !.admin_state = b]
  OBVIOUS
<1>4. /\ IsUserCfg(u) /\ u.lane_split = x.user_cfg.lane_split /\ u.admin_state = b
  BY <1>2, <1>3 DEF IsIface, IsUserCfg
<1>5. PICK m : m = [x EXCEPT !.port_admin = a]
  OBVIOUS
<1>6. /\ IsIface(m) /\ m.type = x.type /\ m.hw_info = x.hw_info /\ m.pm_info = x.pm_info
      /\ m.port_admin = a /\ m.user_cfg = x.user_cfg
  BY <1>2, <1>5 DEF IsIface
<1>7. y = [m EXCEPT !.user_cfg = u]
  BY <1>1, <1>3, <1>5, <1>6 DEF WithPort
<1> QED BY <1>1, <1>3, <1>4, <1>6, <1>7 DEF IsIface

LEMMA PortModIs ==
    ASSUME ReplicaInv, CacheInv, allI = rows, NEW p \in ports, PortMod(p)
    PROVE  /\ Kept(p) \subseteq rows /\ Lost(p) \subseteq rows /\ Kept(p) \cap Lost(p) = {}
           /\ IsMap(cache') /\ IsMap(col')
           /\ pmem' = [pmem EXCEPT ![p] = members[p]] /\ rc' = TRUE
           /\ \A i \in Interface \ (Kept(p) \cup Lost(p)) :
                 cache'[i] = cache[i] /\ col'[i] = col[i]
           /\ \A i \in Lost(p) :
                 /\ IsIface(cache'[i]) /\ cache'[i].type = cache[i].type
                 /\ cache'[i].hw_info = cache[i].hw_info /\ cache'[i].pm_info = cache[i].pm_info
                 /\ cache'[i].user_cfg = cache[i].user_cfg /\ cache'[i].port_admin = "down"
                 /\ IsColumns(col'[i]) /\ ~IsEnabled(col'[i])
           /\ \A i \in Kept(p) :
                 /\ IsIface(cache'[i]) /\ SameConfig(cache'[i], WithPort(cache[i], i))
                 /\ cache'[i].type = cache[i].type
                 /\ cache'[i].hw_info = cache[i].hw_info /\ cache'[i].pm_info = cache[i].pm_info
                 /\ cache'[i].user_cfg.lane_split = cache[i].user_cfg.lane_split
                 /\ cache'[i].user_cfg.admin_state = intf_parse_admin(i)
                 /\ cache'[i].port_admin = port_parse_admin(i)
                 /\ IsColumns(col'[i])
                 /\ Computed(col'[i], cache'[i], FamilyOf(cache', linked, i))
<1>1. Kept(p) \subseteq rows /\ Lost(p) \subseteq rows /\ Kept(p) \cap Lost(p) = {}
  <2>1. Kept(p) \subseteq rows /\ Kept(p) \cap Lost(p) = {}
    BY DEF Kept, Lost, Detached, ReplicaInv, get_matching_port_row
  <2>2. Detached(p) \subseteq rows
    <3>1. CASE p \in Virtual
      BY <3>1 DEF Detached, ReplicaInv, CacheInv
    <3>2. CASE p \notin Virtual
      BY <3>2 DEF Detached, ReplicaInv, CacheInv
    <3> QED BY <3>1, <3>2
  <2> QED BY <2>1, <2>2 DEF Lost
<1>2. PICK c : c = Refreshed(p)
  OBVIOUS
<1>3. /\ ConfigureAll(Kept(p), Lost(p), c, linked)
      /\ pmem' = [pmem EXCEPT ![p] = members[p]] /\ rc' = TRUE
  BY <1>2 DEF PortMod
<1>4. \A i \in Interface :
         /\ i \in Kept(p) => c[i] = WithPort(cache[i], i)
         /\ i \in Lost(p) => c[i] = [cache[i] EXCEPT !.port_admin = "down"]
         /\ i \notin Kept(p) \cup Lost(p) => c[i] = cache[i]
  BY <1>1, <1>2 DEF Refreshed
<1>5. \A i \in rows : IsIface(cache[i])
  BY DEF CacheInv, IfaceOf
<1>6. ASSUME NEW i \in rows
      PROVE  /\ IsIface(c[i]) /\ c[i].type = cache[i].type /\ c[i].hw_info = cache[i].hw_info
             /\ c[i].pm_info = cache[i].pm_info
             /\ c[i].user_cfg.lane_split = cache[i].user_cfg.lane_split
             /\ i \in Kept(p) => /\ c[i] = WithPort(cache[i], i)
                                /\ c[i].user_cfg.admin_state = intf_parse_admin(i)
                                /\ c[i].port_admin = port_parse_admin(i)
             /\ i \in Lost(p) => /\ c[i].user_cfg = cache[i].user_cfg
                                /\ c[i].port_admin = "down"
  <2>1. i \in Interface
    BY DEF ReplicaInv
  <2>2. PICK x, y : x = cache[i] /\ y = c[i]
    OBVIOUS
  <2>3. CASE i \in Kept(p)
    <3>1. y = WithPort(x, i) /\ IsIface(x) /\ i \notin Lost(p)
      BY <1>1, <1>4, <1>5, <2>1, <2>2, <2>3
    <3>2. /\ IsIface(y) /\ y.type = x.type /\ y.hw_info = x.hw_info /\ y.pm_info = x.pm_info
          /\ y.port_admin = port_parse_admin(i)
          /\ y.user_cfg.lane_split = x.user_cfg.lane_split
          /\ y.user_cfg.admin_state = intf_parse_admin(i)
      BY <3>1, WithPortIs
    <3> QED BY <2>2, <3>1, <3>2
  <2>4. CASE i \in Lost(p)
    <3>1. y = [x EXCEPT !.port_admin = "down"] /\ i \notin Kept(p)
      BY <1>1, <1>4, <2>1, <2>2, <2>4
    <3>2. IsIface(x)
      BY <1>5, <2>2
    <3>3. /\ IsIface(y) /\ y.user_cfg = x.user_cfg /\ y.type = x.type
          /\ y.hw_info = x.hw_info /\ y.pm_info = x.pm_info /\ y.port_admin = "down"
      BY <3>1, <3>2 DEF IsIface
    <3> QED BY <2>2, <3>1, <3>3
  <2>5. CASE i \notin Kept(p) \cup Lost(p)
    BY <1>4, <1>5, <2>1, <2>5
  <2> QED BY <2>3, <2>4, <2>5
<1>8. /\ IsMap(cache') /\ IsMap(col')
      /\ \A i \in Interface \ Kept(p) : cache'[i] = c[i]
      /\ \A i \in Interface \ (Kept(p) \cup Lost(p)) : col'[i] = col[i]
      /\ \A i \in (Interface \cap Lost(p)) \ Kept(p) :
            col'[i] = [col[i] EXCEPT !.hw_intf_config = DisabledConfig]
      /\ \A i \in Kept(p) : /\ IsIface(cache'[i]) /\ SameConfig(cache'[i], c[i])
                            /\ IsColumns(col'[i])
                            /\ Computed(col'[i], cache'[i], FamilyOf(cache', linked, i))
  <2>1. Kept(p) \subseteq Interface /\ \A i \in Kept(p) : IsIface(c[i])
    BY <1>1, <1>6 DEF ReplicaInv
  <2> QED BY <1>3, <2>1, ConfigureAllIs
<1>9. rows \subseteq Interface
  BY DEF ReplicaInv
<1>10. \A i \in Lost(p) : IsColumns(col'[i]) /\ ~IsEnabled(col'[i])
  BY <1>1, <1>8, <1>9, DisabledIs DEF CacheInv
<1>11. ASSUME NEW i \in Lost(p)
       PROVE  /\ IsIface(cache'[i]) /\ cache'[i].type = cache[i].type
              /\ cache'[i].hw_info = cache[i].hw_info /\ cache'[i].pm_info = cache[i].pm_info
              /\ cache'[i].user_cfg = cache[i].user_cfg /\ cache'[i].port_admin = "down"
  <2>1. i \in rows /\ i \in Interface \ Kept(p)
    BY <1>1, <1>9
  <2>2. cache'[i] = c[i]
    BY <1>8, <2>1
  <2> QED BY <1>6, <2>1, <2>2
<1>12. \A i \in Interface \ (Kept(p) \cup Lost(p)) : cache'[i] = cache[i] /\ col'[i] = col[i]
  BY <1>4, <1>8
<1>13. ASSUME NEW i \in Kept(p)
       PROVE  /\ IsIface(cache'[i]) /\ SameConfig(cache'[i], WithPort(cache[i], i))
              /\ cache'[i].type = cache[i].type
              /\ cache'[i].hw_info = cache[i].hw_info /\ cache'[i].pm_info = cache[i].pm_info
              /\ cache'[i].user_cfg.lane_split = cache[i].user_cfg.lane_split
              /\ cache'[i].user_cfg.admin_state = intf_parse_admin(i)
              /\ cache'[i].port_admin = port_parse_admin(i)
              /\ IsColumns(col'[i])
              /\ Computed(col'[i], cache'[i], FamilyOf(cache', linked, i))
  <2>1. i \in rows /\ i \in Interface
    BY <1>1, <1>9
  <2>2. /\ IsIface(cache'[i]) /\ SameConfig(cache'[i], c[i]) /\ IsColumns(col'[i])
        /\ Computed(col'[i], cache'[i], FamilyOf(cache', linked, i))
    BY <1>8
  <2> QED BY <1>6, <2>1, <2>2 DEF SameConfig
<1> QED BY <1>1, <1>3, <1>8, <1>10, <1>11, <1>12, <1>13

LEMMA WithModuleIs ==
    ASSUME NEW x, IsIface(x), NEW m, NEW y, y = WithModule(x, m)
    PROVE  /\ IsIface(y) /\ y.type = x.type /\ y.hw_info = x.hw_info
           /\ y.user_cfg = x.user_cfg /\ y.port_admin = x.port_admin /\ y.pm_info = m
  BY DEF WithModule, IsIface

LEMMA IntfInsertedIs ==
    ASSUME ReplicaInv, CacheInv, allI = rows, NEW i \in rows, IntfInserted(i)
    PROVE  /\ IsMap(cache') /\ IsMap(col') /\ linked' = linked \cup {i} /\ rc' = TRUE
           /\ UNCHANGED <<split_changed, pm_info_changed>>
           /\ \A k \in Interface \ {i} : cache'[k] = cache[k] /\ col'[k] = col[k]
           /\ IsIface(cache'[i]) /\ cache'[i].type = cache[i].type
           /\ cache'[i].hw_info = cache[i].hw_info /\ cache'[i].user_cfg = cache[i].user_cfg
           /\ cache'[i].port_admin = cache[i].port_admin
           /\ cache'[i].pm_info = IF ParentOf[i] = NoParent THEN cache[i].pm_info ELSE PmOf(i)
           /\ IsColumns(col'[i]) /\ Computed(col'[i], cache'[i], FamilyOf(cache', linked', i))
<1>0. i \in Interface /\ IsIface(cache[i])
  BY DEF ReplicaInv, CacheInv, IfaceOf
<1>1. PICK c : c = [k \in Interface |-> IF k = i /\ ParentOf[i] # NoParent
                                        THEN WithModule(cache[i], PmOf(i)) ELSE cache[k]]
  OBVIOUS
<1>2. /\ linked' = linked \cup {i} /\ ConfigureAll({i}, {}, c, linked')
      /\ rc' = TRUE /\ UNCHANGED <<split_changed, pm_info_changed>>
  BY <1>1 DEF IntfInserted
<1>3. /\ IsIface(c[i]) /\ c[i].type = cache[i].type /\ c[i].hw_info = cache[i].hw_info
      /\ c[i].user_cfg = cache[i].user_cfg /\ c[i].port_admin = cache[i].port_admin
      /\ c[i].pm_info = IF ParentOf[i] = NoParent THEN cache[i].pm_info ELSE PmOf(i)
  <2>1. PICK x, y, m : x = cache[i] /\ y = c[i] /\ m = PmOf(i)
    OBVIOUS
  <2>2. CASE ParentOf[i] = NoParent
    BY <1>0, <1>1, <2>2
  <2>3. CASE ParentOf[i] # NoParent
    <3>1. y = WithModule(x, m) /\ IsIface(x)
      BY <1>0, <1>1, <2>1, <2>3
    <3>2. /\ IsIface(y) /\ y.type = x.type /\ y.hw_info = x.hw_info
          /\ y.user_cfg = x.user_cfg /\ y.port_admin = x.port_admin /\ y.pm_info = m
      BY <3>1, WithModuleIs
    <3> QED BY <2>1, <2>3, <3>2
  <2> QED BY <2>2, <2>3
<1>4. \A k \in Interface \ {i} : c[k] = cache[k]
  BY <1>1
<1>5. PICK lk : lk = linked'
  OBVIOUS
<1>6. /\ IsMap(cache') /\ IsMap(col')
      /\ \A k \in Interface \ {i} : cache'[k] = c[k] /\ col'[k] = col[k]
      /\ IsIface(cache'[i]) /\ SameConfig(cache'[i], c[i]) /\ IsColumns(col'[i])
      /\ Computed(col'[i], cache'[i], FamilyOf(cache', lk, i))
  <2>1. {i} \subseteq Interface /\ \A k \in {i} : IsIface(c[k])
    BY <1>0, <1>3
  <2>2. ConfigureAll({i}, {}, c, lk)
    BY <1>2, <1>5
  <2> QED BY <2>1, <2>2, ConfigureAllIs
<1> QED BY <1>2, <1>3, <1>4, <1>5, <1>6 DEF SameConfig

(* A modified row: the interface takes everything from its row, its        *)
(* children the module if it has changed, and some of them are computed.   *)
LEMMA IntfModifiedIs ==
    ASSUME ReplicaInv, CacheInv, allI = rows, NEW i \in rows, IntfModified(i)
    PROVE  \E cfg_changed, T :
           /\ cfg_changed \in {Differs(cache[i], UserCfgOf(i), PmOf(i)), Spurious(i)}
           /\ Differs(cache[i], UserCfgOf(i), PmOf(i)) => cfg_changed
           /\ T = Targets(i, cfg_changed, SplitChanged(i)) /\ T \subseteq rows
           /\ Children(i) \subseteq rows \ {i}
           /\ rc' = Count(cfg_changed) /\ linked' = linked
           /\ split_changed' = SplitChanged(i) /\ pm_info_changed' = PmChanged(i)
           /\ IsMap(cache') /\ IsMap(col')
           /\ IsIface(cache'[i]) /\ cache'[i].type = cache[i].type
           /\ cache'[i].hw_info = cache[i].hw_info
           /\ cache'[i].user_cfg = UserCfgOf(i) /\ cache'[i].pm_info = PmOf(i)
           /\ cache'[i].port_admin = port_parse_admin(i)
           /\ \A k \in Children(i) :
                 /\ IsIface(cache'[k]) /\ cache'[k].type = cache[k].type
                 /\ cache'[k].hw_info = cache[k].hw_info
                 /\ cache'[k].user_cfg = cache[k].user_cfg
                 /\ cache'[k].port_admin = cache[k].port_admin
                 /\ cache'[k].pm_info = IF PmChanged(i) THEN intfd_parse_split_pm_info(pm[i])
                                                        ELSE cache[k].pm_info
           /\ \A k \in Interface \ ({i} \cup Children(i)) : cache'[k] = cache[k]
           /\ \A k \in Interface \ T : col'[k] = col[k]
           /\ \A k \in T : /\ IsColumns(col'[k])
                           /\ Computed(col'[k], cache'[k], FamilyOf(cache', linked, k))
<1>0. i \in Interface /\ \A k \in rows : IsIface(cache[k])
  BY DEF ReplicaInv, CacheInv, IfaceOf
<1>1. Children(i) \subseteq rows \ {i} /\ PassOn(i) \subseteq Children(i)
  <2>1. ASSUME NEW k \in Children(i) PROVE k \in rows \ {i}
    <3>1. k \in Interface /\ ParentOf[k] = i /\ i # NoParent
      BY <1>0, ReconfigAssumption DEF Children
    <3> QED BY <3>1, ParentsArePhysical DEF ReplicaInv
  <2> QED BY <2>1 DEF PassOn
<1>2. PICK c : c = ModifiedCache(i)
  OBVIOUS
<1>3. PICK cfg_changed \in {Differs(cache[i], UserCfgOf(i), PmOf(i)), Spurious(i)} :
          /\ Differs(cache[i], UserCfgOf(i), PmOf(i)) => cfg_changed
          /\ ConfigureAll(Targets(i, cfg_changed, SplitChanged(i)), {}, c, linked)
          /\ rc' = Count(cfg_changed)
          /\ split_changed' = SplitChanged(i)
          /\ pm_info_changed' = PmChanged(i)
          /\ linked' = linked
  BY <1>2 DEF IntfModified
<1>4. PICK T : T = Targets(i, cfg_changed, SplitChanged(i))
  OBVIOUS
<1>5. T \subseteq rows /\ rows \subseteq Interface
  BY <1>1, <1>4 DEF Targets, ReplicaInv
<1>6. /\ IsIface(c[i]) /\ c[i].type = cache[i].type /\ c[i].hw_info = cache[i].hw_info
      /\ c[i].user_cfg = UserCfgOf(i) /\ c[i].pm_info = PmOf(i)
      /\ c[i].port_admin = port_parse_admin(i)
  <2>1. PICK x, y, u, m, a : /\ x = cache[i] /\ y = c[i] /\ u = UserCfgOf(i) /\ m = PmOf(i)
                             /\ a = port_parse_admin(i)
    OBVIOUS
  <2>2. y = [x EXCEPT !.user_cfg = u, !.pm_info = m, !.port_admin = a]
    BY <1>0, <1>2, <2>1 DEF ModifiedCache
  <2>3. IsIface(x) /\ IsUserCfg(u) /\ a \in {"up", "down"}
    BY <1>0, <2>1, UserCfgIs DEF UserCfgOf, port_parse_admin
  <2>4. /\ IsIface(y) /\ y.type = x.type /\ y.hw_info = x.hw_info
        /\ y.user_cfg = u /\ y.pm_info = m /\ y.port_admin = a
    BY <2>2, <2>3 DEF IsIface
  <2> QED BY <2>1, <2>4
<1>7. ASSUME NEW k \in Children(i)
      PROVE  /\ IsIface(c[k]) /\ c[k].type = cache[k].type /\ c[k].hw_info = cache[k].hw_info
             /\ c[k].user_cfg = cache[k].user_cfg /\ c[k].port_admin = cache[k].port_admin
             /\ c[k].pm_info = IF PmChanged(i) THEN intfd_parse_split_pm_info(pm[i])
                                               ELSE cache[k].pm_info
  <2>1. PICK x, y, m : x = cache[k] /\ y = c[k] /\ m = intfd_parse_split_pm_info(pm[i])
    OBVIOUS
  <2>2. k \in Interface /\ k # i /\ IsIface(x)
    BY <1>0, <1>1, <1>5, <2>1
  <2>3. CASE PmChanged(i)
    <3>1. y = WithModule(x, m)
      BY <1>2, <2>1, <2>2, <2>3 DEF ModifiedCache, PassOn
    <3>2. /\ IsIface(y) /\ y.type = x.type /\ y.hw_info = x.hw_info
          /\ y.user_cfg = x.user_cfg /\ y.port_admin = x.port_admin /\ y.pm_info = m
      BY <2>2, <3>1, WithModuleIs
    <3> QED BY <2>1, <2>3, <3>2
  <2>4. CASE ~PmChanged(i)
    <3>1. y = x
      BY <1>2, <2>1, <2>2, <2>4 DEF ModifiedCache, PassOn
    <3> QED BY <2>1, <2>2, <2>4, <3>1
  <2> QED BY <2>3, <2>4
<1>8. \A k \in Interface \ ({i} \cup Children(i)) : c[k] = cache[k]
  BY <1>1, <1>2 DEF ModifiedCache
<1>9. \A k \in rows : IsIface(c[k])
  BY <1>0, <1>5, <1>6, <1>7, <1>8
<1>10. /\ IsMap(cache') /\ IsMap(col')
       /\ \A k \in Interface \ T : cache'[k] = c[k] /\ col'[k] = col[k]
       /\ \A k \in T : /\ IsIface(cache'[k]) /\ SameConfig(cache'[k], c[k])
                       /\ IsColumns(col'[k])
                       /\ Computed(col'[k], cache'[k], FamilyOf(cache', linked, k))
  <2>1. T \subseteq Interface /\ ConfigureAll(T, {}, c, linked) /\ \A k \in T : IsIface(c[k])
    BY <1>3, <1>4, <1>5, <1>9
  <2> QED BY <2>1, ConfigureAllIs
<1>11. \A k \in rows : IsIface(cache'[k]) /\ SameConfig(cache'[k], c[k])
  BY <1>5, <1>9, <1>10 DEF SameConfig
<1>12. \A k \in Interface \ ({i} \cup Children(i)) : cache'[k] = cache[k]
  BY <1>4, <1>8, <1>10 DEF Targets
<1>13. /\ IsIface(cache'[i]) /\ cache'[i].type = cache[i].type
       /\ cache'[i].hw_info = cache[i].hw_info
       /\ cache'[i].user_cfg = UserCfgOf(i) /\ cache'[i].pm_info = PmOf(i)
       /\ cache'[i].port_admin = port_parse_admin(i)
  BY <1>6, <1>11 DEF SameConfig
<1>14. \A k \in Children(i) :
          /\ IsIface(cache'[k]) /\ cache'[k].type = cache[k].type
          /\ cache'[k].hw_info = cache[k].hw_info
          /\ cache'[k].user_cfg = cache[k].user_cfg
          /\ cache'[k].port_admin = cache[k].port_admin
          /\ cache'[k].pm_info = IF PmChanged(i) THEN intfd_parse_split_pm_info(pm[i])
                                                 ELSE cache[k].pm_info
  BY <1>1, <1>7, <1>11 DEF SameConfig
<1> QED BY <1>1, <1>3, <1>4, <1>5, <1>10, <1>12, <1>13, <1>14

LEMMA AddPortsCache == ReplicaInv /\ CacheInv /\ AddPorts => CacheInv'
<1> SUFFICES ASSUME ReplicaInv, CacheInv, AddPorts PROVE CacheInv'
  OBVIOUS
<1>1. /\ allP' = allP \cup ports
      /\ pmem' = [p \in PortName |-> IF p \in ports \ allP THEN members[p] ELSE pmem[p]]
      /\ UNCHANGED <<dbCol, col, allI, cache, linked>>
  BY DEF AddPorts
<1>2. \A v \in Virtual : v \in PortName /\ members[v] \subseteq {v}
  BY ReconfigAssumption DEF ReplicaInv, Virtual
<1>3. /\ allP' \subseteq PortName /\ pmem' \in [PortName -> SUBSET Interface]
      /\ \A p \in PortName : pmem'[p] # {} => p \in allP'
      /\ \A v \in Virtual : pmem'[v] \subseteq {v}
      /\ \A p \in PortName \ Virtual : pmem'[p] \subseteq Physical
  BY <1>1, <1>2 DEF CacheInv, ReplicaInv
<1> QED BY <1>1, <1>3 DEF CacheInv, IsMap

LEMMA DeleteOnePortCache == ReplicaInv /\ CacheInv /\ DeleteOnePort => CacheInv'
<1> SUFFICES ASSUME ReplicaInv, CacheInv, DeleteOnePort PROVE CacheInv'
  OBVIOUS
<1>1. PICK p \in allP \ ports : del_old_port(p)
  BY DEF DeleteOnePort
<1>2. PICK S : /\ col' = Disabled(col, S)
               /\ allP' = allP \ {p} /\ pmem' = [pmem EXCEPT ![p] = {}]
  BY <1>1 DEF del_old_port
<1>3. UNCHANGED <<dbCol, allI, cache, linked>>
  BY DEF DeleteOnePort
<1>4. IsMap(col') /\ \A i \in Interface : IsColumns(col'[i])
  <2>1. col' = [i \in Interface |-> IF i \in S THEN [col[i] EXCEPT !.hw_intf_config = DisabledConfig]
                                             ELSE col[i]]
    BY <1>2 DEF Disabled
  <2>2. ASSUME NEW i \in Interface PROVE IsColumns(col'[i])
    <3>1. CASE i \in S
      <4>1. col'[i] = [col[i] EXCEPT !.hw_intf_config = DisabledConfig]
        BY <2>1, <3>1
      <4> QED BY <4>1, DisabledIs DEF CacheInv
    <3>2. CASE i \notin S
      BY <2>1, <3>2 DEF CacheInv
    <3> QED BY <3>1, <3>2
  <2> QED BY <2>1, <2>2 DEF IsMap
<1>5. /\ allP' \subseteq PortName /\ pmem' \in [PortName -> SUBSET Interface]
      /\ \A q \in PortName : pmem'[q] \subseteq pmem[q] /\ (q = p => pmem'[q] = {})
  BY <1>1, <1>2 DEF CacheInv
<1>6. /\ \A q \in PortName : pmem'[q] # {} => q \in allP'
      /\ \A v \in Virtual : pmem'[v] \subseteq {v}
      /\ \A q \in PortName \ Virtual : pmem'[q] \subseteq Physical
  BY <1>2, <1>5, ReconfigAssumption DEF CacheInv
<1> QED BY <1>3, <1>4, <1>5, <1>6 DEF CacheInv, IsMap

LEMMA PortModCache ==
    ASSUME ReplicaInv, CacheInv, allI = rows, NEW p \in ports \cap allP, PortMod(p),
           UNCHANGED <<dbCol, allI, linked, allP>>
    PROVE  CacheInv'
<1>1. /\ Kept(p) \subseteq rows /\ Lost(p) \subseteq rows
      /\ IsMap(cache') /\ IsMap(col')
      /\ pmem' = [pmem EXCEPT ![p] = members[p]]
      /\ \A i \in Interface \ (Kept(p) \cup Lost(p)) : cache'[i] = cache[i] /\ col'[i] = col[i]
      /\ \A i \in Lost(p) : /\ IsIface(cache'[i]) /\ cache'[i].type = cache[i].type
                            /\ cache'[i].hw_info = cache[i].hw_info /\ IsColumns(col'[i])
      /\ \A i \in Kept(p) : /\ IsIface(cache'[i]) /\ cache'[i].type = cache[i].type
                            /\ cache'[i].hw_info = cache[i].hw_info /\ IsColumns(col'[i])
  BY PortModIs
<1>2. p \in PortName /\ rows \subseteq Interface
  BY DEF ReplicaInv
<1>3. /\ pmem' \in [PortName -> SUBSET Interface]
      /\ pmem'[p] = members[p] /\ \A q \in PortName \ {p} : pmem'[q] = pmem[q]
  BY <1>1, <1>2 DEF CacheInv, ReplicaInv
<1>4. \A v \in Virtual : v \in PortName /\ members[v] \subseteq {v}
  BY ReconfigAssumption DEF ReplicaInv, Virtual
<1>5. /\ \A q \in PortName : pmem'[q] # {} => q \in allP
      /\ \A v \in Virtual : pmem'[v] \subseteq {v}
      /\ \A q \in PortName \ Virtual : pmem'[q] \subseteq Physical
  BY <1>3, <1>4 DEF CacheInv, ReplicaInv
<1>6. \A i \in Interface : IsColumns(col'[i])
  BY <1>1 DEF CacheInv
<1>7. \A i \in allI : IfaceOf(cache'[i], i)
  BY <1>1, <1>2 DEF CacheInv, IfaceOf
<1>8. \A i \in Interface \ allI : cache'[i] = NoIface
  BY <1>1 DEF CacheInv
<1> QED BY <1>1, <1>3, <1>5, <1>6, <1>7, <1>8 DEF CacheInv, IsMap

LEMMA PortStepCache == ReplicaInv /\ BatchInv /\ CacheInv /\ PortStep => CacheInv'
<1> SUFFICES ASSUME ReplicaInv, BatchInv, CacheInv, PortStep PROVE CacheInv'
  OBVIOUS
<1>1. PICK p \in todo : IF p \in allP THEN PortMod(p) ELSE UNCHANGED <<cache, col, rc, pmem>>
  BY DEF PortStep
<1>2. UNCHANGED <<dbCol, allI, linked, allP>> /\ p \in ports /\ allI = rows
  BY DEF PortStep, BatchInv
<1>3. CASE p \in allP
  BY <1>1, <1>2, <1>3, PortModCache
<1>4. CASE p \notin allP
  BY <1>1, <1>2, <1>4, CacheStays
<1> QED BY <1>3, <1>4

LEMMA IntfStepCache == ReplicaInv /\ BatchInv /\ CacheInv /\ IntfStep => CacheInv'
<1> SUFFICES ASSUME ReplicaInv, BatchInv, CacheInv, IntfStep PROVE CacheInv'
  OBVIOUS
<1>1. PICK i \in todo : IF i \in insI THEN IntfInserted(i) ELSE IntfModified(i)
  BY DEF IntfStep
<1>2. /\ UNCHANGED <<dbCol, allI, allP, pmem>> /\ i \in rows /\ allI = rows
      /\ rows \subseteq Interface
  BY DEF IntfStep, BatchInv, ReplicaInv
<1>3. CASE i \in insI
  <2>1. /\ IsMap(cache') /\ IsMap(col') /\ linked' = linked \cup {i}
        /\ \A k \in Interface \ {i} : cache'[k] = cache[k] /\ col'[k] = col[k]
        /\ IsIface(cache'[i]) /\ cache'[i].type = cache[i].type
        /\ cache'[i].hw_info = cache[i].hw_info /\ IsColumns(col'[i])
    BY <1>1, <1>2, <1>3, IntfInsertedIs
  <2>2. \A k \in allI : IfaceOf(cache'[k], k)
    BY <1>2, <2>1 DEF CacheInv, IfaceOf
  <2>3. /\ \A k \in Interface : IsColumns(col'[k])
        /\ \A k \in Interface \ allI : cache'[k] = NoIface
        /\ linked' \subseteq allI
    BY <1>2, <2>1 DEF CacheInv
  <2> QED BY <1>2, <2>1, <2>2, <2>3 DEF CacheInv, IsMap
<1>4. CASE i \notin insI
  <2>1. PICK T : /\ T \subseteq rows /\ Children(i) \subseteq rows /\ linked' = linked
                 /\ IsMap(cache') /\ IsMap(col')
                 /\ IsIface(cache'[i]) /\ cache'[i].type = cache[i].type
                 /\ cache'[i].hw_info = cache[i].hw_info
                 /\ \A k \in Children(i) : /\ IsIface(cache'[k]) /\ cache'[k].type = cache[k].type
                                           /\ cache'[k].hw_info = cache[k].hw_info
                 /\ \A k \in Interface \ ({i} \cup Children(i)) : cache'[k] = cache[k]
                 /\ \A k \in Interface \ T : col'[k] = col[k]
                 /\ \A k \in T : IsColumns(col'[k])
    BY <1>1, <1>2, <1>4, IntfModifiedIs
  <2>2. \A k \in allI : IfaceOf(cache'[k], k)
    BY <1>2, <2>1 DEF CacheInv, IfaceOf
  <2>3. /\ \A k \in Interface : IsColumns(col'[k])
        /\ \A k \in Interface \ allI : cache'[k] = NoIface
    BY <1>2, <2>1 DEF CacheInv
  <2> QED BY <1>2, <2>1, <2>2, <2>3 DEF CacheInv, IsMap
<1> QED BY <1>3, <1>4

LEMMA RestartCache == CacheInv /\ Restart => CacheInv'
<1> SUFFICES ASSUME CacheInv, Restart PROVE CacheInv'
  OBVIOUS
<1>1. /\ allI' = {} /\ cache' = [i \in Interface |-> NoIface] /\ linked' = {}
      /\ allP' = {} /\ pmem' = [p \in PortName |-> {}]
      /\ dbCol' \in {col, dbCol} /\ col' = dbCol'
  BY DEF Restart, RestartWith
<1>2. IsMap(cache') /\ \A i \in Interface : cache'[i] = NoIface
  BY <1>1 DEF IsMap
<1>3. IsMap(col') /\ IsMap(dbCol') /\ \A i \in Interface : IsColumns(col'[i]) /\ IsColumns(dbCol'[i])
  BY <1>1 DEF CacheInv, IsMap
<1> QED BY <1>1, <1>2, <1>3, ReconfigAssumption DEF CacheInv

LEMMA CacheStep == ReplicaInv /\ BatchInv /\ CacheInv /\ [Next]_vars => CacheInv'
<1> SUFFICES ASSUME ReplicaInv, BatchInv, CacheInv, [Next]_vars PROVE CacheInv'
  OBVIOUS
<1>1. CASE UNCHANGED vars
  BY <1>1, CacheStays DEF vars, caches
<1>2. CASE SkipPorts \/ NoOldPorts \/ PortsDone
  BY <1>2, CacheStays DEF SkipPorts, NoOldPorts, PortsDone, caches
<1>3. CASE EndPass \/ Commit \/ CommitFails \/ Reconnect
  <2>1. /\ UNCHANGED <<allI, cache, linked, allP, pmem>>
        /\ dbCol' \in {col, dbCol} /\ col' \in {col, dbCol}
    BY <1>3 DEF EndPass, EndPassWith, Commit, CommitFails, Reconnect, caches
  <2> QED BY <2>1 DEF CacheInv, IsMap
<1> QED BY <1>1, <1>2, <1>3, CacheEnvironment, StartPassCache, AddPortsCache, DeleteOnePortCache,
           PortStepCache, IntfStepCache, RestartCache DEF Next, Pass, Walks

LocalInv ==
    /\ split_changed \in BOOLEAN /\ pm_info_changed \in BOOLEAN /\ rc \in BOOLEAN
    /\ reborn \subseteq allI /\ unheard \subseteq PortName
    /\ failures \in Nat /\ restarts \in Nat /\ failures + restarts <= MaxFaults

LEMMA LocalStays ==
    LocalInv /\ UNCHANGED <<allI, split_changed, pm_info_changed, rc, history, bounds>> => LocalInv'
  BY DEF LocalInv, history, bounds

LEMMA LocalStep == ReplicaInv /\ BatchInv /\ CacheInv /\ LocalInv /\ [Next]_vars => LocalInv'
<1> SUFFICES ASSUME ReplicaInv, BatchInv, CacheInv, LocalInv, [Next]_vars PROVE LocalInv'
  OBVIOUS
<1>1. CASE UNCHANGED vars
  BY <1>1, LocalStays DEF vars, caches, locals
<1>2. CASE Environment
  BY <1>2, LocalStays DEF Environment, RowsStay, UserConfigWrite, PmInfoWrite, StatusWrite,
         PortAdminWrite, PortMembersWrite, PortInsert, PortDelete, VirtualInsert, VirtualDelete,
         Others, caches, locals
<1>3. CASE SkipPorts \/ NoOldPorts \/ PortsDone \/ EndPass \/ Commit
  BY <1>3, LocalStays DEF SkipPorts, NoOldPorts, PortsDone, EndPass, EndPassWith, Commit, caches,
         locals
<1>4. CASE StartPass
  BY <1>4 DEF StartPass, LocalInv, BatchInv, ReplicaInv, bounds
<1>5. CASE AddPorts
  BY <1>5 DEF AddPorts, LocalInv, history, bounds
<1>6. CASE DeleteOnePort
  BY <1>6 DEF DeleteOnePort, LocalInv, history, bounds
<1>7. CASE PortStep
  BY <1>7 DEF PortStep, PortMod, LocalInv, bounds
<1>8. CASE IntfStep
  <2>1. /\ UNCHANGED <<allI, unheard, bounds>> /\ reborn' \subseteq reborn
        /\ \E i \in todo : IF i \in insI THEN IntfInserted(i) ELSE IntfModified(i)
    BY <1>8 DEF IntfStep
  <2>2. ASSUME NEW i, IntfInserted(i) PROVE LocalInv'
    BY <2>1, <2>2 DEF IntfInserted, LocalInv, bounds
  <2>3. ASSUME NEW i, IntfModified(i) PROVE LocalInv'
    <3>1. PICK cfg \in {Differs(cache[i], UserCfgOf(i), PmOf(i)), Spurious(i)} :
             rc' = Count(cfg) /\ split_changed' = SplitChanged(i) /\ pm_info_changed' = PmChanged(i)
      BY <2>3 DEF IntfModified
    <3>2. rc' \in BOOLEAN
      BY <3>1 DEF Count, Differs, Spurious
    <3>3. split_changed' \in BOOLEAN /\ pm_info_changed' \in BOOLEAN
      BY <3>1 DEF SplitChanged, PmChanged
    <3> QED BY <2>1, <3>2, <3>3 DEF LocalInv, bounds
  <2> QED BY <2>1, <2>2, <2>3
<1>9. CASE CommitFails
  BY <1>9, ReconfigAssumption DEF CommitFails, LocalInv, locals, history, caches
<1>10. CASE Restart
  <2>1. /\ failures + restarts < MaxFaults /\ restarts' = restarts + 1 /\ failures' = failures
        /\ reborn' = {} /\ unheard' = {}
    BY <1>10 DEF Restart, RestartWith
  <2>2. split_changed' \in BOOLEAN /\ pm_info_changed' \in BOOLEAN /\ rc' \in BOOLEAN
    BY <1>10 DEF Restart, RestartWith
  <2>3. MaxFaults \in Nat
    BY ReconfigAssumption
  <2> QED BY <2>1, <2>2, <2>3 DEF LocalInv
<1>11. CASE Reconnect
  <2>1. /\ failures + restarts < MaxFaults /\ restarts' = restarts + 1 /\ failures' = failures
        /\ reborn' = reborn \cup (modI \cap allI)
        /\ UNCHANGED <<allI, unheard, split_changed, pm_info_changed, rc>>
    BY <1>11 DEF Reconnect, locals, caches
  <2>2. MaxFaults \in Nat
    BY ReconfigAssumption
  <2> QED BY <2>1, <2>2 DEF LocalInv
<1> QED BY <1>1, <1>2, <1>3, <1>4, <1>5, <1>6, <1>7, <1>8, <1>9, <1>10, <1>11
        DEF Next, Pass, Walks

(* The shape of every reachable state.                                     *)
TypeInv == ReplicaInv /\ BatchInv /\ CacheInv /\ LocalInv

LEMMA TypeInit == Init => TypeInv
<1>1. Init => LocalInv
  <2> SUFFICES ASSUME Init PROVE LocalInv
    OBVIOUS
  <2>1. split_changed \in BOOLEAN /\ pm_info_changed \in BOOLEAN /\ rc \in BOOLEAN
    BY DEF Init
  <2>2. reborn = {} /\ unheard = {} /\ failures = 0 /\ restarts = 0
    BY DEF Init
  <2>3. MaxFaults \in Nat
    BY ReconfigAssumption
  <2> QED BY <2>1, <2>2, <2>3 DEF LocalInv
<1> QED BY <1>1, ReplicaInit, BatchInit, CacheInit DEF TypeInv

LEMMA TypeStep == TypeInv /\ [Next]_vars => TypeInv'
  BY ReplicaStep, BatchStep, CacheStep, LocalStep DEF TypeInv

LEMMA TypeInvariant == Spec => []TypeInv
  BY TypeInit, TypeStep, PTL DEF Spec

(* The variables keep their types, an interface is in at most one port,    *)
(* the batch only names rows that exist, and the caches hold an entry      *)
(* exactly for what they track.                                            *)
THEOREM TypeCorrect == Spec => []TypeOK
<1>1. TypeInv => TypeOK
  <2> SUFFICES ASSUME TypeInv PROVE TypeOK
    OBVIOUS
  <2>1. \A i \in Interface : cache[i] = NoIface <=> i \notin allI
    <3>1. ASSUME NEW i \in allI PROVE cache[i] # NoIface
      <4>1. PICK x : x = cache[i]
        OBVIOUS
      <4>2. x = [type |-> x.type, hw_info |-> x.hw_info, user_cfg |-> x.user_cfg,
                 pm_info |-> x.pm_info, port_admin |-> x.port_admin, op_state |-> x.op_state]
        BY <4>1 DEF TypeInv, CacheInv, IfaceOf, IsIface
      <4>3. "hw_info" \in DOMAIN x /\ "hw_info" \notin DOMAIN NoIface
        BY <4>2 DEF NoIface
      <4> QED BY <4>1, <4>3
    <3> QED BY <3>1 DEF TypeInv, CacheInv
  <2> QED BY <2>1 DEF TypeInv, ReplicaInv, BatchInv, CacheInv, LocalInv, TypeOK
<1> QED BY <1>1, TypeInvariant, PTL

-----------------------------------------------------------------------------
(* What the cache holds of a row.                                          *)

Fresh(i) ==
    /\ cache[i].user_cfg = UserCfgOf(i)
    /\ ParentOf[i] = NoParent => cache[i].pm_info = PmOf(i)

(* The change that makes a cached row out of date is still to be handled.  *)
Pending(i) ==
    CASE pc \in {"idle", "commit"} -> i \in modI \/ i \in insI \cap Virtual
      [] pc \in {"ports", "port_mods"} -> i \in modI \ insI
      [] pc = "intf_mods" -> i \in todo /\ i \in modI \ insI

TracksInv == \A i \in (rows \cap allI) \ reborn : Fresh(i) \/ Pending(i)

LEMMA WithPortSame ==
    ASSUME NEW i, NEW x, IsIface(x), x.user_cfg.admin_state = intf_parse_admin(i)
    PROVE  WithPort(x, i).user_cfg = x.user_cfg
<1>1. PICK a, b : a = port_parse_admin(i) /\ b = intf_parse_admin(i)
  OBVIOUS
<1>2. PICK u : u = [x.user_cfg EXCEPT !.admin_state = b]
  OBVIOUS
<1>3. u = x.user_cfg
  BY <1>1, <1>2 DEF IsIface, IsUserCfg
<1>4. PICK m : m = [x EXCEPT !.port_admin = a]
  OBVIOUS
<1>5. m.user_cfg = x.user_cfg /\ "user_cfg" \in DOMAIN m
  BY <1>4 DEF IsIface
<1>6. WithPort(x, i) = [m EXCEPT !.user_cfg = u]
  BY <1>1, <1>2, <1>4, <1>5 DEF WithPort
<1> QED BY <1>3, <1>5, <1>6

(* What a change by another client may do to the rows: it takes none but   *)
(* virtual ones away, and whatever it changes of a row is in the batch.    *)
LEMMA EnvironmentIs ==
    ASSUME TypeInv, Environment
    PROVE  /\ pc \in {"idle", "commit"} /\ news' = TRUE
           /\ UNCHANGED <<caches, pc, locals, history, bounds>>
           /\ \A i \in rows' : \/ i \in rows
                               \/ i \in Virtual \cap insI'
           /\ \A i \in rows \cap rows' :
                 /\ i \in insI <=> i \in insI'
                 /\ i \in modI => i \in modI'
                 /\ dbCol'[i] = dbCol[i] /\ col'[i] = col[i]
                 /\ i \in modI' \/ (uc'[i] = uc[i] /\ pm'[i] = pm[i])
           /\ col = dbCol => col' = dbCol'
<1>1. /\ pc \in {"idle", "commit"} /\ news' = TRUE
      /\ UNCHANGED <<caches, pc, locals, history, bounds>>
  BY DEF Environment, RowsStay, UserConfigWrite, PmInfoWrite, StatusWrite, PortAdminWrite,
         PortMembersWrite, PortInsert, PortDelete, VirtualInsert, VirtualDelete, Others
<1>2. rows \subseteq Interface /\ uc \in [Interface -> AllUserConfigs]
      /\ pm \in [Interface -> PmInfos \cup {NoPm}] /\ IsMap(col) /\ IsMap(dbCol)
  BY DEF TypeInv, ReplicaInv, CacheInv
<1>3. CASE UserConfigWrite
  <2>1. PICK i, v : i \in rows /\ uc' = [uc EXCEPT ![i] = v] /\ modI' = modI \cup {i}
    BY <1>3 DEF UserConfigWrite
  <2>2. UNCHANGED <<rows, pm, insI, col, dbCol>>
    BY <1>3 DEF UserConfigWrite
  <2> QED BY <1>1, <1>2, <2>1, <2>2
<1>4. CASE PmInfoWrite
  <2>1. PICK i, v : i \in rows /\ pm' = [pm EXCEPT ![i] = v] /\ modI' = modI \cup {i}
    BY <1>4 DEF PmInfoWrite
  <2>2. UNCHANGED <<rows, uc, insI, col, dbCol>>
    BY <1>4 DEF PmInfoWrite
  <2> QED BY <1>1, <1>2, <2>1, <2>2
<1>5. CASE StatusWrite
  <2>1. UNCHANGED <<rows, uc, pm, insI, col, dbCol>> /\ modI \subseteq modI'
    BY <1>5 DEF StatusWrite, replica
  <2> QED BY <1>1, <2>1
<1>6. CASE PortAdminWrite \/ PortMembersWrite \/ PortInsert \/ PortDelete
  <2>1. UNCHANGED <<rows, uc, pm, insI, modI, col, dbCol>>
    BY <1>6 DEF PortAdminWrite, PortMembersWrite, PortInsert, PortDelete
  <2> QED BY <1>1, <2>1
<1>7. CASE VirtualInsert
  <2>1. PICK v \in Virtual \ rows : rows' = rows \cup {v} /\ insI' = insI \cup {v}
    BY <1>7 DEF VirtualInsert
  <2>2. UNCHANGED <<uc, pm, modI, col, dbCol>>
    BY <1>7 DEF VirtualInsert
  <2> QED BY <1>1, <2>1, <2>2
<1>8. CASE VirtualDelete
  <2>1. PICK v \in Virtual \cap rows :
           /\ rows' = rows \ {v} /\ insI' = insI \ {v} /\ modI' = modI \ {v}
           /\ uc' = [uc EXCEPT ![v] = NoUserConfig]
           /\ dbCol' = [dbCol EXCEPT ![v] = NoColumns]
           /\ col' = [col EXCEPT ![v] = NoColumns]
    BY <1>8 DEF VirtualDelete
  <2>2. pm' = pm
    BY <1>8 DEF VirtualDelete
  <2>3. \A i \in rows' : i \in Interface /\ i # v /\ i \in rows
    BY <1>2, <2>1
  <2>4. \A i \in rows' : dbCol'[i] = dbCol[i] /\ col'[i] = col[i]
    BY <1>2, <2>1, <2>3 DEF IsMap
  <2>5. \A i \in rows' : uc'[i] = uc[i]
    BY <1>2, <2>1, <2>3
  <2> QED BY <1>1, <2>1, <2>2, <2>3, <2>4, <2>5
<1> QED BY <1>3, <1>4, <1>5, <1>6, <1>7, <1>8 DEF Environment, RowsStay

(* What is read of a row only depends on its columns.                      *)
LEMMA RowReads ==
    ASSUME NEW i
    PROVE  /\ uc'[i] = uc[i] => UserCfgOf(i)' = UserCfgOf(i)
           /\ uc'[i] = uc[i] => intf_parse_admin(i)' = intf_parse_admin(i)
           /\ ParentOf[i] = NoParent /\ pm'[i] = pm[i] => PmOf(i)' = PmOf(i)
  BY DEF UserCfgOf, intf_parse_admin, PmOf

LEMMA TracksEnvironment == TypeInv /\ TracksInv /\ Environment => TracksInv'
<1> SUFFICES ASSUME TypeInv, TracksInv, Environment,
                    NEW i \in ((rows \cap allI) \ reborn)'
             PROVE  (Fresh(i) \/ Pending(i))'
  BY DEF TracksInv
<1>1. /\ pc \in {"idle", "commit"} /\ pc' = pc
      /\ i \in allI /\ i \notin reborn /\ cache' = cache
      /\ i \in rows \/ i \in Virtual \cap insI'
      /\ i \in rows => /\ i \in insI <=> i \in insI'
                       /\ i \in modI => i \in modI'
                       /\ i \in modI' \/ (uc'[i] = uc[i] /\ pm'[i] = pm[i])
  BY EnvironmentIs DEF caches, history
<1>2. CASE i \in modI' \/ i \in Virtual \cap insI'
  BY <1>1, <1>2 DEF Pending
<1>3. CASE i \in rows /\ i \notin modI' /\ i \notin Virtual \cap insI'
  <2>1. Fresh(i)
    BY <1>1, <1>3 DEF TracksInv, Pending
  <2> QED BY <1>1, <1>3, <2>1, RowReads DEF Fresh
<1> QED BY <1>1, <1>2, <1>3

(* During a pass the rows stand still.                                     *)
LEMMA RowsStill ==
    ASSUME UNCHANGED <<rows, uc, pm>>
    PROVE  \A i : /\ UserCfgOf(i)' = UserCfgOf(i) /\ PmOf(i)' = PmOf(i)
                  /\ intf_parse_admin(i)' = intf_parse_admin(i)
  BY DEF UserCfgOf, PmOf, intf_parse_admin

LEMMA StartPassTracks == TypeInv /\ TracksInv /\ StartPass => TracksInv'
<1> SUFFICES ASSUME TypeInv, TracksInv, StartPass,
                    NEW i \in ((rows \cap allI) \ reborn)'
             PROVE  (Fresh(i) \/ Pending(i))'
  BY DEF TracksInv
<1>1. /\ pc = "idle" /\ pc' = "ports" /\ allI' = rows /\ UNCHANGED <<rows, uc, pm, insI, modI>>
      /\ reborn' = (reborn \cup (insI \cap allI \cap (modI \cup Virtual))) \cap rows
      /\ cache' = [k \in Interface |-> CASE k \in rows \ allI -> add_new_interface(k)
                                          [] k \in rows \cap allI -> cache[k]
                                          [] OTHER -> NoIface]
  BY DEF StartPass, replica, tracking
<1>2. i \in rows /\ i \in Interface
  BY <1>1 DEF TypeInv, ReplicaInv
<1>3. CASE i \notin allI
  <2>1. cache'[i] = add_new_interface(i)
    BY <1>1, <1>2, <1>3
  <2>2. Fresh(i)'
    BY <1>1, <2>1, RowsStill DEF Fresh, add_new_interface, PmOf
  <2> QED BY <2>2
<1>4. CASE i \in allI
  <2>1. cache'[i] = cache[i]
    BY <1>1, <1>2, <1>4
  <2>2. Fresh(i) => Fresh(i)'
    BY <1>1, <2>1, RowsStill DEF Fresh
  <2> QED BY <1>1, <1>2, <1>4, <2>2 DEF TracksInv, Pending
<1> QED BY <1>3, <1>4

LEMMA PortStepTracks == TypeInv /\ TracksInv /\ PortStep => TracksInv'
<1> SUFFICES ASSUME TypeInv, TracksInv, PortStep,
                    NEW i \in ((rows \cap allI) \ reborn)'
             PROVE  (Fresh(i) \/ Pending(i))'
  BY DEF TracksInv
<1>1. /\ pc = "port_mods" /\ UNCHANGED <<rows, uc, pm, insI, modI, pc, allI, reborn>>
      /\ allI = rows /\ rows \subseteq Interface
  BY DEF PortStep, replica, tracking, TypeInv, BatchInv, ReplicaInv
<1>2. PICK p \in ports : IF p \in allP THEN PortMod(p) ELSE UNCHANGED <<cache, col, rc, pmem>>
  BY DEF PortStep, TypeInv, BatchInv
<1>3. Pending(i) => Pending(i)'
  BY <1>1 DEF Pending
<1>4. Fresh(i) => Fresh(i)'
  <2> SUFFICES ASSUME Fresh(i)
               PROVE  cache'[i].user_cfg = cache[i].user_cfg /\ cache'[i].pm_info = cache[i].pm_info
    BY <1>1, RowsStill DEF Fresh
  <2>1. CASE p \in allP
    <3>1. CASE i \in Kept(p)
      <4>1. /\ SameConfig(cache'[i], WithPort(cache[i], i))
            /\ cache'[i].pm_info = cache[i].pm_info
        BY <1>1, <1>2, <2>1, <3>1, PortModIs DEF TypeInv
      <4>2. cache[i].user_cfg.admin_state = intf_parse_admin(i)
        BY DEF Fresh, UserCfgOf, intfd_parse_user_cfg, intf_parse_admin
      <4>3. IsIface(cache[i])
        BY <1>1 DEF TypeInv, CacheInv, IfaceOf
      <4>4. WithPort(cache[i], i).user_cfg = cache[i].user_cfg
        BY <4>2, <4>3, WithPortSame
      <4> QED BY <4>1, <4>4 DEF SameConfig
    <3>2. CASE i \in Lost(p)
      BY <1>1, <1>2, <2>1, <3>2, PortModIs DEF TypeInv
    <3>3. CASE i \notin Kept(p) \cup Lost(p)
      BY <1>1, <1>2, <2>1, <3>3, PortModIs DEF TypeInv
    <3> QED BY <3>1, <3>2, <3>3
  <2>2. CASE p \notin allP
    BY <1>2, <2>2
  <2> QED BY <2>1, <2>2
<1> QED BY <1>1, <1>3, <1>4 DEF TracksInv

LEMMA IntfStepTracks == TypeInv /\ TracksInv /\ IntfStep => TracksInv'
<1> SUFFICES ASSUME TypeInv, TracksInv, IntfStep,
                    NEW i \in ((rows \cap allI) \ reborn)'
             PROVE  (Fresh(i) \/ Pending(i))'
  BY DEF TracksInv
<1>1. /\ pc = "intf_mods" /\ UNCHANGED <<rows, uc, pm, insI, modI, pc, allI>>
      /\ allI = rows /\ rows \subseteq Interface /\ i \in rows
  BY DEF IntfStep, replica, tracking, TypeInv, BatchInv, ReplicaInv
<1>2. PICK j \in todo : /\ todo' = todo \ {j}
                        /\ IF j \in insI THEN IntfInserted(j) ELSE IntfModified(j)
                        /\ reborn' = IF j \in insI THEN reborn ELSE reborn \ {j}
  BY DEF IntfStep
<1>3. j \in rows
  BY <1>1, <1>2 DEF TypeInv, BatchInv
<1>4. CASE j \in insI
  <2>1. Fresh(i) \/ Pending(i)
    BY <1>1, <1>2, <1>4 DEF TracksInv
  <2>2. Pending(i) => Pending(i)'
    BY <1>1, <1>2, <1>4 DEF Pending
  <2>3. Fresh(i) => Fresh(i)'
    <3>1. /\ \A k \in Interface \ {j} : cache'[k] = cache[k]
          /\ cache'[j].user_cfg = cache[j].user_cfg
          /\ cache'[j].pm_info = IF ParentOf[j] = NoParent THEN cache[j].pm_info ELSE PmOf(j)
      BY <1>1, <1>2, <1>3, <1>4, IntfInsertedIs DEF TypeInv
    <3> QED BY <1>1, <3>1, RowsStill DEF Fresh
  <2> QED BY <2>1, <2>2, <2>3
<1>5. CASE j \notin insI
  <2>1. /\ cache'[j].user_cfg = UserCfgOf(j) /\ cache'[j].pm_info = PmOf(j)
        /\ \A k \in Children(j) : cache'[k].user_cfg = cache[k].user_cfg
        /\ \A k \in Interface \ ({j} \cup Children(j)) : cache'[k] = cache[k]
    BY <1>1, <1>2, <1>3, <1>5, IntfModifiedIs DEF TypeInv
  <2>2. CASE i = j
    BY <1>1, <2>1, <2>2, RowsStill DEF Fresh
  <2>3. CASE i # j
    <3>1. Fresh(i) \/ Pending(i)
      BY <1>1, <1>2, <2>3 DEF TracksInv
    <3>2. Pending(i) => Pending(i)'
      BY <1>1, <1>2, <2>3 DEF Pending
    <3>3. i \in Children(j) => ParentOf[i] # NoParent
      BY <1>3, ReconfigAssumption DEF Children, TypeInv, ReplicaInv
    <3>4. Fresh(i) => Fresh(i)'
      BY <1>1, <2>1, <2>3, <3>3, RowsStill DEF Fresh
    <3> QED BY <3>1, <3>2, <3>4
  <2> QED BY <2>2, <2>3
<1> QED BY <1>4, <1>5

LEMMA TracksStep == TypeInv /\ TracksInv /\ [Next]_vars => TracksInv'
<1> SUFFICES ASSUME TypeInv, TracksInv, [Next]_vars PROVE TracksInv'
  OBVIOUS
<1> DEFINE Still == UNCHANGED <<rows, uc, pm, allI, cache>>
<1>1. Still => \A i : Fresh(i)' <=> Fresh(i)
  BY RowsStill DEF Fresh
<1> HIDE DEF Still
<1>2. CASE UNCHANGED vars
  <2>1. Still /\ UNCHANGED <<rows, allI, reborn>> /\ \A i : Pending(i)' <=> Pending(i)
    BY <1>2 DEF Still, vars, replica, tracking, caches, locals, history, Pending
  <2> QED BY <1>1, <2>1 DEF TracksInv
<1>3. CASE AddPorts \/ SkipPorts \/ DeleteOnePort \/ NoOldPorts \/ PortsDone
  <2>1. Still /\ UNCHANGED <<rows, allI, reborn>> /\ \A i : Pending(i) => Pending(i)'
    BY <1>3 DEF Still, AddPorts, SkipPorts, DeleteOnePort, NoOldPorts, PortsDone, WalkPorts, replica,
       caches, tracking, history, Pending
  <2> QED BY <1>1, <2>1 DEF TracksInv
<1>4. CASE EndPass
  <2>1. Still /\ UNCHANGED <<rows, allI, reborn>> /\ \A i : ~Pending(i)
    BY <1>4 DEF Still, EndPass, EndPassWith, replica, caches, history, Pending
  <2> QED BY <1>1, <2>1 DEF TracksInv
<1>5. CASE Commit \/ CommitFails
  <2>1. Still /\ UNCHANGED <<rows, allI, reborn>> /\ \A i : Pending(i) => Pending(i)'
    BY <1>5 DEF Still, Commit, CommitFails, replica, caches, tracking, history, Pending
  <2> QED BY <1>1, <2>1 DEF TracksInv
<1>6. CASE Restart
  BY <1>6 DEF Restart, RestartWith, TracksInv
<1>7. CASE Reconnect
  <2>1. /\ Still /\ UNCHANGED <<rows, allI>> /\ pc \in {"idle", "commit"} /\ pc' = "idle"
        /\ reborn' = reborn \cup (modI \cap allI) /\ insI' = rows
    BY <1>7 DEF Still, Reconnect, replica, caches
  <2>2. ASSUME NEW i \in ((rows \cap allI) \ reborn)' PROVE (Fresh(i) \/ Pending(i))'
    <3>1. Fresh(i) \/ i \in Virtual
      BY <2>1 DEF TracksInv, Pending
    <3> QED BY <1>1, <2>1, <3>1 DEF Pending
  <2> QED BY <2>2 DEF TracksInv
<1> QED BY <1>2, <1>3, <1>4, <1>5, <1>6, <1>7, TracksEnvironment, StartPassTracks, PortStepTracks,
           IntfStepTracks DEF Next, Pass, Walks

(* What intfd caches of a row is what the row says, whenever no change is  *)
(* waiting, in whatever batches the changes came: except for a row that    *)
(* was replaced, or changed behind a lost connection.                      *)
THEOREM CacheTracks == Spec => []CacheTracksRows
<1>1. Init => TracksInv
  BY DEF Init, TracksInv
<1>2. TypeInv /\ TracksInv => CacheTracksRows
  <2> SUFFICES ASSUME TypeInv, TracksInv, pc = "idle", ~news, NEW i \in rows \ reborn
               PROVE  Fresh(i)
    BY DEF CacheTracksRows, Settled, Fresh
  <2>1. i \in allI /\ ~Pending(i)
    BY DEF TypeInv, BatchInv, Pending
  <2> QED BY <2>1 DEF TracksInv
<1> QED BY <1>1, <1>2, TracksStep, TypeInvariant, PTL DEF Spec

-----------------------------------------------------------------------------
(* The cache of ports.                                                     *)

(* A port that is not cached was inserted in the batch at hand.            *)
PortsInv == ports \subseteq allP \/ (insP /\ pc \in {"idle", "ports", "commit"})

LEMMA PortsEnvironment == PortsInv /\ Environment => PortsInv'
<1> SUFFICES ASSUME PortsInv, Environment PROVE PortsInv'
  OBVIOUS
<1>1. pc \in {"idle", "commit"} /\ UNCHANGED <<pc, allP>>
  BY DEF Environment, RowsStay, UserConfigWrite, PmInfoWrite, StatusWrite, PortAdminWrite,
         PortMembersWrite, PortInsert, PortDelete, VirtualInsert, VirtualDelete, Others, caches
<1>2. CASE PortInsert \/ VirtualInsert
  BY <1>1, <1>2 DEF PortInsert, VirtualInsert, PortsInv
<1>3. CASE ~(PortInsert \/ VirtualInsert)
  <2>1. ports' \subseteq ports /\ insP' = insP
    BY <1>3 DEF Environment, RowsStay, UserConfigWrite, PmInfoWrite, StatusWrite, PortAdminWrite,
         PortMembersWrite, PortDelete, VirtualDelete, RemovePort, replica
  <2> QED BY <1>1, <2>1 DEF PortsInv
<1> QED BY <1>2, <1>3

LEMMA PortsStep == PortsInv /\ [Next]_vars => PortsInv'
<1> SUFFICES ASSUME PortsInv, [Next]_vars PROVE PortsInv'
  OBVIOUS
<1> USE DEF PortsInv, replica, caches, tracking
<1>1. CASE UNCHANGED vars
  BY <1>1 DEF vars
<1>2. CASE StartPass \/ AddPorts \/ SkipPorts \/ NoOldPorts \/ PortStep \/ PortsDone \/ IntfStep
  BY <1>2 DEF StartPass, AddPorts, SkipPorts, NoOldPorts, PortStep, PortsDone, IntfStep
<1>3. CASE DeleteOnePort
  BY <1>3 DEF DeleteOnePort, del_old_port
<1>4. CASE EndPass \/ Commit \/ CommitFails
  BY <1>4 DEF EndPass, EndPassWith, Commit, CommitFails
<1>5. CASE Restart \/ Reconnect
  BY <1>5 DEF Restart, RestartWith, Reconnect
<1> QED BY <1>1, <1>2, <1>3, <1>4, <1>5, PortsEnvironment DEF Next, Pass, Walks

(* Although deleted ports are taken out of all_ports one per pass, and     *)
(* leftovers take the names of new ones, a port that exists is in it when  *)
(* no change is waiting: its changes are not skipped.                      *)
THEOREM PortsStayCached == Spec => []PortsAreCached
<1>1. Init => PortsInv
  BY DEF Init, PortsInv
<1>2. TypeInv /\ PortsInv => PortsAreCached
  BY DEF TypeInv, BatchInv, PortsInv, PortsAreCached, Settled
<1> QED BY <1>1, <1>2, PortsStep, TypeInvariant, PTL DEF Spec

(* While no port is deleted all_ports has no leftovers, and who is in a    *)
(* port is out of date only while its modification is to be handled.       *)
PortEvents == {"port_admin", "members", "port_insert", "port_delete", "virtual"}

MembersPending(p) ==
    CASE pc \in {"idle", "commit", "ports"} -> p \in modP
      [] pc = "port_mods" -> p \in todo
      [] pc = "intf_mods" -> FALSE

PortCacheInv ==
    /\ ~delP /\ allP \subseteq ports
    /\ \A p \in allP : pmem[p] = members[p] \/ MembersPending(p)
    /\ Events \cap PortEvents = {} => modP = {}

LEMMA PortCacheStays ==
    ASSUME PortCacheInv, UNCHANGED <<ports, members, allP, pmem>>,
           delP' => delP, modP' \in {modP, {}},
           \A p \in allP : MembersPending(p) => MembersPending(p)'
    PROVE  PortCacheInv'
  BY DEF PortCacheInv

LEMMA PortCacheEnvironment ==
    ASSUME Events \cap {"port_delete", "virtual"} = {}, TypeInv, PortCacheInv, Environment
    PROVE  PortCacheInv'
<1>1. ~PortDelete /\ ~VirtualInsert /\ ~VirtualDelete
  BY DEF PortDelete, VirtualInsert, VirtualDelete, Others
<1>2. pc \in {"idle", "commit"} /\ UNCHANGED <<pc, allP, pmem, todo>>
  BY EnvironmentIs DEF caches, locals
<1>3. CASE UserConfigWrite \/ PmInfoWrite \/ StatusWrite
  <2>1. UNCHANGED <<ports, members, delP, modP>>
    BY <1>3 DEF UserConfigWrite, PmInfoWrite, StatusWrite, replica
  <2> QED BY <1>2, <2>1, PortCacheStays DEF MembersPending
<1>4. CASE PortAdminWrite
  BY <1>2, <1>4 DEF PortAdminWrite, Others, PortEvents, PortCacheInv, MembersPending
<1>5. CASE PortMembersWrite
  <2>1. PICK p, S : /\ p \in ports /\ members' = [members EXCEPT ![p] = S]
                    /\ modP' = modP \cup {p}
    BY <1>5 DEF PortMembersWrite
  <2>2. UNCHANGED <<ports, delP>> /\ "members" \in Events
    BY <1>5 DEF PortMembersWrite, Others
  <2>3. \A q \in allP \ {p} : members'[q] = members[q]
    BY <2>1 DEF TypeInv, ReplicaInv, CacheInv
  <2> QED BY <1>2, <2>1, <2>2, <2>3 DEF PortEvents, PortCacheInv, MembersPending
<1>6. CASE PortInsert
  <2>1. PICK p, S : /\ p \in PortName \ ports /\ ports' = ports \cup {p}
                    /\ members' = [members EXCEPT ![p] = S]
                    /\ modP' \in {modP, modP \cup {p}}
    BY <1>6 DEF PortInsert
  <2>2. delP' = delP /\ "port_insert" \in Events
    BY <1>6 DEF PortInsert, Others
  <2>3. \A q \in allP : members'[q] = members[q]
    BY <2>1 DEF TypeInv, ReplicaInv, CacheInv, PortCacheInv
  <2> QED BY <1>2, <2>1, <2>2, <2>3 DEF PortEvents, PortCacheInv, MembersPending
<1> QED BY <1>1, <1>3, <1>4, <1>5, <1>6 DEF Environment, RowsStay

LEMMA PortCacheStep ==
    ASSUME Events \cap {"port_delete", "virtual"} = {}, TypeInv, PortCacheInv, [Next]_vars
    PROVE  PortCacheInv'
<1>1. CASE UNCHANGED vars
  <2>1. UNCHANGED <<ports, members, allP, pmem, delP, modP, pc, todo>>
    BY <1>1 DEF vars, replica, caches, tracking, locals
  <2> QED BY <2>1, PortCacheStays DEF MembersPending
<1>2. CASE StartPass \/ SkipPorts \/ NoOldPorts \/ PortsDone \/ IntfStep
  <2>1. UNCHANGED <<ports, members, allP, pmem, delP, modP>>
    BY <1>2 DEF StartPass, SkipPorts, NoOldPorts, PortsDone, IntfStep, replica, caches, tracking
  <2>2. CASE StartPass
    BY <2>1, <2>2, PortCacheStays DEF StartPass, MembersPending
  <2>3. CASE SkipPorts
    BY <2>3 DEF SkipPorts, PortCacheInv
  <2>4. CASE NoOldPorts
    BY <2>1, <2>4, PortCacheStays DEF NoOldPorts, WalkPorts, MembersPending
  <2>5. CASE PortsDone
    BY <2>1, <2>5, PortCacheStays DEF PortsDone, MembersPending
  <2>6. CASE IntfStep
    BY <2>1, <2>6, PortCacheStays DEF IntfStep, MembersPending
  <2> QED BY <1>2, <2>2, <2>3, <2>4, <2>5, <2>6
<1> USE DEF PortCacheInv, MembersPending, replica, caches, tracking
<1>3. CASE AddPorts
  BY <1>3 DEF AddPorts, WalkPorts, TypeInv, ReplicaInv, CacheInv
<1>4. CASE DeleteOnePort
  BY <1>4 DEF DeleteOnePort
<1>5. CASE PortStep
  <2>1. PICK p \in todo : /\ todo' = todo \ {p}
                          /\ IF p \in allP THEN PortMod(p) ELSE UNCHANGED <<cache, col, rc, pmem>>
    BY <1>5 DEF PortStep
  <2>2. /\ pc = "port_mods" /\ UNCHANGED <<pc, ports, members, delP, modP, allP>>
        /\ pmem \in [PortName -> SUBSET Interface] /\ allP \subseteq PortName
    BY <1>5 DEF PortStep, TypeInv, CacheInv
  <2>3. \A q \in allP : IF q = p THEN pmem'[q] = members[q] ELSE pmem'[q] = pmem[q]
    BY <2>1, <2>2 DEF PortMod
  <2> QED BY <2>1, <2>2, <2>3
<1>6. CASE EndPass \/ Commit \/ CommitFails
  <2>1. UNCHANGED <<ports, members, allP, pmem>>
    BY <1>6 DEF EndPass, EndPassWith, Commit, CommitFails
  <2>2. /\ modP' \in {modP, {}} /\ (delP' => delP)
        /\ \A p \in allP : MembersPending(p) => MembersPending(p)'
    <3>1. CASE EndPass
      BY <3>1 DEF EndPass, EndPassWith
    <3>2. CASE Commit \/ CommitFails
      <4>1. UNCHANGED <<modP, delP>> /\ pc = "commit" /\ pc' = "idle"
        BY <3>2 DEF Commit, CommitFails
      <4> QED BY <4>1
    <3> QED BY <1>6, <3>1, <3>2
  <2> QED BY <2>1, <2>2, PortCacheStays
<1>7. CASE Restart
  BY <1>7 DEF Restart, RestartWith
<1>8. CASE Reconnect
  BY <1>8 DEF Reconnect, PortEvents
<1> QED BY <1>1, <1>2, <1>3, <1>4, <1>5, <1>6, <1>7, <1>8, PortCacheEnvironment
        DEF Next, Pass, Walks

(* While no Port row is deleted, all_ports is the Port table whenever no   *)
(* change is waiting: who left a port is found by comparing the two.       *)
THEOREM PortCacheTracks ==
    ASSUME Events \cap {"port_delete", "virtual"} = {}
    PROVE  Spec => []PortCacheTracksRows
<1>1. Init => PortCacheInv
  BY DEF Init, PortCacheInv
<1>2. TypeInv /\ PortsInv /\ PortCacheInv => PortCacheTracksRows
  BY DEF TypeInv, BatchInv, PortsInv, PortCacheInv, MembersPending, PortCacheTracksRows, Settled
<1>3. TypeInv /\ PortCacheInv /\ [Next]_vars => PortCacheInv'
  BY PortCacheStep
<1>4. Init => PortsInv
  BY DEF Init, PortsInv
<1> QED BY <1>1, <1>2, <1>3, <1>4, PortsStep, TypeInvariant, PTL DEF Spec

-----------------------------------------------------------------------------
(* What a pass writes.                                                     *)

(* Outside a pass there is no open transaction; one that has no count has  *)
(* no writes, nor a reason to write for children.                          *)
WriteInv ==
    /\ pc = "idle" => col = dbCol
    /\ pc \in {"ports", "port_mods", "intf_mods"} /\ ~rc =>
          col = dbCol /\ ~split_changed /\ ~pm_info_changed

LEMMA IntfStepWrites == TypeInv /\ WriteInv /\ IntfStep => WriteInv'
<1> SUFFICES ASSUME TypeInv, WriteInv, IntfStep, ~rc'
             PROVE  col' = dbCol' /\ ~split_changed' /\ ~pm_info_changed'
  BY DEF WriteInv, IntfStep
<1>1. PICK i \in rows : IF i \in insI THEN IntfInserted(i) ELSE IntfModified(i)
  BY DEF IntfStep, TypeInv, BatchInv
<1>2. pc = "intf_mods" /\ dbCol' = dbCol /\ allI = rows
  BY DEF IntfStep, TypeInv, BatchInv
<1>3. i \notin insI /\ IntfModified(i)
  BY <1>1 DEF IntfInserted
<1>4. PICK cfg_changed, T :
         /\ Differs(cache[i], UserCfgOf(i), PmOf(i)) => cfg_changed
         /\ T = Targets(i, cfg_changed, SplitChanged(i))
         /\ rc' = Count(cfg_changed)
         /\ split_changed' = SplitChanged(i) /\ pm_info_changed' = PmChanged(i)
         /\ IsMap(col') /\ \A k \in Interface \ T : col'[k] = col[k]
  BY <1>2, <1>3, IntfModifiedIs DEF TypeInv
<1>5. ~rc /\ ~cfg_changed /\ ~Differs(cache[i], UserCfgOf(i), PmOf(i))
  BY <1>4 DEF Count
<1>6. col = dbCol /\ ~split_changed /\ ~pm_info_changed
  BY <1>2, <1>5 DEF WriteInv
<1>7. ~PmChanged(i) /\ ~SplitChanged(i)
  BY <1>5, <1>6 DEF Differs, PmChanged, PassOn, SplitChanged
<1>8. T = {}
  BY <1>4, <1>5, <1>7 DEF Targets
<1> QED BY <1>2, <1>4, <1>6, <1>7, <1>8 DEF TypeInv, CacheInv, IsMap

LEMMA WriteStep == TypeInv /\ WriteInv /\ [Next]_vars => WriteInv'
<1> SUFFICES ASSUME TypeInv, WriteInv, [Next]_vars PROVE WriteInv'
  OBVIOUS
<1>1. CASE UNCHANGED vars
  BY <1>1 DEF vars, locals, WriteInv
<1>2. CASE Environment
  BY <1>2, EnvironmentIs DEF locals, WriteInv
<1>3. CASE StartPass \/ AddPorts \/ SkipPorts \/ DeleteOnePort \/ NoOldPorts \/ PortsDone
  BY <1>3 DEF StartPass, AddPorts, SkipPorts, DeleteOnePort, NoOldPorts, PortsDone, WalkPorts,
              WriteInv
<1>4. CASE PortStep
  BY <1>4 DEF PortStep, PortMod, WriteInv
<1>5. CASE EndPass \/ Commit \/ CommitFails \/ Restart \/ Reconnect
  BY <1>5 DEF EndPass, EndPassWith, Commit, CommitFails, Restart, RestartWith, Reconnect, WriteInv
<1> QED BY <1>1, <1>2, <1>3, <1>4, <1>5, IntfStepWrites DEF Next, Pass, Walks

(* A pass that returns 0, so that its transaction is dropped, has written  *)
(* nothing.                                                                *)
THEOREM WritesCount == Spec => []WritesAreCommitted
<1>1. Init => WriteInv
  BY DEF Init, WriteInv
<1>2. WriteInv => WritesAreCommitted
  BY DEF WriteInv, WritesAreCommitted
<1> QED BY <1>1, <1>2, WriteStep, TypeInvariant, PTL DEF Spec

-----------------------------------------------------------------------------
(* The columns intfd writes: which interfaces are enabled together, and    *)
(* what an enabled one needs.  The columns of an interface agree with the  *)
(* caches, except those of an interface whose INSERTED branch is still to  *)
(* come.                                                                   *)

(* The interface will be taken for a new one in this batch.                *)
PendingInsert(i) == i \in insI /\ (pc = "intf_mods" => i \in todo)

(* Whoever is not new has its split pointers; the physical interfaces      *)
(* enter all_interfaces together.                                          *)
LinkInv ==
    /\ pc \in {"idle", "commit"} => rows \ allI \subseteq insI
    /\ \A i \in rows \cap allI : PendingInsert(i) \/ i \in linked
    /\ Physical \subseteq allI \/ allI = {}

LEMMA LinkStep == TypeInv /\ LinkInv /\ [Next]_vars => LinkInv'
<1> SUFFICES ASSUME TypeInv, LinkInv, [Next]_vars PROVE LinkInv'
  OBVIOUS
<1>1. CASE UNCHANGED vars
  BY <1>1 DEF vars, replica, tracking, caches, locals, LinkInv, PendingInsert
<1>2. CASE Environment
  <2>1. pc \in {"idle", "commit"} /\ UNCHANGED <<pc, allI, linked>>
    BY <1>2, EnvironmentIs DEF caches
  <2>2. \A i \in rows' : (i \in rows /\ (i \in insI <=> i \in insI')) \/ i \in insI'
    BY <1>2, EnvironmentIs
  <2> QED BY <2>1, <2>2 DEF LinkInv, PendingInsert
<1>3. CASE StartPass
  <2>1. /\ pc = "idle" /\ pc' = "ports" /\ UNCHANGED <<rows, insI>>
        /\ allI' = rows /\ linked' = linked \cap rows
    BY <1>3 DEF StartPass, replica, tracking
  <2> QED BY <2>1 DEF LinkInv, PendingInsert, TypeInv, ReplicaInv
<1>4. CASE AddPorts \/ SkipPorts \/ DeleteOnePort \/ NoOldPorts \/ PortStep \/ PortsDone
  <2>1. /\ UNCHANGED <<rows, insI, allI, linked>> /\ pc' \in {"port_mods", "intf_mods"}
        /\ pc \in {"ports", "port_mods"} /\ (pc' = "intf_mods" => todo' = insI \cup modI)
    BY <1>4 DEF AddPorts, SkipPorts, DeleteOnePort, NoOldPorts, PortStep, PortsDone, WalkPorts,
                replica, tracking, caches
  <2> QED BY <2>1 DEF LinkInv, PendingInsert
<1>5. CASE IntfStep
  <2>1. PICK j \in todo : /\ todo' = todo \ {j}
                          /\ linked' = IF j \in insI THEN linked \cup {j} ELSE linked
    BY <1>5 DEF IntfStep, IntfInserted, IntfModified
  <2>2. pc = "intf_mods" /\ UNCHANGED <<rows, insI, allI, pc>>
    BY <1>5 DEF IntfStep, replica, tracking
  <2> QED BY <2>1, <2>2 DEF LinkInv, PendingInsert
<1>6. CASE EndPass
  <2>1. /\ pc = "intf_mods" /\ todo = {} /\ UNCHANGED <<rows, allI, linked>>
    BY <1>6 DEF EndPass, EndPassWith, replica, caches
  <2>2. allI = rows
    BY <2>1 DEF TypeInv, BatchInv
  <2> QED BY <2>1, <2>2 DEF LinkInv, PendingInsert
<1>7. CASE Commit \/ CommitFails
  BY <1>7 DEF Commit, CommitFails, replica, tracking, caches, LinkInv, PendingInsert
<1>8. CASE Restart \/ Reconnect
  <2>1. /\ rows' = rows /\ insI' = rows /\ pc' = "idle" /\ allI' \in {{}, allI}
    BY <1>8 DEF Restart, RestartWith, Reconnect, replica, caches
  <2> QED BY <2>1 DEF LinkInv, PendingInsert
<1> QED BY <1>1, <1>2, <1>3, <1>4, <1>5, <1>6, <1>7, <1>8 DEF Next, Pass, Walks

-----------------------------------------------------------------------------
(* What an enabled interface needs, as the caches have it.                 *)

(* In the caches c nothing keeps interface i down, but for its port.       *)
NoReason(c, i) ==
    /\ c[i].user_cfg.admin_state = "up"
    /\ i \in Physical =>
          /\ c[i].pm_info.connector # "ABSENT"
          /\ Children(i) # {} => c[i].user_cfg.lane_split = "no-split"
          /\ ParentOf[i] # NoParent => c[ParentOf[i]].user_cfg.lane_split = "split"

EnabledInv ==
    failures = 0 => \A i \in rows \cap allI :
        PendingInsert(i) \/ (IsEnabled(col[i]) => NoReason(cache, i))

LEMMA ComputedNoReason ==
    ASSUME NEW c, NEW lk, NEW i \in Interface, i \in lk, NEW k, IfaceOf(c[i], i),
           ParentOf[i] # NoParent => IsIface(c[ParentOf[i]]),
           Computed(k, c[i], FamilyOf(c, lk, i)), IsEnabled(k)
    PROVE  NoReason(c, i)
<1>1. PICK y, f : y = c[i] /\ f = FamilyOf(c, lk, i)
  OBVIOUS
<1>2. /\ y.user_cfg.admin_state = "up"
      /\ y.type \notin VirtualTypes =>
            /\ y.pm_info.connector # "ABSENT"
            /\ ~(f.has_children /\ y.user_cfg.lane_split = "split")
            /\ ~(f.has_parent /\ f.parent_split = "no-split")
  BY <1>1, EnabledHasNoReason DEF IsEnabled
<1>3. i \in Physical => y.type \notin VirtualTypes
  BY <1>1 DEF Physical, IfaceOf
<1>4. y.user_cfg.lane_split \in {"split", "no-split"}
  BY <1>1 DEF IfaceOf, IsIface, IsUserCfg
<1>5. ParentOf[i] # NoParent => c[ParentOf[i]].user_cfg.lane_split \in {"split", "no-split"}
  BY DEF IsIface, IsUserCfg
<1>6. Children(i) # {} => f.has_children
  BY <1>1 DEF FamilyOf
<1>7. ParentOf[i] # NoParent =>
         f.has_parent /\ f.parent_split = c[ParentOf[i]].user_cfg.lane_split
  BY <1>1 DEF FamilyOf
<1> QED BY <1>1, <1>2, <1>3, <1>4, <1>5, <1>6, <1>7 DEF NoReason

(* Nothing an interface needs has moved.                                   *)
LEMMA NoReasonStays ==
    ASSUME NEW c, NEW d, NEW i \in Interface, NoReason(c, i),
           d[i].user_cfg = c[i].user_cfg, d[i].pm_info = c[i].pm_info,
           ParentOf[i] # NoParent =>
              d[ParentOf[i]].user_cfg.lane_split = c[ParentOf[i]].user_cfg.lane_split
    PROVE  NoReason(d, i)
  BY DEF NoReason

LEMMA PortStepEnabled == TypeInv /\ LinkInv /\ EnabledInv /\ PortStep => EnabledInv'
<1> SUFFICES ASSUME TypeInv, LinkInv, EnabledInv, PortStep, failures' = 0,
                    NEW i \in (rows \cap allI)', ~PendingInsert(i)', IsEnabled(col'[i])
             PROVE  NoReason(cache', i)
  BY DEF EnabledInv
<1>1. PICK p \in ports : IF p \in allP THEN PortMod(p) ELSE UNCHANGED <<cache, col, rc, pmem>>
  BY DEF PortStep, TypeInv, BatchInv
<1>2. /\ pc = "port_mods" /\ UNCHANGED <<rows, allI, insI, linked, pc, failures>>
      /\ allI = rows /\ rows \subseteq Interface /\ Physical \subseteq rows
  BY DEF PortStep, replica, tracking, bounds, TypeInv, BatchInv, ReplicaInv
<1>3. i \in rows /\ i \in Interface /\ i \notin insI /\ i \in linked
  BY <1>2 DEF PendingInsert, LinkInv
<1>4. ParentOf[i] # NoParent => ParentOf[i] \in rows
  BY <1>2, <1>3, ParentsArePhysical
<1>5. CASE p \in allP
  <2>1. /\ \A k \in rows \ (Kept(p) \cup Lost(p)) : cache'[k] = cache[k] /\ col'[k] = col[k]
        /\ \A k \in Lost(p) : /\ IsIface(cache'[k]) /\ cache'[k].user_cfg = cache[k].user_cfg
                              /\ ~IsEnabled(col'[k])
        /\ \A k \in Kept(p) : /\ IsIface(cache'[k]) /\ cache'[k].type = cache[k].type
                              /\ cache'[k].hw_info = cache[k].hw_info
                              /\ cache'[k].user_cfg.lane_split = cache[k].user_cfg.lane_split
                              /\ Computed(col'[k], cache'[k], FamilyOf(cache', linked, k))
    BY <1>1, <1>2, <1>5, PortModIs DEF TypeInv
  <2>2. \A k \in rows : IsIface(cache'[k])
                        /\ cache'[k].user_cfg.lane_split = cache[k].user_cfg.lane_split
    BY <1>2, <2>1 DEF TypeInv, CacheInv, IfaceOf
  <2>3. CASE i \in Kept(p)
    <3>1. IfaceOf(cache'[i], i)
      BY <1>2, <1>3, <2>1, <2>3 DEF TypeInv, CacheInv, IfaceOf
    <3>2. PICK c : c = cache'
      OBVIOUS
    <3> QED BY <1>3, <1>4, <2>1, <2>2, <2>3, <3>1, <3>2, ComputedNoReason
  <2>4. CASE i \in Lost(p)
    BY <2>1, <2>4
  <2>5. CASE i \notin Kept(p) \cup Lost(p)
    <3>1. NoReason(cache, i) /\ cache'[i] = cache[i]
      BY <1>2, <1>3, <2>1, <2>5 DEF EnabledInv, PendingInsert
    <3>2. PICK c : c = cache'
      OBVIOUS
    <3> QED BY <1>3, <1>4, <2>2, <3>1, <3>2, NoReasonStays
  <2> QED BY <2>3, <2>4, <2>5
<1>6. CASE p \notin allP
  BY <1>1, <1>2, <1>3, <1>6 DEF EnabledInv, PendingInsert
<1> QED BY <1>5, <1>6

LEMMA IntfStepEnabled == TypeInv /\ LinkInv /\ EnabledInv /\ IntfStep => EnabledInv'
<1> SUFFICES ASSUME TypeInv, LinkInv, EnabledInv, IntfStep, failures' = 0,
                    NEW i \in (rows \cap allI)', ~PendingInsert(i)', IsEnabled(col'[i])
             PROVE  NoReason(cache', i)
  BY DEF EnabledInv
<1>1. PICK j \in todo : /\ todo' = todo \ {j}
                        /\ IF j \in insI THEN IntfInserted(j) ELSE IntfModified(j)
  BY DEF IntfStep
<1>2. /\ pc = "intf_mods" /\ UNCHANGED <<rows, allI, insI, pc, failures>>
      /\ allI = rows /\ rows \subseteq Interface /\ Physical \subseteq rows /\ j \in rows
  BY <1>1 DEF IntfStep, replica, tracking, bounds, TypeInv, BatchInv, ReplicaInv
<1>3. i \in rows /\ i \in Interface
  BY <1>2
<1>4. ParentOf[i] # NoParent => /\ ParentOf[i] \in rows /\ ParentOf[i] # i
                                /\ ParentOf[ParentOf[i]] = NoParent
  BY <1>2, <1>3, ParentsArePhysical
<1>5. PICK c : c = cache'
  OBVIOUS
<1>6. \A k \in rows : IfaceOf(c[k], k)
  <2>1. CacheInv'
    BY IntfStepCache DEF TypeInv
  <2> QED BY <1>2, <1>5, <2>1 DEF CacheInv
<1>7. CASE j \in insI
  <2>1. /\ linked' = linked \cup {j}
        /\ \A k \in Interface \ {j} : c[k] = cache[k] /\ col'[k] = col[k]
        /\ c[j].user_cfg = cache[j].user_cfg
        /\ Computed(col'[j], c[j], FamilyOf(c, linked', j))
    BY <1>1, <1>2, <1>5, <1>7, IntfInsertedIs DEF TypeInv
  <2>2. CASE i = j
    <3>1. PICK lk : lk = linked'
      OBVIOUS
    <3>2. i \in lk /\ Computed(col'[i], c[i], FamilyOf(c, lk, i))
      BY <2>1, <2>2, <3>1
    <3>3. IfaceOf(c[i], i) /\ (ParentOf[i] # NoParent => IsIface(c[ParentOf[i]]))
      BY <1>3, <1>4, <1>6 DEF IfaceOf
    <3> QED BY <1>3, <1>5, <3>2, <3>3, ComputedNoReason
  <2>3. CASE i # j
    <3>1. ~PendingInsert(i) /\ IsEnabled(col[i])
      BY <1>1, <1>2, <1>3, <2>1, <2>3 DEF PendingInsert
    <3>2. NoReason(cache, i)
      BY <1>2, <1>3, <3>1 DEF EnabledInv
    <3>3. c[i] = cache[i] /\ (ParentOf[i] # NoParent =>
             c[ParentOf[i]].user_cfg.lane_split = cache[ParentOf[i]].user_cfg.lane_split)
      BY <1>2, <1>3, <1>4, <2>1, <2>3
    <3> QED BY <1>3, <1>5, <3>2, <3>3, NoReasonStays
  <2> QED BY <2>2, <2>3
<1>8. CASE j \notin insI
  <2>1. PICK cfg_changed, T :
           /\ Differs(cache[j], UserCfgOf(j), PmOf(j)) => cfg_changed
           /\ T = Targets(j, cfg_changed, SplitChanged(j))
           /\ linked' = linked
           /\ c[j].user_cfg = UserCfgOf(j) /\ c[j].pm_info = PmOf(j)
           /\ \A k \in Children(j) :
                 /\ c[k].user_cfg = cache[k].user_cfg
                 /\ ~PmChanged(j) => c[k].pm_info = cache[k].pm_info
           /\ \A k \in Interface \ ({j} \cup Children(j)) : c[k] = cache[k]
           /\ \A k \in Interface \ T : col'[k] = col[k]
           /\ \A k \in T : Computed(col'[k], c[k], FamilyOf(c, linked, k))
    BY <1>1, <1>2, <1>5, <1>8, IntfModifiedIs DEF TypeInv
  <2>2. ~PendingInsert(i) /\ i \in linked
    BY <1>1, <1>2, <1>3, <1>8 DEF PendingInsert, LinkInv
  <2>3. CASE i \in T
    <3>1. IfaceOf(c[i], i) /\ (ParentOf[i] # NoParent => IsIface(c[ParentOf[i]]))
      BY <1>3, <1>4, <1>6 DEF IfaceOf
    <3> QED BY <1>3, <1>5, <2>1, <2>2, <2>3, <3>1, ComputedNoReason
  <2>4. CASE i \notin T
    <3>1. NoReason(cache, i)
      BY <1>2, <1>3, <2>1, <2>2, <2>4 DEF EnabledInv
    <3>2. c[i].user_cfg = cache[i].user_cfg /\ c[i].pm_info = cache[i].pm_info
      <4>1. CASE i = j
        <5>1. ~cfg_changed
          BY <2>1, <2>4, <4>1 DEF Targets
        <5> QED BY <2>1, <4>1, <5>1 DEF Differs
      <4>2. CASE i \in Children(j)
        <5>1. ~SplitChanged(j)
          BY <2>1, <2>4, <4>2 DEF Targets
        <5>2. ~PmChanged(j)
          BY <4>2, <5>1 DEF SplitChanged, PassOn
        <5> QED BY <2>1, <4>2, <5>2
      <4>3. CASE i \notin {j} \cup Children(j)
        BY <1>3, <2>1, <4>3
      <4> QED BY <4>1, <4>2, <4>3
    <3>3. ParentOf[i] # NoParent =>
             c[ParentOf[i]].user_cfg.lane_split = cache[ParentOf[i]].user_cfg.lane_split
      <4> SUFFICES ASSUME ParentOf[i] # NoParent
                   PROVE  c[ParentOf[i]].user_cfg.lane_split
                             = cache[ParentOf[i]].user_cfg.lane_split
        OBVIOUS
      <4>1. CASE ParentOf[i] = j
        <5>1. ~SplitChanged(j)
          BY <1>3, <2>1, <2>4, <4>1 DEF Targets, Children
        <5> QED BY <2>1, <4>1, <5>1 DEF SplitChanged
      <4>2. CASE ParentOf[i] # j
        BY <1>2, <1>4, <2>1, <4>2
      <4> QED BY <4>1, <4>2
    <3> QED BY <1>3, <1>5, <3>1, <3>2, <3>3, NoReasonStays
  <2> QED BY <2>3, <2>4
<1> QED BY <1>7, <1>8

LEMMA EnabledStep ==
    TypeInv /\ LinkInv /\ WriteInv /\ EnabledInv /\ [Next]_vars => EnabledInv'
<1> SUFFICES ASSUME TypeInv, LinkInv, WriteInv, EnabledInv, [Next]_vars PROVE EnabledInv'
  OBVIOUS
<1>1. CASE UNCHANGED vars
  BY <1>1 DEF vars, replica, tracking, caches, locals, bounds, EnabledInv, PendingInsert, NoReason
<1>2. CASE Environment
  <2>1. UNCHANGED <<pc, todo, allI, cache, failures>> /\ pc \in {"idle", "commit"}
    BY <1>2, EnvironmentIs DEF caches, locals, bounds
  <2>2. \A i \in rows' : \/ i \in insI'
                         \/ i \in rows /\ (i \in insI <=> i \in insI') /\ col'[i] = col[i]
    BY <1>2, EnvironmentIs
  <2> QED BY <2>1, <2>2 DEF EnabledInv, PendingInsert, NoReason
<1>3. CASE StartPass
  <2>1. /\ pc = "idle" /\ pc' = "ports" /\ UNCHANGED <<rows, insI, col, failures>>
        /\ allI' = rows
        /\ cache' = [i \in Interface |->
                        CASE i \in rows \ allI -> add_new_interface(i)
                          [] i \in rows \cap allI -> cache[i]
                          [] OTHER -> NoIface]
    BY <1>3 DEF StartPass, replica, tracking, bounds
  <2>2. rows \subseteq Interface /\ Physical \subseteq rows
    BY DEF TypeInv, ReplicaInv
  <2>3. \A i \in rows \cap allI : cache'[i] = cache[i]
    BY <2>1, <2>2
  <2> SUFFICES ASSUME failures' = 0, NEW i \in (rows \cap allI)', ~PendingInsert(i)',
                      IsEnabled(col'[i])
               PROVE  NoReason(cache', i)
    BY DEF EnabledInv
  <2>4. i \in rows \cap allI /\ i \in Interface /\ NoReason(cache, i)
    BY <2>1, <2>2 DEF PendingInsert, LinkInv, EnabledInv
  <2>5. ParentOf[i] # NoParent => ParentOf[i] \in rows \cap allI
    BY <2>2, <2>4, ParentsArePhysical DEF LinkInv
  <2>6. PICK c : c = cache'
    OBVIOUS
  <2> QED BY <2>3, <2>4, <2>5, <2>6, NoReasonStays
<1>4. CASE AddPorts \/ SkipPorts \/ NoOldPorts \/ PortsDone
  <2>1. /\ UNCHANGED <<rows, insI, allI, cache, col, failures>>
        /\ pc' \in {"port_mods", "intf_mods"}
        /\ pc \in {"ports", "port_mods"} /\ (pc' = "intf_mods" => todo' = insI \cup modI)
    BY <1>4 DEF AddPorts, SkipPorts, NoOldPorts, PortsDone, WalkPorts,
                replica, tracking, caches, bounds
  <2> QED BY <2>1 DEF EnabledInv, PendingInsert, NoReason
<1>5. CASE DeleteOnePort
  <2>1. PICK S : col' = Disabled(col, S)
    BY <1>5 DEF DeleteOnePort, del_old_port
  <2>2. /\ UNCHANGED <<rows, insI, allI, cache, failures>>
        /\ pc' = "port_mods" /\ pc = "ports" /\ rows \subseteq Interface
    BY <1>5 DEF DeleteOnePort, del_old_port, WalkPorts, replica, tracking, bounds,
                TypeInv, ReplicaInv
  <2>3. ASSUME NEW i \in rows PROVE col'[i] = col[i] \/ ~IsEnabled(col'[i])
    <3>1. i \in Interface /\ IsColumns(col[i])
      BY <2>2 DEF TypeInv, CacheInv
    <3>2. PICK d : d = [col[i] EXCEPT !.hw_intf_config = DisabledConfig]
      OBVIOUS
    <3>3. ~IsEnabled(d)
      BY <3>1, <3>2, DisabledIs
    <3>4. col'[i] = IF i \in S THEN d ELSE col[i]
      BY <2>1, <3>1, <3>2 DEF Disabled
    <3> QED BY <3>3, <3>4
  <2> QED BY <2>2, <2>3 DEF EnabledInv, PendingInsert, NoReason
<1>6. CASE EndPass
  <2>1. /\ pc = "intf_mods" /\ todo = {} /\ UNCHANGED <<rows, allI, cache, failures>>
        /\ ~rc => col = dbCol
    BY <1>6 DEF EndPass, EndPassWith, replica, caches, bounds, WriteInv
  <2>2. col' = col
    BY <1>6, <2>1 DEF EndPass, EndPassWith
  <2> QED BY <2>1, <2>2 DEF EnabledInv, PendingInsert, NoReason
<1>7. CASE Commit
  <2>1. pc = "commit" /\ pc' = "idle" /\ UNCHANGED <<rows, insI, allI, cache, col, failures>>
    BY <1>7 DEF Commit, replica, tracking, caches, bounds
  <2> QED BY <2>1 DEF EnabledInv, PendingInsert, NoReason
<1>8. CASE CommitFails
  <2>1. failures' # 0
    BY <1>8 DEF CommitFails, TypeInv, LocalInv
  <2> QED BY <2>1 DEF EnabledInv
<1>9. CASE Restart \/ Reconnect
  <2>1. insI' = rows /\ rows' = rows /\ pc' = "idle"
    BY <1>9 DEF Restart, RestartWith, Reconnect, replica
  <2> QED BY <2>1 DEF EnabledInv, PendingInsert
<1> QED BY <1>1, <1>2, <1>3, <1>4, <1>5, <1>6, <1>7, <1>8, <1>9, PortStepEnabled, IntfStepEnabled
        DEF Next, Pass, Walks

(* What holds of the columns while no commit has failed.                   *)
ColumnsInv == TypeInv /\ LinkInv /\ WriteInv /\ EnabledInv

LEMMA ColumnsInvariant == Spec => []ColumnsInv
<1>1. Init => LinkInv /\ WriteInv /\ EnabledInv
  BY DEF Init, LinkInv, WriteInv, EnabledInv
<1>2. ColumnsInv /\ [Next]_vars => ColumnsInv'
  BY TypeStep, LinkStep, WriteStep, EnabledStep DEF ColumnsInv
<1> QED BY <1>1, <1>2, TypeInit, PTL DEF Spec, ColumnsInv

-----------------------------------------------------------------------------
(* A splittable interface and its lanes.                                   *)

Exclusive(k) ==
    \A c \in Interface : ParentOf[c] # NoParent =>
        ~(IsEnabled(k[c]) /\ IsEnabled(k[ParentOf[c]]))

(* A transaction is only committed when no interface of it is still to     *)
(* come, and then both sides are judged by the same lane_split.            *)
SplitInv == failures = 0 => Exclusive(dbCol) /\ (pc = "commit" => Exclusive(col))

LEMMA SplitStep == ColumnsInv /\ SplitInv /\ [Next]_vars => SplitInv'
<1> SUFFICES ASSUME ColumnsInv, SplitInv, [Next]_vars, failures' = 0
             PROVE  Exclusive(dbCol') /\ (pc' = "commit" => Exclusive(col'))
  BY DEF SplitInv, Exclusive
<1>1. CASE UNCHANGED vars
  BY <1>1 DEF vars, bounds, SplitInv
<1>2. CASE Environment
  <2>1. UNCHANGED <<pc, failures>>
    BY <1>2, EnvironmentIs DEF bounds, ColumnsInv
  <2>2. \A i \in Physical : dbCol'[i] = dbCol[i] /\ col'[i] = col[i]
    <3>1. Physical \subseteq rows /\ Physical \subseteq rows'
      BY <1>2, ReplicaStep DEF ColumnsInv, TypeInv, ReplicaInv, Next
    <3> QED BY <1>2, <3>1, EnvironmentIs DEF ColumnsInv
  <2> QED BY <2>1, <2>2, ParentsArePhysical DEF SplitInv, Exclusive
<1>3. CASE Walks
  <2>1. pc' # "commit" /\ UNCHANGED <<dbCol, failures>>
    BY <1>3 DEF Walks, StartPass, AddPorts, SkipPorts, DeleteOnePort, NoOldPorts, PortStep,
                PortsDone, IntfStep, WalkPorts, bounds
  <2> QED BY <2>1 DEF SplitInv
<1>4. CASE EndPass
  <2>1. /\ pc = "intf_mods" /\ todo = {} /\ UNCHANGED <<dbCol, failures>>
        /\ pc' = "commit" => col' = col
    BY <1>4 DEF EndPass, EndPassWith, bounds
  <2>2. allI = rows /\ Physical \subseteq rows
    BY <2>1 DEF ColumnsInv, TypeInv, BatchInv, ReplicaInv
  <2>3. \A i \in rows : IsEnabled(col[i]) => NoReason(cache, i)
    BY <2>1, <2>2 DEF ColumnsInv, EnabledInv, PendingInsert
  <2>4. Exclusive(col)
    <3> SUFFICES ASSUME NEW c \in Interface, ParentOf[c] # NoParent,
                        IsEnabled(col[c]), IsEnabled(col[ParentOf[c]])
                 PROVE  FALSE
      BY DEF Exclusive
    <3>1. PICK p : p = ParentOf[c]
      OBVIOUS
    <3>2. c \in Physical /\ p \in Physical /\ c \in Children(p)
      BY <3>1, ParentsArePhysical DEF Children
    <3>3. NoReason(cache, c) /\ NoReason(cache, p)
      BY <2>2, <2>3, <3>1, <3>2
    <3>4. cache[p].user_cfg.lane_split = "split"
      BY <3>1, <3>2, <3>3 DEF NoReason
    <3>5. cache[p].user_cfg.lane_split = "no-split"
      BY <3>2, <3>3 DEF NoReason
    <3> QED BY <3>4, <3>5
  <2> QED BY <2>1, <2>4 DEF SplitInv
<1>5. CASE Commit
  <2>1. pc = "commit" /\ pc' = "idle" /\ dbCol' = col /\ failures' = failures
    BY <1>5 DEF Commit, bounds
  <2> QED BY <2>1 DEF SplitInv
<1>6. CASE CommitFails
  BY <1>6 DEF CommitFails, ColumnsInv, TypeInv, LocalInv
<1>7. CASE Restart \/ Reconnect
  <2>1. /\ pc' = "idle" /\ failures' = failures
        /\ dbCol' = dbCol \/ (pc = "commit" /\ dbCol' = col)
    BY <1>7 DEF Restart, RestartWith, Reconnect, MayLand
  <2> QED BY <2>1 DEF SplitInv
<1> QED BY <1>1, <1>2, <1>3, <1>4, <1>5, <1>6, <1>7 DEF Next, Pass

(* A splittable interface and one of its lanes are never enabled together  *)
(* in the database, unless a commit was lost: whatever the order of the    *)
(* changes and of the walk, restarts and lost connections included.        *)
THEOREM SplitIsExclusive == Spec => []SplitExclusive
<1>1. Init => SplitInv
  BY DEF Init, SplitInv, Exclusive, NoColumns, IsEnabled, DisabledConfig
<1>2. SplitInv => SplitExclusive
  BY DEF SplitInv, Exclusive, SplitExclusive
<1> QED BY <1>1, <1>2, SplitStep, ColumnsInvariant, PTL DEF Spec

-----------------------------------------------------------------------------
(* Who is enabled, and its row.                                            *)

Absent(m) == m.connector = "ABSENT"

(* Only an interface with a pluggable module has lanes.                    *)
SplitIsPluggable == \A i \in Interface : Children(i) # {} => HwOf[i].pluggable

(* A lane without a module is one of an interface without: the cached      *)
(* modules agree, or the lane was handled before its parent in this batch  *)
(* and is ahead of it.  (A restart or lost connection may hide the change  *)
(* of the parent's.)                                                       *)
LaneInv ==
    restarts = 0 =>
        /\ reborn \subseteq Virtual
        /\ pc \in {"idle", "commit"} => insI \cap allI \cap Physical = {}
        /\ \A c \in Physical \cap allI : ParentOf[c] # NoParent =>
              \/ PendingInsert(c)
              \/ Absent(cache[c].pm_info) <=> Absent(cache[ParentOf[c]].pm_info)
              \/ /\ pc = "intf_mods" /\ Pending(ParentOf[c])
                 /\ Absent(cache[c].pm_info) <=> Absent(PmOf(ParentOf[c]))

LEMMA AbsentLane ==
    ASSUME SplitIsPluggable, NEW c \in Interface, ParentOf[c] # NoParent
    PROVE  /\ Absent(PmOf(c)) <=> Absent(PmOf(ParentOf[c]))
           /\ PmOf(c) = intfd_parse_split_pm_info(pm[ParentOf[c]])
<1>1. PICK p : p = ParentOf[c]
  OBVIOUS
<1>2. p \in Interface /\ c \in Children(p) /\ ParentOf[p] = NoParent
  BY <1>1, ParentsArePhysical DEF Children, Physical
<1>3. HwOf[p].pluggable
  BY <1>2 DEF SplitIsPluggable
<1>4. PICK m, h : m = pm[p] /\ h = intfd_parse_hw_info(HwOf[p])
  OBVIOUS
<1>5. h.is_pluggable
  BY <1>3, <1>4 DEF intfd_parse_hw_info
<1>6. Absent(intfd_parse_pm_info(h, m)) <=> m.connector = "ABSENT"
  BY <1>5 DEF Absent, intfd_parse_pm_info, PmInfo, Connectors
<1>7. Absent(intfd_parse_split_pm_info(m)) <=> m.connector = "ABSENT"
  BY DEF Absent, intfd_parse_split_pm_info, PmInfo, LaneOf
<1>8. PmOf(p) = intfd_parse_pm_info(h, m) /\ PmOf(c) = intfd_parse_split_pm_info(m)
  BY <1>1, <1>2, <1>4 DEF PmOf
<1> QED BY <1>1, <1>4, <1>6, <1>7, <1>8

LEMMA PortStepModules ==
    ASSUME TypeInv, PortStep
    PROVE  \A i \in rows : cache'[i].pm_info = cache[i].pm_info
<1> SUFFICES ASSUME NEW i \in rows PROVE cache'[i].pm_info = cache[i].pm_info
  OBVIOUS
<1>1. PICK p \in ports : IF p \in allP THEN PortMod(p) ELSE UNCHANGED <<cache, col, rc, pmem>>
  BY DEF PortStep, TypeInv, BatchInv
<1>2. allI = rows /\ i \in Interface
  BY DEF PortStep, TypeInv, BatchInv, ReplicaInv
<1>3. CASE p \in allP
  <2>1. i \in Kept(p) \/ i \in Lost(p) => cache'[i].pm_info = cache[i].pm_info
    BY <1>1, <1>2, <1>3, PortModIs DEF TypeInv
  <2>2. i \notin Kept(p) \cup Lost(p) => cache'[i].pm_info = cache[i].pm_info
    BY <1>1, <1>2, <1>3, PortModIs DEF TypeInv
  <2> QED BY <2>1, <2>2
<1> QED BY <1>1, <1>3

LEMMA IntfStepLanes ==
    ASSUME SplitIsPluggable
    PROVE  TypeInv /\ TracksInv /\ LaneInv /\ IntfStep => LaneInv'
<1> SUFFICES ASSUME TypeInv, TracksInv, LaneInv, IntfStep, restarts' = 0 PROVE LaneInv'
  BY DEF LaneInv
<1>0. NoParent \notin Interface
  BY ReconfigAssumption
<1>1. PICK j \in todo : /\ todo' = todo \ {j}
                        /\ IF j \in insI THEN IntfInserted(j) ELSE IntfModified(j)
                        /\ reborn' \in {reborn, reborn \ {j}}
  BY DEF IntfStep
<1>2. /\ pc = "intf_mods" /\ UNCHANGED <<rows, uc, pm, allI, insI, modI, pc, restarts>>
      /\ allI = rows /\ rows \subseteq Interface /\ Physical \subseteq rows
      /\ j \in rows /\ j \in insI \cup modI
  BY <1>1 DEF IntfStep, replica, tracking, bounds, TypeInv, BatchInv, ReplicaInv
<1>3. reborn \subseteq Virtual /\ reborn' \subseteq Virtual
  BY <1>1, <1>2 DEF LaneInv
<1> SUFFICES ASSUME NEW c \in Physical, ParentOf[c] # NoParent, ~PendingInsert(c)'
             PROVE  \/ Absent(cache'[c].pm_info) <=> Absent(cache'[ParentOf[c]].pm_info)
                    \/ /\ Pending(ParentOf[c])'
                       /\ Absent(cache'[c].pm_info) <=> Absent(PmOf(ParentOf[c]))'
  BY <1>2, <1>3 DEF LaneInv
<1>4. PICK p : p = ParentOf[c]
  OBVIOUS
<1>5. /\ c \in Interface /\ c \in rows /\ p \in Interface /\ p \in rows /\ p \in Physical /\ p # c
      /\ ParentOf[p] = NoParent /\ c \in Children(p)
  BY <1>2, <1>4, ParentsArePhysical DEF Children, Physical
<1>6. /\ Absent(PmOf(c)) <=> Absent(PmOf(p))
      /\ PmOf(c) = intfd_parse_split_pm_info(pm[p])
  BY <1>4, <1>5, AbsentLane
<1>7. PmOf(p)' = PmOf(p)
  BY <1>2, RowsStill
<1>8. Pending(p) <=> p \in todo /\ p \in modI \ insI
  BY <1>2 DEF Pending
<1>9. Pending(p)' <=> p \in todo /\ p # j /\ p \in modI \ insI
  BY <1>1, <1>2 DEF Pending
<1>10. cache[p].pm_info = PmOf(p) \/ Pending(p)
  BY <1>2, <1>3, <1>5 DEF TracksInv, Fresh, Virtual
<1>11. PICK k : k = cache'
  OBVIOUS
<1> SUFFICES \/ Absent(k[c].pm_info) <=> Absent(k[p].pm_info)
             \/ Pending(p)' /\ (Absent(k[c].pm_info) <=> Absent(PmOf(p)))
  BY <1>4, <1>7, <1>11
<1>12. CASE j = c
  <2>1. k[c].pm_info = PmOf(c)
    <3>1. CASE j \in insI
      BY <1>1, <1>2, <1>4, <1>5, <1>11, <1>12, <3>1, IntfInsertedIs DEF TypeInv
    <3>2. CASE j \notin insI
      BY <1>1, <1>2, <1>11, <1>12, <3>2, IntfModifiedIs DEF TypeInv
    <3> QED BY <3>1, <3>2
  <2>2. k[p].pm_info = cache[p].pm_info
    <3>1. CASE j \in insI
      BY <1>1, <1>2, <1>5, <1>11, <1>12, <3>1, IntfInsertedIs DEF TypeInv
    <3>2. CASE j \notin insI
      <4>1. p \notin {j} \cup Children(j)
        BY <1>0, <1>4, <1>5, <1>12 DEF Children
      <4> QED BY <1>1, <1>2, <1>5, <1>11, <3>2, <4>1, IntfModifiedIs DEF TypeInv
    <3> QED BY <3>1, <3>2
  <2>3. Pending(p) => Pending(p)'
    BY <1>5, <1>8, <1>9, <1>12
  <2> QED BY <1>6, <1>10, <2>1, <2>2, <2>3
<1>13. CASE j # c
  <2>1. \/ Absent(cache[c].pm_info) <=> Absent(cache[p].pm_info)
        \/ Pending(p) /\ (Absent(cache[c].pm_info) <=> Absent(PmOf(p)))
    <3>1. ~PendingInsert(c)
      BY <1>1, <1>2, <1>5, <1>13 DEF PendingInsert
    <3> QED BY <1>2, <1>4, <1>5, <3>1 DEF LaneInv
  <2>2. CASE j \in insI
    <3>1. k[c].pm_info = cache[c].pm_info
      BY <1>1, <1>2, <1>5, <1>11, <1>13, <2>2, IntfInsertedIs DEF TypeInv
    <3>2. k[p].pm_info = cache[p].pm_info
      BY <1>1, <1>2, <1>5, <1>11, <2>2, IntfInsertedIs DEF TypeInv
    <3>3. Pending(p) => Pending(p)'
      BY <1>8, <1>9, <2>2
    <3> QED BY <2>1, <3>1, <3>2, <3>3
  <2>3. CASE j \notin insI /\ j = p
    <3>1. /\ k[p].pm_info = PmOf(p)
          /\ k[c].pm_info = IF PmChanged(p) THEN intfd_parse_split_pm_info(pm[p])
                                            ELSE cache[c].pm_info
      BY <1>1, <1>2, <1>5, <1>11, <2>3, IntfModifiedIs DEF TypeInv
    <3>2. ~PmChanged(p) => (Absent(cache[p].pm_info) <=> Absent(PmOf(p)))
      BY DEF PmChanged, Absent
    <3> QED BY <1>6, <2>1, <3>1, <3>2
  <2>4. CASE j \notin insI /\ j # p
    <3>1. p \notin {j} \cup Children(j) /\ c \notin {j} \cup Children(j)
      BY <1>0, <1>2, <1>4, <1>5, <1>13, <2>4 DEF Children
    <3>2. k[p] = cache[p] /\ k[c] = cache[c]
      BY <1>1, <1>2, <1>5, <1>11, <2>4, <3>1, IntfModifiedIs DEF TypeInv
    <3>3. Pending(p) => Pending(p)'
      BY <1>8, <1>9, <2>4
    <3> QED BY <2>1, <3>2, <3>3
  <2> QED BY <2>2, <2>3, <2>4
<1> QED BY <1>12, <1>13

LEMMA LaneStep ==
    ASSUME SplitIsPluggable
    PROVE  TypeInv /\ TracksInv /\ LinkInv /\ LaneInv /\ [Next]_vars => LaneInv'
<1> SUFFICES ASSUME TypeInv, TracksInv, LinkInv, LaneInv, [Next]_vars, restarts' = 0
             PROVE  LaneInv'
  BY DEF LaneInv
<1> USE DEF LaneInv
<1>0. Physical \subseteq rows
  BY DEF TypeInv, ReplicaInv
<1>1. CASE UNCHANGED vars
  BY <1>1 DEF vars, replica, tracking, caches, locals, history, bounds, PendingInsert, Pending, PmOf
<1>2. CASE Environment
  <2>1. /\ UNCHANGED <<pc, todo, allI, cache, reborn, restarts>> /\ pc \in {"idle", "commit"}
    BY <1>2, EnvironmentIs DEF caches, locals, history, bounds
  <2>2. \A i \in Physical : i \in insI <=> i \in insI'
    <3>1. Physical \subseteq rows'
      BY <1>2, ReplicaStep DEF TypeInv, ReplicaInv, Next
    <3> QED BY <1>0, <1>2, <3>1, EnvironmentIs
  <2> QED BY <2>1, <2>2 DEF PendingInsert
<1>3. CASE StartPass
  <2>1. /\ pc = "idle" /\ pc' = "ports" /\ UNCHANGED <<rows, insI, restarts>>
        /\ allI' = rows
        /\ reborn' = (reborn \cup (insI \cap allI \cap (modI \cup Virtual))) \cap rows
        /\ cache' = [i \in Interface |->
                        CASE i \in rows \ allI -> add_new_interface(i)
                          [] i \in rows \cap allI -> cache[i]
                          [] OTHER -> NoIface]
    BY <1>3 DEF StartPass, replica, tracking, bounds
  <2>2. rows \subseteq Interface
    BY DEF TypeInv, ReplicaInv
  <2>3. \A i \in rows \cap allI : cache'[i] = cache[i]
    BY <2>1, <2>2
  <2>4. reborn' \subseteq Virtual
    BY <2>1, <2>2 DEF Virtual
  <2>5. ASSUME NEW c \in Physical, ParentOf[c] # NoParent, ~PendingInsert(c)'
        PROVE  Absent(cache'[c].pm_info) <=> Absent(cache'[ParentOf[c]].pm_info)
    <3>1. c \in rows \cap allI /\ ~PendingInsert(c)
      BY <1>0, <2>1, <2>5 DEF PendingInsert, LinkInv
    <3>2. ParentOf[c] \in rows \cap allI
      BY <1>0, <2>2, <2>5, <3>1, ParentsArePhysical DEF LinkInv
    <3> QED BY <2>1, <2>3, <2>5, <3>1, <3>2
  <2> QED BY <2>1, <2>4, <2>5
<1>4. CASE AddPorts \/ SkipPorts \/ DeleteOnePort \/ NoOldPorts \/ PortsDone
  <2>1. /\ UNCHANGED <<rows, insI, allI, cache, reborn, restarts>>
        /\ pc' \in {"port_mods", "intf_mods"}
        /\ pc \in {"ports", "port_mods"} /\ (pc' = "intf_mods" => todo' = insI \cup modI)
    BY <1>4 DEF AddPorts, SkipPorts, DeleteOnePort, NoOldPorts, PortsDone, WalkPorts,
                replica, tracking, caches, history, bounds
  <2> QED BY <2>1 DEF PendingInsert
<1>5. CASE PortStep
  <2>1. /\ UNCHANGED <<rows, insI, allI, reborn, restarts, pc>> /\ pc = "port_mods" /\ allI = rows
    BY <1>5 DEF PortStep, replica, tracking, bounds, TypeInv, BatchInv
  <2>2. \A i \in rows : cache'[i].pm_info = cache[i].pm_info
    BY <1>5, PortStepModules
  <2>3. \A c \in Physical : ParentOf[c] # NoParent => ParentOf[c] \in rows
    BY <1>0, ParentsArePhysical DEF Physical
  <2> QED BY <1>0, <2>1, <2>2, <2>3 DEF PendingInsert
<1>6. CASE EndPass
  <2>1. /\ pc = "intf_mods" /\ todo = {} /\ insI' = {} /\ UNCHANGED <<allI, cache, reborn, restarts>>
        /\ \A i : ~Pending(i) /\ ~PendingInsert(i)
    BY <1>6 DEF EndPass, EndPassWith, caches, history, bounds, Pending, PendingInsert
  <2> QED BY <2>1
<1>7. CASE Commit \/ CommitFails
  <2>1. pc = "commit" /\ pc' = "idle" /\ UNCHANGED <<insI, allI, cache, reborn, restarts>>
    BY <1>7 DEF Commit, CommitFails, tracking, caches, history, bounds
  <2> QED BY <2>1 DEF PendingInsert
<1>8. CASE Restart \/ Reconnect
  BY <1>8 DEF Restart, RestartWith, Reconnect, TypeInv, LocalInv
<1> QED BY <1>1, <1>2, <1>3, <1>4, <1>5, <1>6, <1>7, <1>8, IntfStepLanes DEF Next, Pass, Walks

(* An interface is enabled only when its row says so, whatever happens to  *)
(* ports: no early exit of port_reconfigure makes intfd miss a change of   *)
(* an interface.                                                           *)
THEOREM EnabledAsConfigured ==
    ASSUME SplitIsPluggable
    PROVE  Spec => []EnabledNeedsRow
<1>1. Init => TracksInv /\ LaneInv
  BY DEF Init, TracksInv, LaneInv
<1>2. ColumnsInv /\ TracksInv /\ LaneInv /\ [Next]_vars => (TracksInv /\ LaneInv)'
  BY TracksStep, LaneStep DEF ColumnsInv
<1>3. ColumnsInv /\ TracksInv /\ LaneInv => EnabledNeedsRow
  <2> SUFFICES ASSUME ColumnsInv, TracksInv, LaneInv, pc = "idle", ~news, failures = 0,
                      NEW i \in rows \ reborn, IsEnabled(dbCol[i])
               PROVE  /\ uc[i].admin = "up"
                      /\ i \in Physical /\ (ParentOf[i] = NoParent \/ restarts = 0) =>
                            PmOf(i).connector # "ABSENT"
    BY DEF EnabledNeedsRow, Settled
  <2>1. /\ allI = rows /\ insI = {} /\ modI = {} /\ col = dbCol
        /\ rows \subseteq Interface /\ Physical \subseteq rows
    BY DEF ColumnsInv, TypeInv, BatchInv, ReplicaInv, WriteInv
  <2>2. NoReason(cache, i)
    BY <2>1 DEF ColumnsInv, EnabledInv, PendingInsert
  <2>3. \A k \in rows \ reborn : Fresh(k)
    BY <2>1 DEF TracksInv, Pending
  <2>4. uc[i].admin = "up"
    <3>1. UserCfgOf(i).admin_state = "up"
      BY <2>2, <2>3 DEF NoReason, Fresh
    <3>2. UserCfgOf(i).admin_state = IF uc[i].admin = "up" THEN "up" ELSE "down"
      BY DEF UserCfgOf, intfd_parse_user_cfg
    <3> QED BY <3>1, <3>2
  <2>5. ASSUME i \in Physical, ParentOf[i] = NoParent PROVE PmOf(i).connector # "ABSENT"
    BY <2>2, <2>3, <2>5 DEF NoReason, Fresh
  <2>6. ASSUME i \in Physical, ParentOf[i] # NoParent, restarts = 0
        PROVE  PmOf(i).connector # "ABSENT"
    <3>1. PICK p : p = ParentOf[i]
      OBVIOUS
    <3>2. i \in Interface /\ p \in Physical /\ p \in rows \ reborn /\ ParentOf[p] = NoParent
      BY <2>1, <2>6, <3>1, ParentsArePhysical DEF LaneInv, Virtual
    <3>3. Absent(cache[i].pm_info) <=> Absent(cache[p].pm_info)
      BY <2>1, <2>6, <3>1 DEF LaneInv, PendingInsert
    <3>4. cache[p].pm_info = PmOf(p)
      BY <2>3, <3>2 DEF Fresh
    <3>5. ~Absent(cache[i].pm_info)
      BY <2>2, <2>6 DEF NoReason, Absent
    <3>6. Absent(PmOf(i)) <=> Absent(PmOf(p))
      BY <2>6, <3>1, <3>2, AbsentLane
    <3>7. ~Absent(PmOf(i))
      BY <3>3, <3>4, <3>5, <3>6
    <3> QED BY <3>7 DEF Absent
  <2> QED BY <2>4, <2>5, <2>6
<1> QED BY <1>1, <1>2, <1>3, ColumnsInvariant, PTL DEF Spec

-----------------------------------------------------------------------------
(* The columns are those computed from the caches.                         *)

Sync(i) == PendingInsert(i) \/ Computed(col[i], cache[i], FamilyOf(cache, linked, i))

(* What was computed stays so while nothing it was computed from moves.    *)
LEMMA ComputedStays ==
    ASSUME NEW k, NEW c, NEW d, NEW lk, NEW lm, NEW i \in Interface, i \in lk, i \in lm,
           Computed(k, c[i], FamilyOf(c, lk, i)), SameConfig(c[i], d[i]),
           ParentOf[i] # NoParent =>
              d[ParentOf[i]].user_cfg.lane_split = c[ParentOf[i]].user_cfg.lane_split
    PROVE  Computed(k, d[i], FamilyOf(d, lm, i))
<1>1. FamilyOf(d, lm, i) = FamilyOf(c, lk, i)
  BY DEF FamilyOf
<1>2. PICK x, f : /\ f = FamilyOf(c, lk, i)
                  /\ IsIface(x) /\ SameConfig(x, c[i]) /\ k = set_interface_config(x, f).out
  BY DEF Computed
<1>3. SameConfig(x, d[i])
  BY <1>2 DEF SameConfig
<1> QED BY <1>1, <1>2, <1>3 DEF Computed

LEMMA IntfStepSync ==
    ASSUME TypeInv, LinkInv, IntfStep, NEW i \in rows, Sync(i),
           cache[i].port_admin = port_parse_admin(i)
    PROVE  Sync(i)' /\ cache'[i].port_admin = port_parse_admin(i)
<1>1. PICK j \in todo : /\ todo' = todo \ {j}
                        /\ IF j \in insI THEN IntfInserted(j) ELSE IntfModified(j)
  BY DEF IntfStep
<1>2. /\ pc = "intf_mods" /\ UNCHANGED <<rows, allI, insI, pc>>
      /\ allI = rows /\ rows \subseteq Interface /\ Physical \subseteq rows
      /\ j \in rows /\ i \in Interface
  BY <1>1 DEF IntfStep, replica, tracking, TypeInv, BatchInv, ReplicaInv
<1>3. ParentOf[i] # NoParent => ParentOf[i] \in rows /\ ParentOf[i] # i
  BY <1>2, ParentsArePhysical
<1>4. PICK c, lk : c = cache' /\ lk = linked'
  OBVIOUS
<1>5. CASE j \in insI
  <2>1. /\ lk = linked \cup {j}
        /\ \A k \in Interface \ {j} : c[k] = cache[k] /\ col'[k] = col[k]
        /\ c[j].user_cfg = cache[j].user_cfg /\ c[j].port_admin = cache[j].port_admin
        /\ Computed(col'[j], c[j], FamilyOf(c, lk, j))
    BY <1>1, <1>2, <1>4, <1>5, IntfInsertedIs DEF TypeInv
  <2>2. CASE i = j
    BY <1>4, <2>1, <2>2 DEF Sync
  <2>3. CASE i # j /\ PendingInsert(i)
    BY <1>1, <1>2, <1>4, <2>1, <2>3 DEF Sync, PendingInsert
  <2>4. CASE i # j /\ ~PendingInsert(i)
    <3>1. i \in linked /\ i \in lk
      BY <1>2, <2>1, <2>4 DEF LinkInv
    <3>2. c[i] = cache[i] /\ col'[i] = col[i]
      BY <1>2, <2>1, <2>4
    <3>3. ParentOf[i] # NoParent =>
             c[ParentOf[i]].user_cfg.lane_split = cache[ParentOf[i]].user_cfg.lane_split
      BY <1>2, <1>3, <2>1
    <3>4. Computed(col'[i], c[i], FamilyOf(c, lk, i))
      BY <1>2, <2>4, <3>1, <3>2, <3>3, ComputedStays DEF Sync, SameConfig
    <3> QED BY <1>4, <3>2, <3>4 DEF Sync
  <2> QED BY <2>2, <2>3, <2>4
<1>6. CASE j \notin insI
  <2>1. PICK cfg_changed, T :
           /\ Differs(cache[j], UserCfgOf(j), PmOf(j)) => cfg_changed
           /\ T = Targets(j, cfg_changed, SplitChanged(j))
           /\ lk = linked
           /\ c[j].user_cfg = UserCfgOf(j) /\ c[j].pm_info = PmOf(j)
           /\ c[j].type = cache[j].type /\ c[j].hw_info = cache[j].hw_info
           /\ c[j].port_admin = port_parse_admin(j)
           /\ \A k \in Children(j) :
                 /\ c[k].user_cfg = cache[k].user_cfg
                 /\ c[k].type = cache[k].type /\ c[k].hw_info = cache[k].hw_info
                 /\ c[k].port_admin = cache[k].port_admin
                 /\ ~PmChanged(j) => c[k].pm_info = cache[k].pm_info
           /\ \A k \in Interface \ ({j} \cup Children(j)) : c[k] = cache[k]
           /\ \A k \in Interface \ T : col'[k] = col[k]
           /\ \A k \in T : Computed(col'[k], c[k], FamilyOf(c, linked, k))
    BY <1>1, <1>2, <1>4, <1>6, IntfModifiedIs DEF TypeInv
  <2>2. c[i].port_admin = port_parse_admin(i)
    BY <1>2, <2>1
  <2>3. CASE i \in T
    BY <1>4, <2>1, <2>2, <2>3 DEF Sync
  <2>4. CASE PendingInsert(i)
    BY <1>1, <1>2, <1>4, <1>6, <2>2, <2>4 DEF Sync, PendingInsert
  <2>5. CASE i \notin T /\ ~PendingInsert(i)
    <3>1. i \in linked
      BY <1>2, <2>5 DEF LinkInv
    <3>2. SameConfig(cache[i], c[i])
      <4>1. CASE i = j
        <5>1. ~cfg_changed
          BY <2>1, <2>5, <4>1 DEF Targets
        <5> QED BY <2>1, <4>1, <5>1 DEF Differs, SameConfig
      <4>2. CASE i \in Children(j)
        <5>1. ~SplitChanged(j)
          BY <2>1, <2>5, <4>2 DEF Targets
        <5>2. ~PmChanged(j)
          BY <4>2, <5>1 DEF SplitChanged, PassOn
        <5> QED BY <2>1, <4>2, <5>2 DEF SameConfig
      <4>3. CASE i \notin {j} \cup Children(j)
        BY <1>2, <2>1, <4>3 DEF SameConfig
      <4> QED BY <4>1, <4>2, <4>3
    <3>3. ParentOf[i] # NoParent =>
             c[ParentOf[i]].user_cfg.lane_split = cache[ParentOf[i]].user_cfg.lane_split
      <4> SUFFICES ASSUME ParentOf[i] # NoParent
                   PROVE  c[ParentOf[i]].user_cfg.lane_split
                             = cache[ParentOf[i]].user_cfg.lane_split
        OBVIOUS
      <4>1. CASE ParentOf[i] = j
        <5>1. ~SplitChanged(j)
          BY <1>2, <2>1, <2>5, <4>1 DEF Targets, Children
        <5> QED BY <2>1, <4>1, <5>1 DEF SplitChanged
      <4>2. CASE ParentOf[i] # j
        BY <1>2, <1>3, <2>1, <4>2
      <4> QED BY <4>1, <4>2
    <3>4. Computed(col[i], c[i], FamilyOf(c, linked, i))
      BY <1>2, <2>5, <3>1, <3>2, <3>3, ComputedStays DEF Sync
    <3>5. col'[i] = col[i]
      BY <1>2, <2>1, <2>5
    <3> QED BY <1>4, <2>1, <2>2, <3>4, <3>5 DEF Sync
  <2> QED BY <2>3, <2>4, <2>5
<1> QED BY <1>5, <1>6

(* An interface's port is read again when its row is modified.             *)
LEMMA IntfStepPort ==
    ASSUME TypeInv, IntfStep
    PROVE  \A i \in rows : cache'[i].port_admin \in {cache[i].port_admin, port_parse_admin(i)}
<1>1. allI = rows /\ rows \subseteq Interface
  BY DEF IntfStep, TypeInv, BatchInv, ReplicaInv
<1>2. PICK j \in rows : IF j \in insI THEN IntfInserted(j) ELSE IntfModified(j)
  BY DEF IntfStep, TypeInv, BatchInv
<1>3. CASE j \in insI
  <2>1. /\ \A k \in Interface \ {j} : cache'[k] = cache[k]
        /\ cache'[j].port_admin = cache[j].port_admin
    BY <1>1, <1>2, <1>3, IntfInsertedIs DEF TypeInv
  <2> QED BY <1>1, <2>1
<1>4. CASE j \notin insI
  <2>1. /\ \A k \in Interface \ ({j} \cup Children(j)) : cache'[k] = cache[k]
        /\ \A k \in Children(j) : cache'[k].port_admin = cache[k].port_admin
        /\ cache'[j].port_admin = port_parse_admin(j)
    BY <1>1, <1>2, <1>4, IntfModifiedIs DEF TypeInv
  <2> QED BY <1>1, <2>1
<1> QED BY <1>3, <1>4

(* The steps of no walk over modified rows leave it at that; a row that is *)
(* new is to be inserted.                                                  *)
LEMMA SyncStays ==
    ASSUME TypeInv, LinkInv, WriteInv, [Next]_vars, failures' = 0,
           ~PortStep, ~IntfStep, ~DeleteOnePort,
           NEW i \in (rows \cap allI)', i \in rows \cap allI => Sync(i)
    PROVE  Sync(i)'
<1>1. CASE UNCHANGED vars
  BY <1>1 DEF vars, replica, tracking, caches, locals, Sync, PendingInsert
<1>2. CASE Environment
  <2>1. UNCHANGED <<pc, todo, allI, cache, linked>> /\ pc \in {"idle", "commit"}
    BY <1>2, EnvironmentIs DEF caches, locals
  <2>2. \/ i \in insI'
        \/ i \in rows /\ (i \in insI <=> i \in insI') /\ col'[i] = col[i]
    BY <1>2, EnvironmentIs
  <2> QED BY <2>1, <2>2 DEF Sync, PendingInsert
<1>3. CASE StartPass
  <2>1. /\ pc = "idle" /\ pc' = "ports" /\ UNCHANGED <<rows, insI, col>>
        /\ allI' = rows /\ linked' = linked \cap rows
        /\ cache' = [k \in Interface |->
                        CASE k \in rows \ allI -> add_new_interface(k)
                          [] k \in rows \cap allI -> cache[k]
                          [] OTHER -> NoIface]
    BY <1>3 DEF StartPass, replica, tracking
  <2>2. rows \subseteq Interface /\ Physical \subseteq rows
    BY DEF TypeInv, ReplicaInv
  <2>3. \A k \in rows \cap allI : cache'[k] = cache[k]
    BY <2>1, <2>2
  <2>4. CASE i \in insI
    BY <2>1, <2>4 DEF Sync, PendingInsert
  <2>5. CASE i \notin insI
    <3>1. i \in rows \cap allI /\ i \in Interface /\ ~PendingInsert(i) /\ i \in linked
      BY <2>1, <2>2, <2>5 DEF LinkInv, PendingInsert
    <3>2. ParentOf[i] # NoParent => ParentOf[i] \in rows \cap allI
      BY <2>2, <3>1, ParentsArePhysical DEF LinkInv
    <3>3. PICK c, lk : c = cache' /\ lk = linked'
      OBVIOUS
    <3>4. /\ c[i] = cache[i] /\ i \in lk
          /\ ParentOf[i] # NoParent => c[ParentOf[i]] = cache[ParentOf[i]]
      BY <2>1, <2>3, <3>1, <3>2, <3>3
    <3>5. Computed(col[i], c[i], FamilyOf(c, lk, i))
      BY <3>1, <3>4, ComputedStays DEF Sync, SameConfig
    <3> QED BY <2>1, <3>3, <3>5 DEF Sync
  <2> QED BY <2>4, <2>5
<1>4. CASE AddPorts \/ SkipPorts \/ NoOldPorts \/ PortsDone
  <2>1. /\ UNCHANGED <<rows, insI, allI, cache, linked, col>>
        /\ pc' \in {"port_mods", "intf_mods"}
        /\ pc \in {"ports", "port_mods"} /\ (pc' = "intf_mods" => todo' = insI \cup modI)
    BY <1>4 DEF AddPorts, SkipPorts, NoOldPorts, PortsDone, WalkPorts, replica, tracking, caches
  <2> QED BY <2>1 DEF Sync, PendingInsert
<1>5. CASE EndPass
  <2>1. /\ pc = "intf_mods" /\ todo = {} /\ UNCHANGED <<rows, allI, cache, linked>>
        /\ ~rc => col = dbCol
    BY <1>5 DEF EndPass, EndPassWith, replica, caches, WriteInv
  <2>2. col' = col
    BY <1>5, <2>1 DEF EndPass, EndPassWith
  <2> QED BY <2>1, <2>2 DEF Sync, PendingInsert
<1>6. CASE Commit
  <2>1. pc = "commit" /\ pc' = "idle" /\ UNCHANGED <<rows, insI, allI, cache, linked, col>>
    BY <1>6 DEF Commit, replica, tracking, caches
  <2> QED BY <2>1 DEF Sync, PendingInsert
<1>7. CASE CommitFails
  BY <1>7 DEF CommitFails, TypeInv, LocalInv
<1>8. CASE Restart \/ Reconnect
  <2>1. insI' = rows /\ rows' = rows /\ pc' = "idle"
    BY <1>8 DEF Restart, RestartWith, Reconnect, replica
  <2> QED BY <2>1 DEF Sync, PendingInsert
<1> QED BY <1>1, <1>2, <1>3, <1>4, <1>5, <1>6, <1>7, <1>8 DEF Next, Pass, Walks

-----------------------------------------------------------------------------
(* While ports do not change.                                              *)

FixedInv ==
    /\ rows = Physical /\ ~delP /\ modP = {}
    /\ \A i \in rows \cap allI : cache[i].port_admin = port_parse_admin(i)
    /\ failures = 0 => \A i \in rows \cap allI : Sync(i)

LEMMA FixedStep ==
    ASSUME Events \cap PortEvents = {}, TypeInv, LinkInv, WriteInv, FixedInv, [Next]_vars
    PROVE  FixedInv'
<1>1. UNCHANGED <<rows, ports, padmin, members>>
  <2>1. CASE Environment
    <3>1. UserConfigWrite \/ PmInfoWrite \/ StatusWrite
      BY <2>1 DEF Environment, RowsStay, PortAdminWrite, PortMembersWrite, PortInsert, PortDelete,
                  VirtualInsert, VirtualDelete, Others, PortEvents
    <3> QED BY <3>1 DEF UserConfigWrite, PmInfoWrite, StatusWrite, replica
  <2>2. CASE UNCHANGED vars
    BY <2>2 DEF vars, replica
  <2>3. CASE Pass \/ CommitFails \/ Restart \/ Reconnect
    BY <2>3, ReplicaStays DEF replica
  <2> QED BY <2>1, <2>2, <2>3 DEF Next
<1>2. ~PortStep /\ ~DeleteOnePort
  BY DEF PortStep, DeleteOnePort, FixedInv, TypeInv, BatchInv
<1>3. ~delP' /\ modP' = {}
  <2>1. CASE Environment
    <3>1. UserConfigWrite \/ PmInfoWrite \/ StatusWrite
      BY <2>1 DEF Environment, RowsStay, PortAdminWrite, PortMembersWrite, PortInsert, PortDelete,
                  VirtualInsert, VirtualDelete, Others, PortEvents
    <3> QED BY <3>1 DEF UserConfigWrite, PmInfoWrite, StatusWrite, FixedInv
  <2>2. CASE UNCHANGED vars
    BY <2>2 DEF vars, tracking, FixedInv
  <2>3. CASE StartPass \/ AddPorts \/ SkipPorts \/ NoOldPorts \/ PortsDone \/ IntfStep
    BY <2>3 DEF StartPass, AddPorts, SkipPorts, NoOldPorts, PortsDone, IntfStep, tracking, FixedInv
  <2>4. CASE EndPass
    BY <2>4 DEF EndPass, EndPassWith
  <2>5. CASE Commit \/ CommitFails
    BY <2>5 DEF Commit, CommitFails, tracking, FixedInv
  <2>6. CASE Restart \/ Reconnect
    BY <2>6 DEF Restart, RestartWith, Reconnect
  <2> QED BY <1>2, <2>1, <2>2, <2>3, <2>4, <2>5, <2>6 DEF Next, Pass, Walks
<1>4. \A i : port_parse_admin(i)' = port_parse_admin(i)
  BY <1>1 DEF port_parse_admin, get_matching_port_row
<1>5. ASSUME NEW i \in (rows \cap allI)' PROVE cache'[i].port_admin = port_parse_admin(i)
  <2>1. CASE IntfStep
    <3>1. allI = rows /\ allI' = allI /\ rows \subseteq Interface
      BY <2>1 DEF IntfStep, TypeInv, BatchInv, ReplicaInv
    <3>2. cache[i].port_admin = port_parse_admin(i) /\ i \in Interface
      BY <1>1, <3>1 DEF FixedInv
    <3> QED BY <2>1, <3>1, <3>2, IntfStepPort
  <2>2. CASE StartPass
    <3>1. i \in rows /\ i \in Interface
      BY <1>1 DEF TypeInv, ReplicaInv
    <3>2. cache'[i] = IF i \in allI THEN cache[i] ELSE add_new_interface(i)
      BY <2>2, <3>1 DEF StartPass
    <3> QED BY <3>1, <3>2 DEF add_new_interface, FixedInv
  <2>3. CASE Restart
    BY <2>3 DEF Restart, RestartWith
  <2>4. CASE ~(IntfStep \/ StartPass \/ Restart)
    <3>1. UNCHANGED <<allI, cache>>
      <4>1. CASE Environment
        BY <4>1, EnvironmentIs DEF caches
      <4>2. CASE UNCHANGED vars
        BY <4>2 DEF vars, caches
      <4>3. CASE AddPorts \/ SkipPorts \/ NoOldPorts \/ PortsDone \/ EndPass \/ Commit
        BY <4>3 DEF AddPorts, SkipPorts, NoOldPorts, PortsDone, EndPass, EndPassWith, Commit, caches
      <4>4. CASE CommitFails \/ Reconnect
        BY <4>4 DEF CommitFails, Reconnect, caches
      <4> QED BY <1>2, <2>4, <4>1, <4>2, <4>3, <4>4 DEF Next, Pass, Walks
    <3> QED BY <1>1, <3>1 DEF FixedInv
  <2> QED BY <2>1, <2>2, <2>3, <2>4
<1>6. ASSUME failures' = 0, NEW i \in (rows \cap allI)' PROVE Sync(i)'
  <2>1. failures = 0
    BY <1>6 DEF Next, Pass, Walks, Environment, RowsStay, UserConfigWrite, PmInfoWrite,
       StatusWrite, PortAdminWrite, PortMembersWrite, PortInsert, PortDelete, VirtualInsert,
       VirtualDelete, Others, StartPass, AddPorts, SkipPorts, DeleteOnePort, NoOldPorts, PortStep,
       PortsDone, IntfStep, EndPass, EndPassWith, Commit, CommitFails, Restart, RestartWith,
       Reconnect, vars, bounds, TypeInv, LocalInv
  <2>2. i \in rows \cap allI => Sync(i)
    BY <2>1 DEF FixedInv
  <2>3. CASE IntfStep
    <3>1. i \in rows \cap allI
      BY <1>1, <1>6, <2>3 DEF IntfStep
    <3>2. cache[i].port_admin = port_parse_admin(i)
      BY <3>1 DEF FixedInv
    <3> QED BY <2>2, <2>3, <3>1, <3>2, IntfStepSync
  <2>4. CASE ~IntfStep
    BY <1>2, <1>6, <2>2, <2>4, SyncStays
  <2> QED BY <2>3, <2>4
<1> QED BY <1>1, <1>3, <1>4, <1>5, <1>6 DEF FixedInv

(* What FreshColumns computes from a fresh iface with the cached module    *)
(* and port.                                                               *)
LEMMA FreshColumnsAre ==
    ASSUME NEW i \in Interface, i \in Physical, IfaceOf(cache[i], i),
           cache[i].user_cfg = UserCfgOf(i),
           NEW f, f = FreshFamily(i)
    PROVE  set_interface_config(cache[i], f).out = FreshColumns(i)
<1>1. PICK a, x, m, b : /\ a = add_new_interface(i) /\ x = cache[i]
                        /\ m = cache[i].pm_info /\ b = cache[i].port_admin
  OBVIOUS
<1>2. IfaceOf(a, i) /\ a.user_cfg = UserCfgOf(i)
  BY <1>1, NewIfaceIs DEF add_new_interface
<1>3. PICK y : y = [a EXCEPT !.pm_info = m]
  OBVIOUS
<1>4. IfaceOf(y, i) /\ y.user_cfg = UserCfgOf(i) /\ y.pm_info = m
  BY <1>2, <1>3 DEF IfaceOf, IsIface
<1>5. PICK z : z = [y EXCEPT !.port_admin = b]
  OBVIOUS
<1>6. b \in {"up", "down"}
  BY <1>1 DEF IfaceOf, IsIface
<1>7. IfaceOf(z, i) /\ z.user_cfg = UserCfgOf(i) /\ z.pm_info = m /\ z.port_admin = b
  BY <1>4, <1>5, <1>6 DEF IfaceOf, IsIface
<1>8. z = [add_new_interface(i) EXCEPT !.pm_info = cache[i].pm_info,
                                       !.port_admin = cache[i].port_admin]
  BY <1>1, <1>3, <1>5
<1>9. SameConfig(x, z) /\ IsIface(x) /\ IsIface(z) /\ x.type \notin VirtualTypes
  BY <1>1, <1>7 DEF SameConfig, IfaceOf, Physical
<1>10. set_interface_config(x, f).out = set_interface_config(z, f).out
  BY <1>9, OutcomeIgnoresHistory
<1> QED BY <1>1, <1>8, <1>10 DEF FreshColumns

(* The columns are a function of the rows: in whatever batches and walks   *)
(* the changes were handled, nothing was missed, computed from a stale     *)
(* parent or left from an earlier configuration, invalid ones included.    *)
THEOREM ColumnsFollow ==
    ASSUME Events \cap PortEvents = {}
    PROVE  Spec => []ColumnsFollowRows
<1>1. Init => TracksInv /\ FixedInv
  BY DEF Init, TracksInv, FixedInv
<1>2. ColumnsInv /\ TracksInv /\ FixedInv /\ [Next]_vars => (TracksInv /\ FixedInv)'
  BY TracksStep, FixedStep DEF ColumnsInv
<1>3. ColumnsInv /\ TracksInv /\ FixedInv => ColumnsFollowRows
  <2> SUFFICES ASSUME ColumnsInv, TracksInv, FixedInv, pc = "idle", ~news, failures = 0,
                      NEW i \in rows, {i, ParentOf[i]} \cap reborn = {}
               PROVE  dbCol[i] = FreshColumns(i)
    BY DEF ColumnsFollowRows, Settled
  <2>1. /\ allI = rows /\ insI = {} /\ modI = {} /\ col = dbCol
        /\ rows \subseteq Interface /\ Physical = rows /\ i \in Interface
    BY DEF ColumnsInv, TypeInv, BatchInv, ReplicaInv, WriteInv, FixedInv
  <2>2. \A k \in rows \ reborn : cache[k].user_cfg = UserCfgOf(k)
    BY <2>1 DEF TracksInv, Pending, Fresh
  <2>3. Computed(dbCol[i], cache[i], FamilyOf(cache, linked, i)) /\ i \in linked
    BY <2>1 DEF ColumnsInv, LinkInv, FixedInv, Sync, PendingInsert
  <2>4. FamilyOf(cache, linked, i) = FreshFamily(i)
    <3>1. ParentOf[i] # NoParent => ParentOf[i] \in rows \ reborn
      BY <2>1, ParentsArePhysical
    <3>2. ParentOf[i] # NoParent =>
             cache[ParentOf[i]].user_cfg.lane_split = UserCfgOf(ParentOf[i]).lane_split
      BY <2>2, <3>1
    <3> QED BY <2>3, <3>2 DEF FamilyOf, FreshFamily
  <2>5. IfaceOf(cache[i], i) /\ i \in Physical
    BY <2>1 DEF ColumnsInv, TypeInv, CacheInv
  <2>6. PICK f, x : f = FamilyOf(cache, linked, i) /\ x = cache[i]
    OBVIOUS
  <2>7. IsIface(x) /\ Computed(dbCol[i], x, f) /\ x.type \notin VirtualTypes
    BY <2>3, <2>5, <2>6 DEF IfaceOf, Physical
  <2>8. dbCol[i] = set_interface_config(x, f).out
    BY <2>7, ComputedIs
  <2>9. cache[i].user_cfg = UserCfgOf(i)
    BY <2>2
  <2>10. set_interface_config(x, f).out = FreshColumns(i)
    BY <2>1, <2>4, <2>5, <2>6, <2>9, FreshColumnsAre
  <2> QED BY <2>8, <2>10
<1> QED BY <1>1, <1>2, <1>3, ColumnsInvariant, PTL DEF Spec

-----------------------------------------------------------------------------
(* While no Port row is deleted.                                           *)

AdminOf(p) == IF padmin[p] # "down" THEN "up" ELSE "down"

(* The port an interface is in, or was when its change is still to be      *)
(* handled.                                                                *)
HasPort(i) ==
    \/ \E p \in allP : i \in pmem[p]
    \/ pc \in {"ports", "port_mods"} /\ \E p \in ports : i \in members[p]

(* Outside a port nothing is up; in one that intfd has heard of, what is   *)
(* cached and written is what the port makes of it, unless that is pending.*)
HeardInv ==
    /\ rows = Physical
    /\ \A i \in rows \cap allI : cache[i].port_admin = "up" => HasPort(i)
    /\ failures = 0 => \A i \in rows \cap allI :
          IsEnabled(col[i]) => PendingInsert(i) \/ HasPort(i)
    /\ \A p \in (ports \cap allP) \ unheard : \A i \in members[p] \cap pmem[p] \cap allI :
          MembersPending(p) \/ /\ cache[i].port_admin = AdminOf(p)
                               /\ failures = 0 => Sync(i)
    /\ pc = "ports" => \A p \in ports \ (allP \cup unheard) : \A i \in members[p] \cap allI :
          cache[i].port_admin = AdminOf(p) /\ PendingInsert(i)

LEMMA AdminOfPort ==
    ASSUME ReplicaInv, NEW p \in ports, NEW i \in members[p]
    PROVE  port_parse_admin(i) = AdminOf(p) /\ get_matching_port_row(i) = {p}
<1>1. get_matching_port_row(i) = {p}
  BY DEF get_matching_port_row, ReplicaInv
<1> QED BY <1>1 DEF port_parse_admin, AdminOf

(* What the steps between the walks leave in place.                        *)
LEMMA HasPortStays ==
    ASSUME NEW i, HasPort(i), allP \subseteq allP', \A p \in allP : pmem'[p] = pmem[p],
           \/ pc \in {"idle", "commit", "intf_mods"}
           \/ pc' \in {"ports", "port_mods"} /\ UNCHANGED <<ports, members>>
    PROVE  HasPort(i)'
  BY DEF HasPort

LEMMA FailuresStay == TypeInv /\ [Next]_vars /\ failures' = 0 => failures = 0
  BY DEF Next, Pass, Walks, Environment, RowsStay, UserConfigWrite, PmInfoWrite,
     StatusWrite, PortAdminWrite, PortMembersWrite, PortInsert, PortDelete, VirtualInsert,
     VirtualDelete, Others, StartPass, AddPorts, SkipPorts, DeleteOnePort, NoOldPorts, PortStep,
     PortsDone, IntfStep, EndPass, EndPassWith, Commit, CommitFails, Restart, RestartWith,
     Reconnect, vars, bounds, TypeInv, LocalInv

LEMMA PortStepHeard == TypeInv /\ PortsInv /\ LinkInv /\ HeardInv /\ PortStep => HeardInv'
<1> SUFFICES ASSUME TypeInv, PortsInv, LinkInv, HeardInv, PortStep PROVE HeardInv'
  OBVIOUS
<1>1. PICK q \in ports : /\ todo' = todo \ {q} /\ unheard' = unheard \ {q}
                         /\ IF q \in allP THEN PortMod(q) ELSE UNCHANGED <<cache, col, rc, pmem>>
  BY DEF PortStep, TypeInv, BatchInv
<1>2. /\ pc = "port_mods"
      /\ UNCHANGED <<rows, ports, members, padmin, allI, allP, insI, linked, pc, failures>>
      /\ allI = rows /\ rows \subseteq Interface /\ Physical \subseteq rows
      /\ ports \subseteq allP /\ ports \subseteq PortName
      /\ \A p \in ports : members[p] \subseteq rows
  BY DEF PortStep, replica, tracking, bounds, TypeInv, BatchInv, ReplicaInv, PortsInv
<1>3. PortMod(q)
  BY <1>1, <1>2
<1>4. PICK c : c = cache'
  OBVIOUS
<1>5. /\ pmem' = [pmem EXCEPT ![q] = members[q]]
      /\ \A i \in Interface \ (Kept(q) \cup Lost(q)) : c[i] = cache[i] /\ col'[i] = col[i]
      /\ \A i \in Lost(q) : /\ c[i].user_cfg = cache[i].user_cfg
                            /\ c[i].port_admin = "down" /\ ~IsEnabled(col'[i])
      /\ \A i \in Kept(q) : /\ c[i].port_admin = port_parse_admin(i)
                            /\ c[i].user_cfg.lane_split = cache[i].user_cfg.lane_split
                            /\ Computed(col'[i], c[i], FamilyOf(c, linked, i))
  BY <1>2, <1>3, <1>4, PortModIs DEF TypeInv
<1>6. \A p \in PortName : pmem'[p] = IF p = q THEN members[q] ELSE pmem[p]
  BY <1>2, <1>5 DEF TypeInv, CacheInv
<1>7. \A i \in Kept(q) : HasPort(i)'
  <2>1. \A i \in Kept(q) : \E p \in ports : i \in members[p]
    BY DEF Kept, get_matching_port_row
  <2> QED BY <1>2, <2>1 DEF HasPort
<1>8. ASSUME NEW i \in rows, i \notin Kept(q) \cup Lost(q), HasPort(i) PROVE HasPort(i)'
  <2>1. i \notin pmem[q]
    BY <1>8 DEF Kept, Lost, Detached
  <2> QED BY <1>2, <1>6, <1>8, <2>1 DEF HasPort, TypeInv, CacheInv
<1>9. \A i \in rows : c[i].port_admin = "up" => HasPort(i)'
  BY <1>2, <1>5, <1>7, <1>8 DEF HeardInv
<1>10. failures = 0 => \A i \in rows : IsEnabled(col'[i]) => PendingInsert(i)' \/ HasPort(i)'
  BY <1>2, <1>5, <1>7, <1>8 DEF HeardInv, PendingInsert
<1>11. ASSUME NEW p \in (ports \cap allP) \ unheard', NEW i \in members[p] \cap pmem'[p],
              ~MembersPending(p)'
       PROVE  c[i].port_admin = AdminOf(p) /\ (failures = 0 => Sync(i)')
  <2>1. i \in rows /\ i \in Interface
    BY <1>2
  <2>2. port_parse_admin(i) = AdminOf(p)
    BY AdminOfPort DEF TypeInv
  <2>3. CASE i \in Kept(q)
    <3>1. PICK lk : lk = linked'
      OBVIOUS
    <3> QED BY <1>2, <1>4, <1>5, <2>2, <2>3, <3>1 DEF Sync
  <2>4. CASE i \notin Kept(q)
    <3>1. p # q /\ i \notin members[q]
      BY <2>4 DEF Kept
    <3>2. i \in pmem[p] /\ p \notin unheard /\ ~MembersPending(p)
      BY <1>1, <1>2, <1>6, <1>11, <3>1 DEF MembersPending
    <3>3. cache[i].port_admin = AdminOf(p) /\ (failures = 0 => Sync(i))
      BY <1>2, <2>1, <3>2 DEF HeardInv
    <3>4. i \notin Lost(q)
      <4>1. p \in get_matching_port_row(i)
        BY DEF get_matching_port_row
      <4> QED BY <4>1 DEF Lost
    <3>5. c[i] = cache[i] /\ col'[i] = col[i]
      BY <1>5, <2>1, <2>4, <3>4
    <3>6. ASSUME failures = 0 PROVE Sync(i)'
      <4>1. CASE PendingInsert(i)
        BY <1>2, <4>1 DEF Sync, PendingInsert
      <4>2. CASE ~PendingInsert(i)
        <5>1. i \in linked
          BY <1>2, <2>1, <4>2 DEF LinkInv
        <5>2. ParentOf[i] # NoParent => ParentOf[i] \in Interface
          BY <2>1, ParentsArePhysical DEF Physical
        <5>3. \A k \in Interface : c[k].user_cfg.lane_split = cache[k].user_cfg.lane_split
          BY <1>5
        <5>4. Computed(col[i], c[i], FamilyOf(c, linked, i))
          BY <2>1, <3>3, <3>5, <3>6, <4>2, <5>1, <5>2, <5>3, ComputedStays DEF Sync, SameConfig
        <5> QED BY <1>2, <1>4, <3>5, <5>4 DEF Sync
      <4> QED BY <4>1, <4>2
    <3> QED BY <3>3, <3>5, <3>6
  <2> QED BY <2>3, <2>4
<1>12. \A p : AdminOf(p)' = AdminOf(p)
  BY <1>2 DEF AdminOf
<1>13. rows' = Physical
  BY <1>2 DEF HeardInv
<1> QED BY <1>2, <1>4, <1>9, <1>10, <1>11, <1>12, <1>13 DEF HeardInv

(* A port that is settled after a step was settled before it.              *)
LEMMA HeardSteps ==
    ASSUME Events \cap {"port_delete", "virtual"} = {}, [Next]_vars,
           TypeInv, PortCacheInv, HeardInv,
           ~PortStep, ~IntfStep, ~StartPass, ~Restart, ~AddPorts,
           NEW p \in ((ports \cap allP) \ unheard)',
           NEW i \in (members[p] \cap pmem[p])', ~MembersPending(p)'
    PROVE  /\ p \in (ports \cap allP) \ unheard /\ i \in members[p] \cap pmem[p]
           /\ ~MembersPending(p) /\ padmin'[p] = padmin[p]
<1>1. /\ members \in [PortName -> SUBSET Interface] /\ allP \subseteq PortName /\ allP \subseteq ports
      /\ ports \cap Virtual = {} /\ ~delP /\ ports \subseteq PortName
      /\ padmin \in [PortName -> PortAdmins \cup {"absent"}]
  <2>1. ports \cap Virtual = {}
    BY DEF TypeInv, ReplicaInv, HeardInv, Virtual
  <2> QED BY <2>1 DEF TypeInv, ReplicaInv, CacheInv, PortCacheInv
<1>2. CASE Environment
  <2>1. UNCHANGED <<pc, todo, allP, pmem, unheard>> /\ pc \in {"idle", "commit"}
    BY <1>2, EnvironmentIs DEF caches, locals, history
  <2>2. modP \subseteq modP' /\ (p \notin modP' => members'[p] = members[p] /\ padmin'[p] = padmin[p])
    <3>1. p \in ports
      BY <1>1, <2>1
    <3>2. CASE UserConfigWrite \/ PmInfoWrite \/ StatusWrite
      BY <3>2 DEF UserConfigWrite, PmInfoWrite, StatusWrite, replica
    <3>3. CASE PortAdminWrite
      BY <1>1, <3>1, <3>3 DEF PortAdminWrite
    <3>4. CASE PortMembersWrite
      BY <1>1, <3>1, <3>4 DEF PortMembersWrite
    <3>5. CASE PortInsert
      BY <1>1, <3>1, <3>5 DEF PortInsert
    <3> QED BY <1>2, <3>2, <3>3, <3>4, <3>5 DEF Environment, RowsStay, PortDelete, VirtualInsert,
                VirtualDelete, Others
  <2> QED BY <1>1, <2>1, <2>2 DEF MembersPending
<1>3. CASE UNCHANGED vars
  BY <1>3 DEF vars, replica, caches, tracking, locals, history, MembersPending
<1>5. CASE NoOldPorts
  <2>1. /\ UNCHANGED <<ports, members, padmin, allP, pmem, unheard>>
        /\ pc = "ports" /\ pc' = "port_mods" /\ todo' = modP
    BY <1>5 DEF NoOldPorts, WalkPorts, replica, caches, history
  <2> QED BY <2>1 DEF MembersPending
<1>6. CASE PortsDone \/ EndPass
  <2>1. UNCHANGED <<ports, members, padmin, allP, pmem, unheard>>
    BY <1>6 DEF PortsDone, EndPass, EndPassWith, replica, caches, history
  <2>2. pc \in {"port_mods", "intf_mods"} /\ todo = {}
    BY <1>6 DEF PortsDone, EndPass, EndPassWith
  <2> QED BY <2>1, <2>2 DEF MembersPending
<1>7. CASE Commit \/ CommitFails
  <2>1. /\ UNCHANGED <<ports, members, padmin, allP, pmem, unheard, modP>>
        /\ pc = "commit" /\ pc' = "idle"
    BY <1>7 DEF Commit, CommitFails, replica, caches, tracking, history
  <2> QED BY <2>1 DEF MembersPending
<1>8. CASE Reconnect
  <2>1. /\ UNCHANGED <<ports, members, padmin, allP, pmem, unheard>>
        /\ pc \in {"idle", "commit"} /\ Events \cap PortEvents = {}
    BY <1>8 DEF Reconnect, replica, caches, PortEvents
  <2> QED BY <2>1 DEF MembersPending, PortCacheInv
<1>9. ~DeleteOnePort /\ ~SkipPorts
  BY <1>1 DEF DeleteOnePort, SkipPorts
<1> QED BY <1>2, <1>3, <1>5, <1>6, <1>7, <1>8, <1>9 DEF Next, Pass, Walks

LEMMA IntfStepHeard ==
    TypeInv /\ PortsInv /\ PortCacheInv /\ LinkInv /\ HeardInv /\ IntfStep => HeardInv'
<1> SUFFICES ASSUME TypeInv, PortsInv, PortCacheInv, LinkInv, HeardInv, IntfStep PROVE HeardInv'
  OBVIOUS
<1>1. PICK j \in todo : /\ todo' = todo \ {j}
                        /\ IF j \in insI THEN IntfInserted(j) ELSE IntfModified(j)
  BY DEF IntfStep
<1>2. /\ pc = "intf_mods"
      /\ UNCHANGED <<rows, ports, members, padmin, allI, allP, pmem, insI, pc, failures, unheard>>
      /\ allI = rows /\ rows \subseteq Interface /\ rows = Physical /\ j \in rows
  BY <1>1 DEF IntfStep, replica, tracking, bounds, TypeInv, BatchInv, ReplicaInv, HeardInv
<1>3. PICK c : c = cache'
  OBVIOUS
<1>4. \A i \in rows : c[i].port_admin \in {cache[i].port_admin, port_parse_admin(i)}
  BY <1>3, IntfStepPort
<1>5. \A i : HasPort(i) <=> \E p \in ports : i \in members[p]
  BY <1>2 DEF HasPort, PortsInv, PortCacheInv, MembersPending
<1>6. \A i : HasPort(i)' <=> HasPort(i)
  BY <1>2 DEF HasPort
<1>7. \A i \in rows : c[i].port_admin = "up" => HasPort(i)
  <2>1. \A i \in rows : port_parse_admin(i) = "up" => \E p \in ports : i \in members[p]
    BY DEF port_parse_admin, get_matching_port_row
  <2> QED BY <1>2, <1>4, <1>5, <2>1 DEF HeardInv
<1>8. ASSUME failures = 0, NEW i \in rows, IsEnabled(col'[i]), ~PendingInsert(i)'
      PROVE  HasPort(i)
  <2>1. CASE \E f : Computed(col'[i], c[i], f)
    <3>1. PICK k, x : k = col'[i] /\ x = c[i]
      OBVIOUS
    <3>2. PICK f : Computed(k, x, f)
      BY <2>1, <3>1
    <3>3. x.port_admin = "up"
      BY <1>8, <3>1, <3>2, EnabledHasNoReason DEF IsEnabled
    <3> QED BY <1>7, <3>1, <3>3
  <2>2. CASE ~\E f : Computed(col'[i], c[i], f)
    <3>1. col'[i] = col[i]
      <4>1. CASE j \in insI
        BY <1>1, <1>2, <1>3, <2>2, <4>1, IntfInsertedIs DEF TypeInv
      <4>2. CASE j \notin insI
        <5>1. PICK T : /\ \A k \in Interface \ T : col'[k] = col[k]
                       /\ \A k \in T : Computed(col'[k], c[k], FamilyOf(c, linked, k))
          BY <1>1, <1>2, <1>3, <4>2, IntfModifiedIs DEF TypeInv
        <5> QED BY <1>2, <2>2, <5>1
      <4> QED BY <4>1, <4>2
    <3>2. ~PendingInsert(i)
      <4>1. CASE i = j /\ j \in insI
        <5>1. Computed(col'[j], c[j], FamilyOf(c, linked', j))
          BY <1>1, <1>2, <1>3, <4>1, IntfInsertedIs DEF TypeInv
        <5> QED BY <2>2, <4>1, <5>1
      <4>2. CASE ~(i = j /\ j \in insI)
        BY <1>1, <1>2, <1>8, <4>2 DEF PendingInsert
      <4> QED BY <4>1, <4>2
    <3> QED BY <1>2, <1>8, <3>1, <3>2 DEF HeardInv
  <2> QED BY <2>1, <2>2
<1>9. ASSUME NEW p \in (ports \cap allP) \ unheard, NEW i \in members[p] \cap pmem[p] \cap allI
      PROVE  c[i].port_admin = AdminOf(p) /\ (failures = 0 => Sync(i)')
  <2>1. cache[i].port_admin = AdminOf(p) /\ (failures = 0 => Sync(i))
    BY <1>2 DEF HeardInv, MembersPending
  <2>2. port_parse_admin(i) = AdminOf(p) /\ i \in rows
    BY <1>2, AdminOfPort DEF TypeInv
  <2> QED BY <1>4, <2>1, <2>2, IntfStepSync
<1>10. \A p : AdminOf(p)' = AdminOf(p)
  BY <1>2 DEF AdminOf
<1> QED BY <1>2, <1>3, <1>6, <1>7, <1>8, <1>9, <1>10 DEF HeardInv

LEMMA HeardStep ==
    ASSUME Events \cap {"port_delete", "virtual"} = {}, [Next]_vars,
           TypeInv, TypeInv', PortsInv, PortCacheInv, LinkInv, WriteInv, HeardInv
    PROVE  HeardInv'
<1>1. CASE PortStep \/ IntfStep
  BY <1>1, PortStepHeard, IntfStepHeard
<1>2. ~DeleteOnePort /\ ~SkipPorts
  BY DEF DeleteOnePort, SkipPorts, PortCacheInv
<1> SUFFICES ASSUME ~PortStep, ~IntfStep PROVE HeardInv'
  BY <1>1
<1>3. rows' = Physical
  <2>1. CASE Environment
    BY <2>1 DEF Environment, RowsStay, UserConfigWrite, PmInfoWrite, StatusWrite, PortAdminWrite,
           PortMembersWrite, PortInsert, PortDelete, VirtualInsert, VirtualDelete, Others, replica,
           HeardInv
  <2>2. CASE ~Environment
    BY <2>2, ReplicaStays DEF Next, vars, replica, HeardInv
  <2> QED BY <2>1, <2>2
(* The caches of interfaces, but for a start.                              *)
<1>4. CASE Restart
  BY <1>3, <1>4 DEF Restart, RestartWith, HeardInv
<1>5. CASE StartPass
  <2>1. /\ pc = "idle" /\ pc' = "ports" /\ allI' = rows /\ unheard \cap ports \subseteq unheard'
        /\ allI # {} => ports \ (allP \cup Virtual) \subseteq unheard'
        /\ UNCHANGED <<rows, ports, members, padmin, insI, modP, col, allP, pmem, failures>>
        /\ rows \subseteq Interface
        /\ cache' = [k \in Interface |->
                        CASE k \in rows \ allI -> add_new_interface(k)
                          [] k \in rows \cap allI -> cache[k]
                          [] OTHER -> NoIface]
    BY <1>5 DEF StartPass, replica, tracking, bounds, TypeInv, ReplicaInv
  <2>2. PICK c : c = cache'
    OBVIOUS
  <2>3. \A i \in rows : c[i].port_admin = IF i \in allI THEN cache[i].port_admin
                                                        ELSE port_parse_admin(i)
    <3>1. \A i : add_new_interface(i).port_admin = port_parse_admin(i)
      BY DEF add_new_interface
    <3> QED BY <2>1, <2>2, <3>1
  <2>4. \A i \in rows : HasPort(i) => HasPort(i)'
    BY <2>1 DEF HasPort
  <2>5. \A i \in rows : port_parse_admin(i) = "up" => HasPort(i)'
    BY <2>1 DEF HasPort, port_parse_admin, get_matching_port_row
  <2>6. \A i \in rows : c[i].port_admin = "up" => HasPort(i)'
    BY <2>3, <2>4, <2>5 DEF HeardInv
  <2>7. failures = 0 => \A i \in rows : IsEnabled(col[i]) => PendingInsert(i)' \/ HasPort(i)'
    BY <2>1, <2>4 DEF HeardInv, LinkInv, PendingInsert
  <2>8. ASSUME NEW p \in (ports \cap allP) \ unheard, NEW i \in members[p] \cap pmem[p],
               ~MembersPending(p)'
        PROVE  c[i].port_admin = AdminOf(p) /\ (failures = 0 => Sync(i)')
    <3>1. i \in rows /\ port_parse_admin(i) = AdminOf(p) /\ ~MembersPending(p)
      BY <2>1, <2>8, AdminOfPort DEF TypeInv, ReplicaInv, MembersPending
    <3>2. c[i].port_admin = AdminOf(p)
      BY <2>3, <3>1 DEF HeardInv
    <3>3. failures = 0 => Sync(i)'
      <4>1. i \in allI /\ failures = 0 => Sync(i)
        BY <3>1 DEF HeardInv
      <4>2. i \in (rows \cap allI)'
        BY <2>1, <3>1
      <4> QED BY <1>2, <2>1, <4>1, <4>2, SyncStays
    <3> QED BY <3>2, <3>3
  <2>9. \A p : AdminOf(p)' = AdminOf(p)
    BY <2>1 DEF AdminOf
  <2>10. ASSUME NEW p \in ports \ (allP \cup unheard'), NEW i \in members[p] \cap rows
         PROVE  c[i].port_admin = AdminOf(p) /\ PendingInsert(i)'
    <3>1. p \notin Virtual
      BY DEF Virtual, TypeInv, ReplicaInv, HeardInv
    <3>2. allI = {} /\ i \in insI
      BY <2>1, <2>10, <3>1 DEF LinkInv
    <3>3. port_parse_admin(i) = AdminOf(p)
      BY AdminOfPort DEF TypeInv
    <3> QED BY <2>1, <2>3, <3>2, <3>3 DEF PendingInsert
  <2> QED BY <1>3, <2>1, <2>2, <2>6, <2>7, <2>8, <2>9, <2>10 DEF HeardInv
<1> SUFFICES ASSUME ~StartPass, ~Restart PROVE HeardInv'
  BY <1>4, <1>5
<1>6. UNCHANGED <<allI, cache>>
  <2>1. CASE Environment
    BY <2>1, EnvironmentIs DEF caches
  <2>2. CASE UNCHANGED vars
    BY <2>2 DEF vars, caches
  <2>3. CASE AddPorts \/ NoOldPorts \/ PortsDone \/ EndPass \/ Commit
    BY <2>3 DEF AddPorts, NoOldPorts, PortsDone, EndPass, EndPassWith, Commit, caches
  <2>4. CASE CommitFails \/ Reconnect
    BY <2>4 DEF CommitFails, Reconnect, caches
  <2> QED BY <1>2, <2>1, <2>2, <2>3, <2>4 DEF Next, Pass, Walks
(* A port.                                                                 *)
<1>7. \A i : HasPort(i) => HasPort(i)'
  <2>1. CASE Environment
    BY <2>1, EnvironmentIs, HasPortStays DEF caches
  <2>2. CASE UNCHANGED vars
    BY <2>2 DEF vars, replica, caches, HasPort
  <2>3. CASE AddPorts
    <3>1. /\ pc = "ports" /\ pc' = "port_mods" /\ UNCHANGED <<ports, members>>
          /\ allP' = allP \cup ports /\ allP \subseteq PortName
          /\ pmem' = [p \in PortName |-> IF p \in ports \ allP THEN members[p] ELSE pmem[p]]
      BY <2>3 DEF AddPorts, WalkPorts, replica, TypeInv, CacheInv
    <3>2. allP \subseteq allP' /\ \A p \in allP : pmem'[p] = pmem[p]
      BY <3>1
    <3> QED BY <3>1, <3>2, HasPortStays
  <2>4. CASE NoOldPorts
    BY <2>4, HasPortStays DEF NoOldPorts, WalkPorts, replica, caches
  <2>5. CASE PortsDone
    <3>1. /\ pc = "port_mods" /\ todo = {} /\ UNCHANGED <<allP, pmem>>
      BY <2>5 DEF PortsDone, caches
    <3> QED BY <3>1 DEF HasPort, PortsInv, PortCacheInv, MembersPending
  <2>6. CASE EndPass \/ Commit \/ CommitFails \/ Reconnect
    <3>1. pc \in {"idle", "commit", "intf_mods"} /\ UNCHANGED <<allP, pmem>>
      BY <2>6 DEF EndPass, EndPassWith, Commit, CommitFails, Reconnect, caches
    <3> QED BY <3>1, HasPortStays
  <2> QED BY <1>2, <2>1, <2>2, <2>3, <2>4, <2>5, <2>6 DEF Next, Pass, Walks
<1>8. \A i \in (rows \cap allI)' : cache'[i].port_admin = "up" => HasPort(i)'
  BY <1>3, <1>6, <1>7 DEF HeardInv
<1>9. ASSUME failures' = 0, NEW i \in (rows \cap allI)', IsEnabled(col'[i])
      PROVE  PendingInsert(i)' \/ HasPort(i)'
  <2>0. failures = 0 /\ i \in rows \cap allI
    BY <1>3, <1>6, <1>9, FailuresStay DEF HeardInv
  <2>1. CASE Environment
    <3>1. UNCHANGED <<pc, todo>> /\ pc \in {"idle", "commit"}
      BY <2>1, EnvironmentIs DEF locals
    <3>2. col'[i] = col[i] /\ (i \in insI <=> i \in insI')
      BY <1>9, <2>0, <2>1, EnvironmentIs
    <3> QED BY <1>7, <1>9, <2>0, <3>1, <3>2 DEF HeardInv, PendingInsert
  <2>2. CASE UNCHANGED vars
    BY <1>7, <1>9, <2>0, <2>2 DEF vars, tracking, locals, HeardInv, PendingInsert
  <2>3. CASE AddPorts \/ NoOldPorts \/ PortsDone
    <3>1. /\ UNCHANGED <<insI, col>> /\ pc' \in {"port_mods", "intf_mods"}
          /\ pc \in {"ports", "port_mods"} /\ (pc' = "intf_mods" => todo' = insI \cup modI)
      BY <2>3 DEF AddPorts, NoOldPorts, PortsDone, WalkPorts, tracking
    <3> QED BY <1>7, <1>9, <2>0, <3>1 DEF HeardInv, PendingInsert
  <2>4. CASE EndPass
    <3>1. pc = "intf_mods" /\ todo = {} /\ (~rc => col = dbCol)
      BY <2>4 DEF EndPass, EndPassWith, WriteInv
    <3>2. col' = col
      BY <2>4, <3>1 DEF EndPass, EndPassWith
    <3> QED BY <1>7, <1>9, <2>0, <3>1, <3>2 DEF HeardInv, PendingInsert
  <2>5. CASE Commit
    <3>1. pc = "commit" /\ pc' = "idle" /\ UNCHANGED <<insI, col>>
      BY <2>5 DEF Commit, tracking
    <3> QED BY <1>7, <1>9, <2>0, <3>1 DEF HeardInv, PendingInsert
  <2>6. CASE CommitFails
    BY <1>9, <2>6 DEF CommitFails, TypeInv, LocalInv
  <2>7. CASE Reconnect
    BY <2>7 DEF Reconnect, replica, PendingInsert
  <2> QED BY <1>2, <2>1, <2>2, <2>3, <2>4, <2>5, <2>6, <2>7 DEF Next, Pass, Walks
<1>10. ASSUME NEW p \in ((ports \cap allP) \ unheard)',
              NEW i \in (members[p] \cap pmem[p] \cap allI)', ~MembersPending(p)'
       PROVE  cache'[i].port_admin = AdminOf(p)' /\ (failures' = 0 => Sync(i)')
  <2>0. i \in rows' /\ i \in rows /\ i \in allI
    BY <1>3, <1>6, <1>10 DEF TypeInv, ReplicaInv, HeardInv
  <2>1. /\ cache[i].port_admin = AdminOf(p) /\ (failures = 0 => Sync(i))
        /\ padmin'[p] = padmin[p]
    <3>1. CASE ~AddPorts
      <4>1. /\ p \in (ports \cap allP) \ unheard /\ i \in members[p] \cap pmem[p]
            /\ ~MembersPending(p) /\ padmin'[p] = padmin[p]
        BY <1>2, <1>10, <3>1, HeardSteps
      <4> QED BY <2>0, <4>1 DEF HeardInv
    <3>2. CASE AddPorts
      <4>1. /\ pc = "ports" /\ pc' = "port_mods" /\ todo' = modP /\ allP' = allP \cup ports
            /\ UNCHANGED <<ports, members, padmin, unheard>> /\ ports \subseteq PortName
            /\ pmem' = [q \in PortName |-> IF q \in ports \ allP THEN members[q] ELSE pmem[q]]
        BY <3>2 DEF AddPorts, WalkPorts, replica, history, TypeInv, ReplicaInv
      <4>2. p \in ports /\ p \notin unheard /\ i \in members[p] \cap pmem'[p] /\ p \notin modP
        BY <1>10, <4>1 DEF MembersPending
      <4>3. CASE p \in allP
        BY <2>0, <4>1, <4>2, <4>3 DEF HeardInv, MembersPending
      <4>4. CASE p \notin allP
        BY <2>0, <4>1, <4>2, <4>4 DEF HeardInv, Sync
      <4> QED BY <4>1, <4>3, <4>4
    <3> QED BY <3>1, <3>2
  <2>2. failures' = 0 => Sync(i)'
    BY <1>2, <2>0, <2>1, <1>10, FailuresStay, SyncStays
  <2> QED BY <1>6, <2>1, <2>2 DEF AdminOf
<1>11. ASSUME pc' = "ports" PROVE UNCHANGED vars
  <2>1. ~Environment
    BY <1>11, EnvironmentIs
  <2> QED BY <1>2, <1>11, <2>1 DEF Next, Pass, Walks, AddPorts, NoOldPorts, WalkPorts, PortsDone,
           EndPass, EndPassWith, Commit, CommitFails, Reconnect
<1>12. ASSUME pc' = "ports", NEW p \in (ports \ (allP \cup unheard))',
              NEW i \in (members[p] \cap allI)'
       PROVE  cache'[i].port_admin = AdminOf(p)' /\ PendingInsert(i)'
  BY <1>11, <1>12 DEF vars, replica, caches, tracking, locals, history, HeardInv, PendingInsert,
     AdminOf
<1> QED BY <1>3, <1>8, <1>9, <1>10, <1>12 DEF HeardInv

(* What RestartColumns computes from a fresh iface.                        *)
LEMMA RestartColumnsAre ==
    ASSUME NEW i \in Interface, i \in Physical, IfaceOf(cache[i], i),
           cache[i].user_cfg = UserCfgOf(i), cache[i].pm_info = PmOf(i),
           cache[i].port_admin = port_parse_admin(i),
           NEW f, f = FreshFamily(i)
    PROVE  set_interface_config(cache[i], f).out = RestartColumns(i)
<1>1. PICK a, x, m : a = add_new_interface(i) /\ x = cache[i] /\ m = PmOf(i)
  OBVIOUS
<1>2. IfaceOf(a, i) /\ a.user_cfg = UserCfgOf(i) /\ a.port_admin = port_parse_admin(i)
  BY <1>1, NewIfaceIs DEF add_new_interface
<1>3. PICK z : z = [a EXCEPT !.pm_info = m]
  OBVIOUS
<1>4. /\ IfaceOf(z, i) /\ z.user_cfg = UserCfgOf(i) /\ z.pm_info = m
      /\ z.port_admin = port_parse_admin(i)
  BY <1>2, <1>3 DEF IfaceOf, IsIface
<1>5. z = [add_new_interface(i) EXCEPT !.pm_info = PmOf(i)]
  BY <1>1, <1>3
<1>6. SameConfig(x, z) /\ IsIface(x) /\ IsIface(z) /\ x.type \notin VirtualTypes
  BY <1>1, <1>4 DEF SameConfig, IfaceOf, Physical
<1>7. set_interface_config(x, f).out = set_interface_config(z, f).out
  BY <1>6, OutcomeIgnoresHistory
<1> QED BY <1>1, <1>5, <1>7 DEF RestartColumns

(* While no Port row is deleted, an interface in a port intfd has heard of *)
(* is configured as a restart would configure it, and one in no port is    *)
(* disabled.                                                               *)
THEOREM PortsAreFollowed ==
    ASSUME Events \cap {"port_delete", "virtual"} = {}
    PROVE  Spec => []ColumnsFollowPorts
<1> DEFINE I == ColumnsInv /\ TracksInv /\ PortsInv /\ PortCacheInv /\ HeardInv
<1>1. Init => TracksInv /\ PortsInv /\ PortCacheInv /\ HeardInv
  BY DEF Init, TracksInv, PortsInv, PortCacheInv, HeardInv
<1>2. I /\ ColumnsInv' /\ [Next]_vars => (TracksInv /\ PortsInv /\ PortCacheInv /\ HeardInv)'
  BY TracksStep, PortsStep, PortCacheStep, HeardStep DEF ColumnsInv
<1>3. I => ColumnsFollowPorts
  <2> SUFFICES ASSUME I, pc = "idle", ~news, failures = 0, NEW i \in rows
               PROVE  IF get_matching_port_row(i) = {} THEN ~IsEnabled(dbCol[i])
                      ELSE /\ get_matching_port_row(i) \cap unheard = {}
                           /\ ParentOf[i] = NoParent /\ i \notin reborn
                           => dbCol[i] = RestartColumns(i)
    BY DEF ColumnsFollowPorts, Settled
  <2>1. /\ allI = rows /\ insI = {} /\ modI = {} /\ modP = {} /\ col = dbCol
        /\ rows = Physical /\ i \in Interface /\ i \in Physical
        /\ allP = ports /\ \A p \in allP : pmem[p] = members[p]
    BY DEF ColumnsInv, TypeInv, BatchInv, ReplicaInv, WriteInv, HeardInv, PortsInv, PortCacheInv,
           MembersPending
  <2>2. ASSUME get_matching_port_row(i) = {} PROVE ~IsEnabled(dbCol[i])
    <3>1. IsEnabled(dbCol[i]) => HasPort(i)
      BY <2>1 DEF HeardInv, PendingInsert
    <3> QED BY <2>1, <2>2, <3>1 DEF HasPort, get_matching_port_row
  <2>3. ASSUME NEW p \in ports, i \in members[p], get_matching_port_row(i) \cap unheard = {},
               ParentOf[i] = NoParent, i \notin reborn
        PROVE  dbCol[i] = RestartColumns(i)
    <3>1. port_parse_admin(i) = AdminOf(p) /\ get_matching_port_row(i) = {p}
      BY <2>3, AdminOfPort DEF ColumnsInv, TypeInv
    <3>2. cache[i].port_admin = port_parse_admin(i) /\ Sync(i)
      BY <2>1, <2>3, <3>1 DEF HeardInv, MembersPending
    <3>3. Computed(dbCol[i], cache[i], FamilyOf(cache, linked, i)) /\ i \in linked
      BY <2>1, <3>2 DEF ColumnsInv, LinkInv, Sync, PendingInsert
    <3>4. FamilyOf(cache, linked, i) = FreshFamily(i)
      BY <2>3, <3>3 DEF FamilyOf, FreshFamily
    <3>5. IfaceOf(cache[i], i)
      BY <2>1 DEF ColumnsInv, TypeInv, CacheInv
    <3>6. PICK f, x : f = FamilyOf(cache, linked, i) /\ x = cache[i]
      OBVIOUS
    <3>7. IsIface(x) /\ Computed(dbCol[i], x, f) /\ x.type \notin VirtualTypes
      BY <2>1, <3>3, <3>5, <3>6 DEF IfaceOf, Physical
    <3>8. dbCol[i] = set_interface_config(x, f).out
      BY <3>7, ComputedIs
    <3>9. cache[i].user_cfg = UserCfgOf(i) /\ cache[i].pm_info = PmOf(i)
      BY <2>1, <2>3 DEF TracksInv, Pending, Fresh
    <3>10. set_interface_config(x, f).out = RestartColumns(i)
      BY <2>1, <3>2, <3>4, <3>5, <3>6, <3>9, RestartColumnsAre
    <3> QED BY <3>8, <3>10
  <2> QED BY <2>2, <2>3 DEF get_matching_port_row
<1> QED BY <1>1, <1>2, <1>3, ColumnsInvariant, PTL DEF Spec

-----------------------------------------------------------------------------
(* The decision of the arbiter.                                            *)

(* A set of numbers has a least one.                                       *)
LEMMA LeastOf ==
    ASSUME NEW S, S \subseteq Nat, S # {}
    PROVE  \E k \in S : \A j \in S : k <= j
<1>1. PICK k \in S : \A j \in S : ~(<<j, k>> \in OpToRel(<, Nat))
  BY NatLessThanWellFounded, WFMin
<1>2. \A j \in S : j \in Nat /\ k \in Nat /\ (<<j, k>> \in OpToRel(<, Nat) <=> j < k)
  BY DEF OpToRel
<1>3. \A j \in S : j \in Nat /\ k \in Nat /\ ~(j < k)
  BY <1>1, <1>2
<1>4. \A j \in S : k <= j
  BY <1>3
<1> QED BY <1>4

(* The decision is a value of the column.                                  *)
LEMMA DecisionTyped ==
    ASSUME NEW en, NEW st
    PROVE  Decision(en, st) \in FwdMap
<1>1. ASSUME NEW l \in Layer PROVE LayerOwner(l, en, st) \in Owner
  <2>1. CASE Blockers(l, st) = {} \/ HeldDown(l, en, st)
    BY <2>1 DEF LayerOwner, Owner
  <2>2. CASE Blockers(l, st) # {}
    <3>1. Blockers(l, st) \subseteq 1..Len(LayerProtos[l]) /\ Blockers(l, st) \subseteq Nat
      BY DEF Blockers
    <3>2. PICK k \in Blockers(l, st) : \A j \in Blockers(l, st) : k <= j
      BY <2>2, <3>1, LeastOf
    <3>3. FirstBlocker(l, st) \in Blockers(l, st)
      BY <3>2 DEF FirstBlocker
    <3>4. \A j \in 1..Len(LayerProtos[l]) : LayerProtos[l][j] \in Owner
      BY DEF Owner, Proto, ProtosOf
    <3> QED BY <3>1, <3>3, <3>4 DEF LayerOwner, Owner
  <2> QED BY <2>1, <2>2
<1>2. \A l \in Layer : LayerKey(l, en, st) \in {"absent", "true", "false"}
  BY DEF LayerKey, get_state_value
<1>3. get_state_value(LayerBlocked(NumLayers, en, st)) \in {"absent", "true", "false"}
  BY DEF get_state_value
<1> QED BY <1>1, <1>2, <1>3 DEF Decision, FwdMap

LEMMA NoFwdTyped == NoFwd \in FwdMap
  BY DEF NoFwd, FwdMap, Owner

-----------------------------------------------------------------------------
(* The composition as a reconfiguration.                                   *)

LEMMA DaemonStepIs == [DaemonNext]_daemonVars => [Next]_vars
<1> SUFFICES ASSUME [DaemonNext]_daemonVars PROVE [Next]_vars
  OBVIOUS
<1>1. CASE UNCHANGED daemonVars
  BY <1>1 DEF daemonVars
<1>2. CASE RowsStay \/ BondStatusWrite \/ RowLeaves
  BY <1>2 DEF Next, Environment, RowsStay, BondStatusWrite, RowLeaves
<1>3. CASE Walks
  BY <1>3 DEF Next, Pass
<1>4. CASE ArbitrateAndEnd
  <2>1. (intfd_arbiter_run # fwd) \in BOOLEAN
    OBVIOUS
  <2> QED BY <1>4, <2>1 DEF ArbitrateAndEnd, EndPass, Next, Pass
<1>5. CASE CommitBoth \/ LoseBoth \/ RestartDaemon
  BY <1>5 DEF CommitBoth, LoseBoth, RestartDaemon, Restart, Next, Pass
<1> QED BY <1>1, <1>2, <1>3, <1>4, <1>5 DEF DaemonNext, DaemonPass

(* Whatever the arbiter adds to a pass, intfd_reconfigure remains what     *)
(* IntfReconfig says of it.                                                *)
THEOREM DaemonReconfigures == DaemonSpec => Spec
<1>1. DaemonInit => Init
  BY DEF DaemonInit
<1> QED BY <1>1, DaemonStepIs, PTL DEF DaemonSpec, Spec

(* So the composition keeps what is proved of IntfReconfig, among it:      *)
THEOREM DaemonKeeps ==
    DaemonSpec => /\ []SplitExclusive /\ []CacheTracksRows
                  /\ []PortsAreCached /\ []WritesAreCommitted
BY DaemonReconfigures, SplitIsExclusive, CacheTracks, PortsStayCached, WritesCount

-----------------------------------------------------------------------------
(* What the two parts of a transaction have to do with each other.         *)

(* The rows the open transaction is about, or all.                         *)
KnownRows == IF pc = "commit" THEN seen.rows ELSE rows
KnownStatus == IF pc = "commit" THEN seen.status ELSE status

ForwardingTypes ==
    /\ status \in [Interface -> [Proto -> Status]]
    /\ dbFwd \in [Interface -> FwdMap] /\ fwd \in [Interface -> FwdMap]
    /\ seen.rows \subseteq rows /\ seen.status \in [Interface -> [Proto -> Status]]
    /\ lost \in BOOLEAN
    /\ pc # "commit" => fwd = dbFwd /\ seen = Nothing

(* A row intfd does not know has empty columns.                            *)
UnknownInv ==
    \A i \in Interface \ KnownRows :
        /\ col[i] = NoColumns /\ dbCol[i] = NoColumns
        /\ fwd[i] = NoFwd /\ dbFwd[i] = NoFwd

(* The open transaction holds the decisions about its own enable values,   *)
(* and is up to date if nothing has come since.                            *)
TransactionInv ==
    /\ pc = "commit" => \A i \in seen.rows :
          fwd[i] = Decision(col[i].hw_intf_config.enable, seen.status[i])
    /\ pc = "commit" /\ ~news => seen.rows = rows /\ seen.status = status
    /\ Settled /\ ~lost => \A i \in rows :
          dbFwd[i] = Decision(dbCol[i].hw_intf_config.enable, status[i])

EnableInv ==
    \A i \in Interface : /\ col[i].hw_intf_config.enable \in Enable
                         /\ dbCol[i].hw_intf_config.enable \in Enable

ForwardingInv == ForwardingTypes /\ UnknownInv /\ TransactionInv /\ EnableInv

-----------------------------------------------------------------------------
(* What a pass writes.                                                     *)

LEMMA OutIs ==
    ASSUME NEW x, NEW f
    PROVE  set_interface_config(x, f).out.hw_intf_config.enable \in {"true", "false"}
<1>1. PICK n : n = NewOpState(x, f)
  OBVIOUS
<1>2. set_interface_config(x, f).out = set_intf_hw_config_in_db(x, n)
  BY <1>1 DEF set_interface_config
<1>3. PICK h : h = set_intf_hw_config_in_db(x, n).hw_intf_config
  OBVIOUS
<1>4. CASE ~n.enabled
  <2>1. h = DisabledConfig
    BY <1>3, <1>4 DEF set_intf_hw_config_in_db
  <2> QED BY <1>2, <1>3, <2>1 DEF DisabledConfig
<1>5. CASE n.enabled
  <2>1. h.enable = "true"
    BY <1>3, <1>5 DEF set_intf_hw_config_in_db
  <2> QED BY <1>2, <1>3, <2>1
<1> QED BY <1>4, <1>5

LEMMA ConfigureWrites ==
    ASSUME NEW S, NEW off, NEW c, NEW lk, ConfigureAll(S, off, c, lk),
           NEW i \in Interface, IsColumns(col[i])
    PROVE  /\ i \notin S \cup off => col'[i] = col[i]
           /\ col'[i].hw_intf_config.enable \in {"true", "false", col[i].hw_intf_config.enable}
<1>1. PICK r : r = [k \in S |-> set_interface_config(c[k], FamilyOf(c, lk, k))]
  OBVIOUS
<1>2. col'[i] = CASE i \in S -> r[i].out
                  [] i \in off \ S -> [col[i] EXCEPT !.hw_intf_config = DisabledConfig]
                  [] OTHER -> col[i]
  BY <1>1 DEF ConfigureAll
<1>3. CASE i \in S
  <2>1. col'[i] = set_interface_config(c[i], FamilyOf(c, lk, i)).out
    BY <1>1, <1>2, <1>3
  <2> QED BY <1>3, <2>1, OutIs
<1>4. CASE i \in off \ S
  <2>1. col'[i].hw_intf_config = DisabledConfig
    BY <1>2, <1>4 DEF IsColumns
  <2> QED BY <1>4, <2>1 DEF DisabledConfig
<1>5. CASE i \notin S \cup off
  BY <1>2, <1>5
<1> QED BY <1>3, <1>4, <1>5

(* A walk writes into rows that exist, and never empties enable.           *)
LEMMA WalksWrite ==
    ASSUME TypeInv, Walks
    PROVE  /\ UNCHANGED <<replica, dbCol>>
           /\ pc # "commit" /\ pc' \notin {"idle", "commit"}
           /\ \A i \in Interface :
                 /\ i \notin rows => col'[i] = col[i]
                 /\ col'[i].hw_intf_config.enable
                       \in {"true", "false", col[i].hw_intf_config.enable}
<1>1. CASE StartPass \/ AddPorts \/ SkipPorts \/ NoOldPorts \/ PortsDone
  BY <1>1 DEF StartPass, AddPorts, SkipPorts, NoOldPorts, WalkPorts, PortsDone
<1>2. CASE DeleteOnePort
  <2>1. /\ UNCHANGED <<replica, dbCol>> /\ pc = "ports" /\ pc' = "port_mods"
    BY <1>2 DEF DeleteOnePort, WalkPorts
  <2>2. PICK p \in allP \ ports : del_old_port(p)
    BY <1>2 DEF DeleteOnePort
  <2>3. PICK S : /\ S = {i \in pmem[p] : p \in rows /\ get_matching_port_row(i) = {}}
                 /\ col' = Disabled(col, S)
    BY <2>2 DEF del_old_port
  <2>4. S \subseteq rows
    <3>1. CASE p \in Virtual
      BY <2>2, <2>3, <3>1 DEF TypeInv, ReplicaInv
    <3>2. CASE p \notin Virtual
      BY <2>2, <2>3, <3>2 DEF TypeInv, ReplicaInv, CacheInv
    <3> QED BY <3>1, <3>2
  <2>5. ASSUME NEW i \in Interface
        PROVE  IF i \in S THEN col'[i].hw_intf_config.enable = "false" ELSE col'[i] = col[i]
    <3>1. IsColumns(col[i])
      BY DEF TypeInv, CacheInv
    <3>2. col'[i] = IF i \in S THEN [col[i] EXCEPT !.hw_intf_config = DisabledConfig] ELSE col[i]
      BY <2>3 DEF Disabled
    <3>3. i \in S => col'[i].hw_intf_config = DisabledConfig
      BY <3>1, <3>2 DEF IsColumns
    <3> QED BY <3>2, <3>3 DEF DisabledConfig
  <2> QED BY <2>1, <2>4, <2>5
<1>3. CASE PortStep
  <2>1. /\ UNCHANGED <<replica, dbCol, pc>> /\ pc = "port_mods"
        /\ ReplicaInv /\ CacheInv /\ allI = rows
    BY <1>3 DEF PortStep, TypeInv, BatchInv
  <2>2. PICK p \in ports : IF p \in allP THEN PortMod(p) ELSE UNCHANGED col
    BY <1>3 DEF PortStep, TypeInv, BatchInv
  <2>3. CASE p \in allP
    <3>1. PortMod(p)
      BY <2>2, <2>3
    <3>2. Kept(p) \cup Lost(p) \subseteq rows
      BY <2>1, <3>1, PortModIs
    <3>3. ConfigureAll(Kept(p), Lost(p), Refreshed(p), linked)
      BY <3>1 DEF PortMod
    <3>4. \A i \in Interface : IsColumns(col[i])
      BY <2>1 DEF CacheInv
    <3> QED BY <2>1, <3>2, <3>3, <3>4, ConfigureWrites
  <2> QED BY <2>1, <2>2, <2>3
<1>4. CASE IntfStep
  <2>1. /\ UNCHANGED <<replica, dbCol, pc>> /\ pc = "intf_mods"
        /\ ReplicaInv /\ CacheInv /\ allI = rows
    BY <1>4 DEF IntfStep, TypeInv, BatchInv
  <2>2. PICK i \in rows : IF i \in insI THEN IntfInserted(i) ELSE IntfModified(i)
    BY <1>4 DEF IntfStep, TypeInv, BatchInv
  <2>3. \A k \in Interface : IsColumns(col[k])
    BY <2>1 DEF CacheInv
  <2>4. \E S, c, lk : ConfigureAll(S, {}, c, lk) /\ S \subseteq rows
    <3>1. CASE i \in insI
      BY <2>2, <3>1 DEF IntfInserted
    <3>2. CASE i \notin insI
      <4>1. PICK cfg_changed : ConfigureAll(Targets(i, cfg_changed, SplitChanged(i)), {},
                                            ModifiedCache(i), linked)
        BY <2>2, <3>2 DEF IntfModified
      <4>2. Children(i) \subseteq rows
        BY <2>1, <2>2, <3>2, IntfModifiedIs
      <4> QED BY <2>2, <4>1, <4>2 DEF Targets
    <3> QED BY <3>1, <3>2
  <2> QED BY <2>1, <2>3, <2>4, ConfigureWrites
<1> QED BY <1>1, <1>2, <1>3, <1>4 DEF Walks

-----------------------------------------------------------------------------
(* What each step does to the rows and to both parts of a transaction.     *)

(* Other clients: only a row that leaves takes columns with it.            *)
LEMMA RowsStayIs ==
    ASSUME TypeInv, RowsStay
    PROVE  /\ pc \in {"idle", "commit"} /\ pc' = pc /\ news' = TRUE
           /\ rows \subseteq rows' /\ UNCHANGED <<dbCol, col>>
<1>1. pc \in {"idle", "commit"} /\ pc' = pc /\ news' = TRUE
  BY EnvironmentIs DEF Environment
<1>2. rows \subseteq rows' /\ UNCHANGED <<dbCol, col>>
  BY DEF RowsStay, UserConfigWrite, PmInfoWrite, StatusWrite, PortAdminWrite, PortMembersWrite,
         PortInsert, PortDelete, VirtualInsert, replica
<1> QED BY <1>1, <1>2

LEMMA BondStatusWriteIs ==
    ASSUME TypeInv, ForwardingTypes, BondStatusWrite
    PROVE  /\ pc \in {"idle", "commit"} /\ pc' = pc /\ news' = TRUE
           /\ UNCHANGED <<rows, dbCol, col, dbFwd, fwd, seen, lost>>
           /\ status' \in [Interface -> [Proto -> Status]]
<1>1. pc \in {"idle", "commit"} /\ pc' = pc /\ news' = TRUE /\ UNCHANGED <<rows, dbCol, col>>
  BY DEF BondStatusWrite, StatusWrite, Others, replica
<1>2. PICK i \in rows, p \in Proto : \E s \in Status \ {status[i][p]} :
         status' = [status EXCEPT ![i][p] = s]
  BY DEF BondStatusWrite
<1>3. PICK s \in Status : status' = [status EXCEPT ![i][p] = s]
  BY <1>2
<1>4. i \in Interface
  BY DEF TypeInv, ReplicaInv
<1>5. status' \in [Interface -> [Proto -> Status]]
  BY <1>3, <1>4 DEF ForwardingTypes
<1> QED BY <1>1, <1>5 DEF BondStatusWrite

LEMMA RowLeavesIs ==
    ASSUME TypeInv, ForwardingTypes, RowLeaves
    PROVE  \E v \in rows :
              /\ pc \in {"idle", "commit"} /\ pc' = pc /\ news' = TRUE /\ lost' = lost
              /\ rows' = rows \ {v} /\ seen'.rows = seen.rows \ {v}
              /\ \A i \in Interface :
                    /\ dbCol'[i] = IF i = v THEN NoColumns ELSE dbCol[i]
                    /\ col'[i] = IF i = v THEN NoColumns ELSE col[i]
                    /\ status'[i] = IF i = v THEN NoStatus ELSE status[i]
                    /\ seen'.status[i] = IF i = v THEN NoStatus ELSE seen.status[i]
                    /\ dbFwd'[i] = IF i = v THEN NoFwd ELSE dbFwd[i]
                    /\ fwd'[i] = IF i = v THEN NoFwd ELSE fwd[i]
              /\ status' = [i \in Interface |-> status'[i]]
              /\ seen' = [rows |-> seen'.rows, status |-> seen'.status]
              /\ seen'.status = [i \in Interface |-> seen'.status[i]]
              /\ dbFwd' = [i \in Interface |-> dbFwd'[i]] /\ fwd' = [i \in Interface |-> fwd'[i]]
<1>1. pc \in {"idle", "commit"} /\ pc' = pc /\ news' = TRUE /\ lost' = lost
  BY EnvironmentIs DEF Environment, RowLeaves
<1>2. PICK v \in Virtual \cap rows :
         /\ rows' = rows \ {v}
         /\ dbCol' = [dbCol EXCEPT ![v] = NoColumns]
         /\ col' = [col EXCEPT ![v] = NoColumns]
  BY DEF RowLeaves, VirtualDelete
<1>3. rows \ rows' = {v}
  BY <1>2
<1>4. /\ status' = [i \in Interface |-> IF i \in {v} THEN NoStatus ELSE status[i]]
      /\ dbFwd' = [i \in Interface |-> IF i \in {v} THEN NoFwd ELSE dbFwd[i]]
      /\ fwd' = [i \in Interface |-> IF i \in {v} THEN NoFwd ELSE fwd[i]]
      /\ seen' = [rows |-> seen.rows \ {v},
                  status |-> [i \in Interface |-> IF i \in {v} THEN NoStatus ELSE seen.status[i]]]
  BY <1>3 DEF RowLeaves
<1>5. IsMap(col) /\ IsMap(dbCol)
  BY DEF TypeInv, CacheInv
<1>6. \A i \in Interface : /\ dbCol'[i] = IF i = v THEN NoColumns ELSE dbCol[i]
                           /\ col'[i] = IF i = v THEN NoColumns ELSE col[i]
  BY <1>2, <1>5 DEF IsMap
<1>7. /\ seen'.rows = seen.rows \ {v}
      /\ seen'.status = [i \in Interface |-> IF i \in {v} THEN NoStatus ELSE seen.status[i]]
  BY <1>4
<1>8. seen' = [rows |-> seen'.rows, status |-> seen'.status]
  BY <1>4, <1>7
<1>9. /\ \A i \in Interface :
            /\ status'[i] = IF i = v THEN NoStatus ELSE status[i]
            /\ dbFwd'[i] = IF i = v THEN NoFwd ELSE dbFwd[i]
            /\ fwd'[i] = IF i = v THEN NoFwd ELSE fwd[i]
      /\ status' = [i \in Interface |-> status'[i]]
      /\ dbFwd' = [i \in Interface |-> dbFwd'[i]] /\ fwd' = [i \in Interface |-> fwd'[i]]
  BY <1>4
<1>10. /\ \A i \in Interface : seen'.status[i] = IF i = v THEN NoStatus ELSE seen.status[i]
       /\ seen'.status = [i \in Interface |-> seen'.status[i]]
  BY <1>7
<1> QED BY <1>1, <1>2, <1>6, <1>7, <1>8, <1>9, <1>10

LEMMA ArbitrateIs ==
    ASSUME TypeInv, WriteInv, ForwardingTypes, ArbitrateAndEnd
    PROVE  /\ pc = "intf_mods" /\ pc' \in {"idle", "commit"}
           /\ UNCHANGED <<rows, dbCol, col, status, dbFwd>> /\ lost' = FALSE
           /\ fwd' = [i \in Interface |->
                         IF i \in rows THEN Decision(col[i].hw_intf_config.enable, status[i])
                                       ELSE fwd[i]]
           /\ pc' = "idle" => fwd' = fwd /\ col = dbCol /\ seen' = Nothing
           /\ pc' = "commit" => seen' = [rows |-> rows, status |-> status]
<1>1. /\ pc = "intf_mods" /\ pc' \in {"idle", "commit"} /\ UNCHANGED <<rows, dbCol>>
      /\ pc' = "commit" => col' = col
      /\ pc' = "idle" => ~rc /\ intfd_arbiter_run = fwd /\ col' = dbCol
  BY DEF ArbitrateAndEnd, EndPassWith, replica
<1>2. pc' = "idle" => col = dbCol
  BY <1>1 DEF WriteInv
<1>3. UNCHANGED <<status, dbFwd>> /\ lost' = FALSE /\ fwd' = intfd_arbiter_run
  BY DEF ArbitrateAndEnd
<1>4. /\ pc' = "idle" => seen' = Nothing
      /\ pc' = "commit" => seen' = [rows |-> rows, status |-> status]
  BY <1>1 DEF ArbitrateAndEnd
<1> QED BY <1>1, <1>2, <1>3, <1>4 DEF intfd_arbiter_run

LEMMA RestartDaemonIs ==
    ASSUME RestartDaemon
    PROVE  /\ pc' = "idle" /\ news' = TRUE /\ col' = dbCol' /\ fwd' = dbFwd' /\ seen' = Nothing
           /\ UNCHANGED <<rows, status, lost>>
           /\ \/ UNCHANGED <<dbCol, dbFwd>>
              \/ pc = "commit" /\ dbCol' = col /\ dbFwd' = fwd
  BY DEF RestartDaemon, RestartWith, MayLand, replica

-----------------------------------------------------------------------------
(* The invariant.                                                          *)

LEMMA NothingIs ==
    /\ NoStatus \in [Proto -> Status]
    /\ Nothing.rows = {} /\ Nothing.status \in [Interface -> [Proto -> Status]]
BY ArbiterAssumption DEF Nothing, NoStatus

LEMMA NewRowsAreAbsent == NoColumns.hw_intf_config.enable = "absent"
<1>1. NoColumns.hw_intf_config = [DisabledConfig EXCEPT !.enable = "absent"]
  BY DEF NoColumns
<1> QED BY <1>1 DEF DisabledConfig

LEMMA ForwardingInitially == DaemonInit => ForwardingInv
<1> SUFFICES ASSUME DaemonInit PROVE ForwardingInv
  OBVIOUS
<1>1. /\ pc = "idle" /\ news = TRUE /\ lost = FALSE /\ seen = Nothing /\ fwd = dbFwd
      /\ \A i \in Interface : col[i] = NoColumns /\ dbCol[i] = NoColumns
      /\ dbFwd = [i \in Interface |-> NoFwd] /\ status = [i \in Interface |-> NoStatus]
  BY DEF DaemonInit, Init
<1>2. ForwardingTypes
  BY <1>1, NothingIs, NoFwdTyped DEF ForwardingTypes
<1>3. EnableInv
  BY <1>1, NewRowsAreAbsent DEF EnableInv, Enable
<1> QED BY <1>1, <1>2, <1>3 DEF ForwardingInv, UnknownInv, TransactionInv, Settled

(* A step inside a pass.                                                   *)
LEMMA WalksForwarding ==
    ASSUME TypeInv, ForwardingInv, Walks, UNCHANGED forwarding
    PROVE  ForwardingInv'
<1>1. /\ UNCHANGED <<rows, dbCol>> /\ UNCHANGED <<status, dbFwd, fwd, seen, lost>>
      /\ pc # "commit" /\ pc' \notin {"idle", "commit"}
      /\ \A i \in Interface :
            /\ i \notin rows => col'[i] = col[i]
            /\ col'[i].hw_intf_config.enable \in {"true", "false", col[i].hw_intf_config.enable}
  BY WalksWrite DEF replica, forwarding
<1>2. EnableInv'
  BY <1>1 DEF ForwardingInv, EnableInv, Enable
<1> QED BY <1>1, <1>2 DEF ForwardingInv, ForwardingTypes, UnknownInv, TransactionInv, KnownRows, Settled

LEMMA RowLeavesForwarding ==
    ASSUME TypeInv, ForwardingInv, RowLeaves
    PROVE  ForwardingInv'
<1>1. PICK v \in rows :
              /\ pc \in {"idle", "commit"} /\ pc' = pc /\ news' = TRUE /\ lost' = lost
              /\ rows' = rows \ {v} /\ seen'.rows = seen.rows \ {v}
              /\ \A i \in Interface :
                    /\ dbCol'[i] = IF i = v THEN NoColumns ELSE dbCol[i]
                    /\ col'[i] = IF i = v THEN NoColumns ELSE col[i]
                    /\ status'[i] = IF i = v THEN NoStatus ELSE status[i]
                    /\ seen'.status[i] = IF i = v THEN NoStatus ELSE seen.status[i]
                    /\ dbFwd'[i] = IF i = v THEN NoFwd ELSE dbFwd[i]
                    /\ fwd'[i] = IF i = v THEN NoFwd ELSE fwd[i]
              /\ status' = [i \in Interface |-> status'[i]]
              /\ seen' = [rows |-> seen'.rows, status |-> seen'.status]
              /\ seen'.status = [i \in Interface |-> seen'.status[i]]
              /\ dbFwd' = [i \in Interface |-> dbFwd'[i]] /\ fwd' = [i \in Interface |-> fwd'[i]]
  BY RowLeavesIs DEF ForwardingInv
<1>2. ForwardingTypes /\ UnknownInv /\ TransactionInv /\ EnableInv
  BY DEF ForwardingInv
<1>3. /\ status' \in [Interface -> [Proto -> Status]]
      /\ seen'.status \in [Interface -> [Proto -> Status]]
  <2>1. NoStatus \in [Proto -> Status]
    BY NothingIs
  <2>2. /\ \A i \in Interface : status[i] \in [Proto -> Status]
        /\ \A i \in Interface : seen.status[i] \in [Proto -> Status]
    BY <1>2 DEF ForwardingTypes
  <2>3. /\ \A i \in Interface : status'[i] \in [Proto -> Status]
        /\ \A i \in Interface : seen'.status[i] \in [Proto -> Status]
    BY <1>1, <2>1, <2>2
  <2>4. /\ status' = [i \in Interface |-> status'[i]]
        /\ seen'.status = [i \in Interface |-> seen'.status[i]]
    BY <1>1
  <2> QED BY <2>3, <2>4
<1>4. dbFwd' \in [Interface -> FwdMap] /\ fwd' \in [Interface -> FwdMap]
  BY <1>1, <1>2, NoFwdTyped DEF ForwardingTypes
<1>5. seen'.rows \subseteq rows' /\ lost' \in BOOLEAN
  BY <1>1, <1>2 DEF ForwardingTypes
<1>6. ASSUME pc' # "commit" PROVE fwd' = dbFwd' /\ seen' = Nothing
  <2>1. fwd = dbFwd /\ seen = Nothing
    BY <1>1, <1>2, <1>6 DEF ForwardingTypes
  <2>2. fwd' = dbFwd'
    BY <1>1, <2>1
  <2>3. seen'.rows = {}
    BY <1>1, <2>1, NothingIs
  <2>4. \A i \in Interface : seen'.status[i] = NoStatus
    BY <1>1, <2>1 DEF Nothing
  <2>5. seen'.status = [i \in Interface |-> NoStatus]
    BY <1>1, <2>4
  <2> QED BY <1>1, <2>2, <2>3, <2>5 DEF Nothing
<1>7. ForwardingTypes'
  BY <1>3, <1>4, <1>5, <1>6 DEF ForwardingTypes
<1>8. EnableInv'
  BY <1>1, <1>2, NewRowsAreAbsent DEF EnableInv, Enable
<1>9. UnknownInv'
  BY <1>1, <1>2 DEF UnknownInv, KnownRows
<1>10. TransactionInv'
  <2>1. rows \subseteq Interface /\ seen.rows \subseteq rows
    BY <1>2 DEF ForwardingTypes, TypeInv, ReplicaInv
  <2> QED BY <1>1, <1>2, <2>1 DEF TransactionInv, Settled
<1> QED BY <1>7, <1>8, <1>9, <1>10 DEF ForwardingInv

LEMMA ArbitrateForwarding ==
    ASSUME TypeInv, WriteInv, ForwardingInv, ArbitrateAndEnd
    PROVE  ForwardingInv'
<1>1. ForwardingTypes /\ UnknownInv /\ TransactionInv /\ EnableInv /\ rows \subseteq Interface
  BY DEF ForwardingInv, TypeInv, ReplicaInv
<1>2. /\ pc = "intf_mods" /\ pc' \in {"idle", "commit"}
      /\ UNCHANGED <<rows, dbCol, col, status, dbFwd>> /\ lost' = FALSE
      /\ fwd' = [i \in Interface |->
                    IF i \in rows THEN Decision(col[i].hw_intf_config.enable, status[i])
                                  ELSE fwd[i]]
      /\ pc' = "idle" => fwd' = fwd /\ col = dbCol /\ seen' = Nothing
      /\ pc' = "commit" => seen' = [rows |-> rows, status |-> status]
  BY <1>1, ArbitrateIs
<1>3. fwd' \in [Interface -> FwdMap]
  BY <1>1, <1>2, DecisionTyped DEF ForwardingTypes
<1>4. pc' = "commit" => seen'.rows = rows /\ seen'.status = status
  BY <1>2
<1>5. fwd = dbFwd
  BY <1>1, <1>2 DEF ForwardingTypes
<1>6. seen'.rows \subseteq rows /\ seen'.status \in [Interface -> [Proto -> Status]]
  BY <1>1, <1>2, <1>4, NothingIs DEF ForwardingTypes
<1>7. ForwardingTypes'
  BY <1>1, <1>2, <1>3, <1>5, <1>6 DEF ForwardingTypes
<1>8. \A i \in rows : fwd'[i] = Decision(col'[i].hw_intf_config.enable, status'[i])
  BY <1>1, <1>2
<1>9. UnknownInv'
  BY <1>1, <1>2, <1>4 DEF UnknownInv, KnownRows
<1>10. TransactionInv'
  BY <1>2, <1>4, <1>5, <1>8 DEF TransactionInv, Settled
<1> QED BY <1>1, <1>2, <1>7, <1>9, <1>10 DEF ForwardingInv, EnableInv

(* The end of a transaction: all of it is in the database, or nothing.     *)
LEMMA TransactionEnds ==
    ASSUME TypeInv, ForwardingInv, CommitBoth \/ LoseBoth \/ RestartDaemon
    PROVE  ForwardingInv'
<1>1. ForwardingTypes /\ UnknownInv /\ TransactionInv /\ EnableInv
  BY DEF ForwardingInv
<1>2. /\ pc' = "idle" /\ col' = dbCol' /\ fwd' = dbFwd' /\ seen' = Nothing
      /\ UNCHANGED <<rows, status>>
      /\ lost' \in {lost, TRUE}
      /\ \/ UNCHANGED <<dbCol, dbFwd>>
         \/ pc = "commit" /\ dbCol' = col /\ dbFwd' = fwd
      /\ ~news' /\ ~lost' => pc = "commit" /\ ~news /\ dbCol' = col /\ dbFwd' = fwd
  <2>1. CASE CommitBoth
    BY <2>1 DEF CommitBoth, Commit, replica, tracking
  <2>2. CASE LoseBoth
    BY <2>2 DEF LoseBoth, CommitFails, replica
  <2>3. CASE RestartDaemon
    BY <2>3, RestartDaemonIs
  <2> QED BY <2>1, <2>2, <2>3
<1>3. lost' \in BOOLEAN
  BY <1>1, <1>2 DEF ForwardingTypes
<1>4. dbFwd' \in [Interface -> FwdMap]
  BY <1>1, <1>2 DEF ForwardingTypes
<1>5. ForwardingTypes'
  BY <1>1, <1>2, <1>3, <1>4, NothingIs DEF ForwardingTypes
<1>6. KnownRows \subseteq rows /\ KnownRows' = rows
  BY <1>1, <1>2 DEF KnownRows, ForwardingTypes
<1>7. UnknownInv'
  BY <1>1, <1>2, <1>6 DEF UnknownInv
<1>8. TransactionInv'
  <2> SUFFICES ASSUME ~news', ~lost'
               PROVE  \A i \in rows :
                         dbFwd'[i] = Decision(dbCol'[i].hw_intf_config.enable, status[i])
    BY <1>2 DEF TransactionInv, Settled
  <2>1. seen.rows = rows /\ seen.status = status /\ dbCol' = col /\ dbFwd' = fwd
    BY <1>1, <1>2 DEF TransactionInv
  <2> QED BY <1>1, <1>2, <2>1 DEF TransactionInv
<1> QED BY <1>1, <1>2, <1>5, <1>7, <1>8 DEF ForwardingInv, EnableInv

LEMMA ForwardingStep ==
    TypeInv /\ WriteInv /\ ForwardingInv /\ [DaemonNext]_daemonVars => ForwardingInv'
<1> SUFFICES ASSUME TypeInv, WriteInv, ForwardingInv, [DaemonNext]_daemonVars
             PROVE  ForwardingInv'
  OBVIOUS
<1>1. CASE UNCHANGED daemonVars
  BY <1>1 DEF daemonVars, vars, replica, tracking, forwarding, ForwardingInv, ForwardingTypes,
              UnknownInv, TransactionInv, EnableInv, KnownRows, Settled
<1>2. CASE RowsStay /\ UNCHANGED forwarding
  <2>1. /\ pc \in {"idle", "commit"} /\ pc' = pc /\ news' = TRUE
        /\ rows \subseteq rows' /\ UNCHANGED <<dbCol, col>>
    BY <1>2, RowsStayIs
  <2>2. UNCHANGED <<status, dbFwd, fwd, seen, lost>>
    BY <1>2 DEF forwarding
  <2> QED BY <2>1, <2>2 DEF ForwardingInv, ForwardingTypes, UnknownInv, TransactionInv, EnableInv,
                            KnownRows, Settled
<1>3. CASE BondStatusWrite
  <2>1. /\ pc \in {"idle", "commit"} /\ pc' = pc /\ news' = TRUE
        /\ UNCHANGED <<rows, dbCol, col, dbFwd, fwd, seen, lost>>
        /\ status' \in [Interface -> [Proto -> Status]]
    BY <1>3, BondStatusWriteIs DEF ForwardingInv
  <2> QED BY <2>1 DEF ForwardingInv, ForwardingTypes, UnknownInv, TransactionInv, EnableInv,
                      KnownRows, Settled
<1> QED BY <1>1, <1>2, <1>3, RowLeavesForwarding, WalksForwarding, ArbitrateForwarding,
           TransactionEnds DEF DaemonNext, DaemonPass

LEMMA DaemonInvariant == DaemonSpec => [](TypeInv /\ WriteInv /\ ForwardingInv)
<1>1. DaemonInit => TypeInv /\ WriteInv
  BY TypeInit DEF DaemonInit, Init, WriteInv
<1>2. /\ TypeInv /\ [DaemonNext]_daemonVars => TypeInv'
      /\ TypeInv /\ WriteInv /\ [DaemonNext]_daemonVars => WriteInv'
  BY TypeStep, WriteStep, DaemonStepIs
<1> QED BY <1>1, <1>2, ForwardingInitially, ForwardingStep, PTL DEF DaemonSpec

(* The types of the composition.                                           *)
THEOREM DaemonTypes == DaemonSpec => []DaemonTypeOK
<1>1. ForwardingInv => DaemonTypeOK
  BY DEF ForwardingInv, ForwardingTypes, DaemonTypeOK
<1> QED BY <1>1, DaemonInvariant, PTL

(* When intfd has nothing left to do, every row shows the decision about   *)
(* its committed enable value and its protocols: whatever other clients    *)
(* changed while a commit blocked, whichever rows came and went, and       *)
(* across restarts, as long as the last transaction was not lost.          *)
THEOREM ForwardingFollows == DaemonSpec => []ForwardingFollowsEnable
<1>1. TypeInv /\ ForwardingInv => ForwardingFollowsEnable
  BY DEF ForwardingInv, TransactionInv, ForwardingFollowsEnable, EnableOf, TypeInv, ReplicaInv
<1> QED BY <1>1, DaemonInvariant, PTL

-----------------------------------------------------------------------------
(* Refinement: each step of the composition is a step of IntfForwarding,   *)
(* about the rows and states the open transaction is about, or leaves what *)
(* is committed alone.                                                     *)

LEMMA SameDecision ==
    ASSUME NEW en, NEW st
    PROVE  Abs!Decision(en, st) = Decision(en, st)
BY DEF Abs!Decision, Decision, Abs!Layer, Layer, Abs!NumLayers, NumLayers,
       Abs!LayerKey, LayerKey, Abs!LayerOwner, LayerOwner, Abs!LayerBlocked, LayerBlocked,
       Abs!HeldDown, HeldDown, Abs!Blockers, Blockers, Abs!FirstBlocker, FirstBlocker,
       Abs!lacp_state, lacp_state, Abs!get_state_value, get_state_value

LEMMA SameConstants == Abs!NoFwd = NoFwd /\ Abs!Proto = Proto /\ Abs!Enable = Enable
BY DEF Abs!NoFwd, NoFwd, Abs!Proto, Proto, Abs!ProtosOf, ProtosOf, Abs!Layer, Layer,
       Abs!NumLayers, NumLayers, Abs!Enable, Enable

LEMMA DaemonRefinementInit == DaemonInit => Abs!Init
<1> SUFFICES ASSUME DaemonInit PROVE Abs!Init
  OBVIOUS
<1>1. /\ pc = "idle" /\ rows = Physical /\ dbFwd = [i \in Interface |-> NoFwd]
      /\ status = [i \in Interface |-> NoStatus] /\ dbCol = [i \in Interface |-> NoColumns]
  BY DEF DaemonInit, Init
<1>2. EnableOf(dbCol) = [i \in Interface |-> "absent"]
  BY <1>1, NewRowsAreAbsent DEF EnableOf
<1>3. Physical \in SUBSET Interface
  BY DEF Physical
<1> QED BY <1>1, <1>2, <1>3, SameConstants DEF Abs!Init, NoStatus

(* What IntfForwarding asks of the rows and states intfd knows after a     *)
(* step.                                                                   *)
LEMMA KnownTypes ==
    ASSUME TypeInv', ForwardingTypes'
    PROVE  KnownRows' \in SUBSET Interface /\ KnownStatus' \in [Interface -> [Proto -> Status]]
BY DEF TypeInv, ReplicaInv, ForwardingTypes, KnownRows, KnownStatus

LEMMA Learns ==
    ASSUME TypeInv', ForwardingTypes', NEW fresh \in SUBSET Interface,
           (KnownRows \ KnownRows') \cup (KnownRows' \ KnownRows) \subseteq fresh,
           \A i \in Interface :
              /\ dbCol'[i].hw_intf_config.enable =
                    IF i \in fresh THEN "absent" ELSE dbCol[i].hw_intf_config.enable
              /\ dbFwd'[i] = IF i \in fresh THEN NoFwd ELSE dbFwd[i]
    PROVE  Abs!Learn
<1>1. KnownRows' \in SUBSET Interface /\ KnownStatus' \in [Interface -> [Proto -> Status]]
  BY KnownTypes
<1>2. EnableOf(dbCol)' = [i \in Interface |-> IF i \in fresh THEN "absent" ELSE EnableOf(dbCol)[i]]
  BY DEF EnableOf
<1>3. dbFwd' = [i \in Interface |-> IF i \in fresh THEN NoFwd ELSE dbFwd[i]]
  BY DEF ForwardingTypes
<1> QED BY <1>1, <1>2, <1>3, SameConstants DEF Abs!Learn, KnownRows, KnownStatus

(* The transaction, in the database, with what the rows are then.          *)
LEMMA Publishes ==
    ASSUME TypeInv', ForwardingTypes', EnableInv', ForwardingInv,
           pc = "commit", pc' = "idle", rows' = rows, dbCol' = col, dbFwd' = fwd
    PROVE  Abs!Publish
<1>1. KnownRows' \in SUBSET Interface /\ KnownStatus' \in [Interface -> [Proto -> Status]]
  BY KnownTypes
<1>2. KnownRows = seen.rows /\ KnownStatus = seen.status /\ KnownRows' = rows
      /\ seen.rows \subseteq rows
  BY DEF KnownRows, KnownStatus, ForwardingInv, ForwardingTypes
<1>3. EnableOf(dbCol)' \in [Interface -> Enable]
  BY DEF EnableOf, EnableInv
<1>4. ASSUME NEW i \in Interface
      PROVE  dbFwd'[i] = IF i \in KnownRows
                         THEN Decision(EnableOf(dbCol)'[i], KnownStatus[i]) ELSE dbFwd[i]
  <2>1. CASE i \in KnownRows
    BY <1>2, <2>1 DEF ForwardingInv, TransactionInv, EnableOf
  <2>2. CASE i \notin KnownRows
    BY <1>2, <2>2 DEF ForwardingInv, UnknownInv
  <2> QED BY <2>1, <2>2
<1>5. dbFwd' = [i \in Interface |-> IF i \in KnownRows
                   THEN Abs!Decision(EnableOf(dbCol)'[i], KnownStatus[i]) ELSE dbFwd[i]]
  BY <1>4, SameDecision DEF ForwardingTypes
<1> QED BY <1>1, <1>2, <1>3, <1>5, SameConstants DEF Abs!Publish, KnownRows, KnownStatus

LEMMA DaemonRefinementStep ==
    TypeInv /\ WriteInv /\ ForwardingInv /\ [DaemonNext]_daemonVars => [Abs!Next]_(Abs!vars)
<1> SUFFICES ASSUME TypeInv, WriteInv, ForwardingInv, [DaemonNext]_daemonVars
             PROVE  [Abs!Next]_(Abs!vars)
  OBVIOUS
<1>1. TypeInv' /\ ForwardingTypes' /\ EnableInv'
  BY TypeStep, DaemonStepIs, ForwardingStep DEF ForwardingInv
<1>2. /\ ForwardingTypes /\ UnknownInv /\ rows \subseteq Interface
      /\ \A i \in Interface \ KnownRows :
            dbFwd[i] = NoFwd /\ dbCol[i].hw_intf_config.enable = "absent"
  BY NewRowsAreAbsent DEF ForwardingInv, UnknownInv, TypeInv, ReplicaInv
<1>3. CASE UNCHANGED <<KnownRows, KnownStatus, dbCol, dbFwd>>
  BY <1>3 DEF Abs!vars, KnownRows, KnownStatus, EnableOf
<1>4. CASE UNCHANGED daemonVars
  BY <1>3, <1>4 DEF daemonVars, vars, replica, forwarding, KnownRows, KnownStatus
<1>5. CASE RowsStay /\ UNCHANGED forwarding
  <2>1. /\ pc \in {"idle", "commit"} /\ pc' = pc /\ rows \subseteq rows'
        /\ UNCHANGED <<dbCol, status, dbFwd, seen>>
    BY <1>5, RowsStayIs DEF forwarding
  <2>2. CASE pc = "commit"
    BY <1>3, <2>1, <2>2 DEF KnownRows, KnownStatus
  <2>3. CASE pc = "idle"
    <3>1. PICK fresh : fresh = rows' \ rows
      OBVIOUS
    <3>2. KnownRows = rows /\ KnownRows' = rows' /\ fresh \in SUBSET Interface
      BY <1>1, <2>1, <2>3, <3>1 DEF KnownRows, TypeInv, ReplicaInv
    <3>3. Abs!Learn
      BY <1>1, <1>2, <2>1, <3>1, <3>2, Learns
    <3> QED BY <3>3 DEF Abs!Next
  <2> QED BY <2>1, <2>2, <2>3
<1>6. CASE BondStatusWrite
  <2>1. /\ pc \in {"idle", "commit"} /\ pc' = pc
        /\ UNCHANGED <<rows, dbCol, dbFwd, seen>>
    BY <1>2, <1>6, BondStatusWriteIs
  <2>2. KnownRows' = KnownRows
    BY <2>1 DEF KnownRows
  <2>3. Abs!Learn
    <3>1. PICK fresh : fresh = {}
      OBVIOUS
    <3> QED BY <1>1, <2>1, <2>2, <3>1, Learns
  <2> QED BY <2>3 DEF Abs!Next
<1>7. CASE RowLeaves
  <2>1. PICK v \in rows :
           /\ pc' = pc /\ rows' = rows \ {v} /\ seen'.rows = seen.rows \ {v}
           /\ \A i \in Interface :
                 /\ dbCol'[i] = IF i = v THEN NoColumns ELSE dbCol[i]
                 /\ dbFwd'[i] = IF i = v THEN NoFwd ELSE dbFwd[i]
    BY <1>2, <1>7, RowLeavesIs
  <2>2. PICK fresh : fresh = {v}
    OBVIOUS
  <2>3. (KnownRows \ KnownRows') \cup (KnownRows' \ KnownRows) \subseteq fresh
        /\ fresh \in SUBSET Interface
    BY <1>2, <2>1, <2>2 DEF KnownRows
  <2>4. Abs!Learn
    BY <1>1, <2>1, <2>2, <2>3, NewRowsAreAbsent, Learns
  <2> QED BY <2>4 DEF Abs!Next
<1>8. CASE Walks /\ UNCHANGED forwarding
  <2>1. UNCHANGED <<rows, dbCol, status, dbFwd>> /\ pc # "commit" /\ pc' # "commit"
    BY <1>8, WalksWrite DEF replica, forwarding
  <2> QED BY <1>3, <2>1 DEF KnownRows, KnownStatus
<1>9. CASE ArbitrateAndEnd
  <2>1. /\ pc = "intf_mods" /\ UNCHANGED <<rows, dbCol, status, dbFwd>>
        /\ pc' = "commit" => seen' = [rows |-> rows, status |-> status]
    BY <1>2, <1>9, ArbitrateIs
  <2>2. KnownRows' = rows /\ KnownStatus' = status
    BY <2>1 DEF KnownRows, KnownStatus
  <2> QED BY <1>3, <2>1, <2>2 DEF KnownRows, KnownStatus
<1>10. CASE CommitBoth \/ LoseBoth \/ RestartDaemon
  <2>1. /\ pc' = "idle" /\ UNCHANGED rows
        /\ \/ UNCHANGED <<dbCol, dbFwd>>
           \/ pc = "commit" /\ dbCol' = col /\ dbFwd' = fwd
    BY <1>10, RestartDaemonIs DEF CommitBoth, Commit, LoseBoth, CommitFails, replica
  <2>2. CASE pc = "commit" /\ dbCol' = col /\ dbFwd' = fwd
    BY <1>1, <2>1, <2>2, Publishes DEF Abs!Next
  <2>3. CASE UNCHANGED <<dbCol, dbFwd>>
    <3>1. PICK fresh : fresh = rows \ KnownRows
      OBVIOUS
    <3>2. KnownRows' = rows /\ KnownRows \subseteq rows /\ fresh \in SUBSET Interface
      BY <1>2, <2>1, <3>1 DEF KnownRows, ForwardingTypes
    <3>3. Abs!Learn
      BY <1>1, <1>2, <2>3, <3>1, <3>2, Learns
    <3> QED BY <3>3 DEF Abs!Next
  <2> QED BY <2>1, <2>2, <2>3
<1> QED BY <1>4, <1>5, <1>6, <1>7, <1>8, <1>9, <1>10 DEF DaemonNext, DaemonPass

(* Readers of the database see what IntfForwarding says and no more:       *)
(* complete decisions, taken from the enable values they see with them.    *)
THEOREM DaemonRefines == DaemonSpec => DaemonRefinesForwarding
BY DaemonInvariant, DaemonRefinementInit, DaemonRefinementStep, PTL
   DEF DaemonSpec, DaemonRefinesForwarding, Abs!Spec
=============================================================================
