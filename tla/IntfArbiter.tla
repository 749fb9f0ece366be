---------------------------- MODULE IntfArbiter -----------------------------
(***************************************************************************)
(* The interface arbiter of intfd: src/src/intfd_arbiter.c, driven for     *)
(* every interface row by intfd_arbiter_run (src/src/intfd_ovsdb_if.c,     *)
(* lines 2005-2027) at the end of each intfd_reconfigure.                  *)
(*                                                                         *)
(* There is ONE object per layer, not one per interface and layer: its     *)
(* "blocked" and "owner" survive from one interface to the next and from   *)
(* one pass to the next, and the rows are visited in an order the IDL      *)
(* chooses.  The steps below are the loop iterations of the code; the      *)
(* replica (rows, status) does not change while a pass runs, because only  *)
(* ovsdb_idl_run changes it.                                               *)
(***************************************************************************)
EXTENDS ArbiterDecision

CONSTANTS
    Interface,    \* interface names
    MaxFailures,  \* bound: commits that fail
    MaxRestarts   \* bound: restarts of the daemon

ASSUME BoundAssumption ==
    Interface # {} /\ MaxFailures \in Nat /\ MaxRestarts \in Nat

VARIABLES
    rows, status,    \* the IDL replica: Interface rows, protocol states
    enable, fwd,     \* the columns intfd writes, with uncommitted writes
    dbEnable, dbFwd, \* the same columns as last committed
    blocked, owner,  \* the layer objects
    pc,              \* the loop the pass is in
    todo, cur,       \* rows not visited yet, the row being visited
    lay, pro,        \* current layer, current protocol of the layer
    fs,              \* the local forwarding_state smap
    rc,              \* some row was written in this pass
    dirty,           \* the IDL seqno is not the one last handled
    lost,            \* the last pass wrote rows and its commit failed
    failures, restarts

replicaVars == <<rows, status>>
columnVars == <<enable, fwd>>
dbVars == <<dbEnable, dbFwd>>
layerVars == <<blocked, owner>>
boundVars == <<failures, restarts>>
vars == <<rows, status, enable, fwd, dbEnable, dbFwd, blocked, owner, pc, todo,
          cur, lay, pro, fs, rc, dirty, lost, failures, restarts>>

(* The locals of a pass when no pass runs.                                 *)
NoInterface == CHOOSE i \in Interface : TRUE

NoStatus == [p \in Proto |-> "absent"]

(* intfd_arbiter_init: memset of the arbiter, then each layer is           *)
(* allocated zeroed (not blocked) with owner NONE and attached at the end. *)
ArbiterInit ==
    /\ blocked = [l \in Layer |-> FALSE]
    /\ owner = [l \in Layer |-> NONE]

Init ==
    /\ rows \in SUBSET Interface
    /\ status = [i \in Interface |-> NoStatus]
    /\ enable = [i \in Interface |-> "absent"]
    /\ fwd = [i \in Interface |-> NoFwd]
    /\ dbEnable = enable
    /\ dbFwd = fwd
    /\ ArbiterInit
    /\ pc = "idle"
    /\ todo = {}
    /\ cur = NoInterface
    /\ lay = 1
    /\ pro = 1
    /\ fs = NoFwd
    /\ rc = FALSE
    /\ dirty = TRUE
    /\ lost = FALSE
    /\ failures = 0
    /\ restarts = 0

-----------------------------------------------------------------------------
(* The environment: updates that ovsdb_idl_run brings in.                  *)

(* lacpd writes bond_status, which alerts intfd.                           *)
ProtocolUpdate ==
    /\ pc = "idle"
    /\ \E i \in rows, p \in Proto, s \in Status :
          /\ s # status[i][p]
          /\ status' = [status EXCEPT ![i][p] = s]
    /\ dirty' = TRUE
    /\ UNCHANGED <<rows, enable, fwd, dbEnable, dbFwd, blocked, owner, pc, todo,
                   cur, lay, pro, fs, rc, lost, failures, restarts>>

(* A client inserts or deletes an Interface row.                           *)
RowChange ==
    /\ pc = "idle"
    /\ \E i \in Interface :
          /\ rows' = IF i \in rows THEN rows \ {i} ELSE rows \cup {i}
          /\ status' = [status EXCEPT ![i] = NoStatus]
          /\ enable' = [enable EXCEPT ![i] = "absent"]
          /\ fwd' = [fwd EXCEPT ![i] = NoFwd]
          /\ dbEnable' = [dbEnable EXCEPT ![i] = "absent"]
          /\ dbFwd' = [dbFwd EXCEPT ![i] = NoFwd]
    /\ dirty' = TRUE
    /\ UNCHANGED <<blocked, owner, pc, todo, cur, lay, pro, fs, rc, lost,
                   failures, restarts>>

-----------------------------------------------------------------------------
(* A pass of intfd_reconfigure.                                            *)

(* It runs only when the seqno moved.  The handlers before the arbiter     *)
(* (port_reconfigure, handle_interfaces_config_mods) may rewrite           *)
(* hw_intf_config of any row; module IntfReconfig says how.  The arbiter   *)
(* then reads the uncommitted values.                                      *)
StartPass ==
    /\ pc = "idle"
    /\ dirty
    /\ \E e \in [Interface -> Enable] :
          /\ \A i \in Interface :
                e[i] # enable[i] => i \in rows /\ e[i] # "absent"
          /\ enable' = e
          /\ rc' \in {e # enable, TRUE}
    /\ todo' = rows
    /\ pc' = "pick"
    /\ UNCHANGED <<rows, status, fwd, dbEnable, dbFwd, blocked, owner, cur, lay,
                   pro, fs, dirty, lost, failures, restarts>>

(* intfd_arbiter_run: next row, its column cloned.                         *)
PickInterface ==
    /\ pc = "pick"
    /\ \E i \in todo :
          /\ cur' = i
          /\ fs' = fwd[i]
    /\ lay' = 1
    /\ pc' = "layer"
    /\ UNCHANGED <<rows, status, enable, fwd, dbEnable, dbFwd, blocked, owner,
                   todo, pro, rc, dirty, lost, failures, restarts>>

(* Mutant of LayerRun: a row without the enable key counts as enabled.     *)
LayerRunAbsentIsUp ==
    /\ pc = "layer"
    /\ \/ /\ (lay > 1 /\ blocked[lay - 1]) \/ enable[cur] = "false"
          /\ blocked' = [blocked EXCEPT ![lay] = TRUE]
          /\ owner' = [owner EXCEPT ![lay] = NONE]
          /\ pc' = "publish"
          /\ UNCHANGED pro
       \/ /\ ~(lay > 1 /\ blocked[lay - 1]) /\ enable[cur] # "false"
          /\ pc' = "proto"
          /\ pro' = 1
          /\ UNCHANGED layerVars
    /\ UNCHANGED <<rows, status, enable, fwd, dbEnable, dbFwd, todo, cur, lay, fs,
                   rc, dirty, lost, failures, restarts>>

(* intfd_arbiter_layer_run, before its loop: the previous layer of the     *)
(* same interface is blocked, or the interface is not enabled.             *)
LayerRun ==
    /\ pc = "layer"
    /\ \/ /\ (lay > 1 /\ blocked[lay - 1]) \/ enable[cur] # "true"
          /\ blocked' = [blocked EXCEPT ![lay] = TRUE]
          /\ owner' = [owner EXCEPT ![lay] = NONE]
          /\ pc' = "publish"
          /\ UNCHANGED pro
       \/ /\ ~(lay > 1 /\ blocked[lay - 1]) /\ enable[cur] = "true"
          /\ pc' = "proto"
          /\ pro' = 1
          /\ UNCHANGED layerVars
    /\ UNCHANGED <<rows, status, enable, fwd, dbEnable, dbFwd, todo, cur, lay, fs,
                   rc, dirty, lost, failures, restarts>>

(* Mutant of ProtoBlocks: a layer found blocked keeps its owner.           *)
ProtoBlocksKeepsOwner(p) ==
    /\ blocked' = [blocked EXCEPT ![lay] = TRUE]
    /\ owner' = IF ~blocked[lay] THEN [owner EXCEPT ![lay] = p] ELSE owner
    /\ pc' = "publish"
    /\ UNCHANGED pro

(* intfd_arbiter_proto_run: a protocol that blocks takes over a layer that *)
(* is not blocked or has an owner of lower precedence, and ends the loop.  *)
ProtoBlocks(p) ==
    /\ blocked' = [blocked EXCEPT ![lay] = TRUE]
    /\ owner' = IF ~blocked[lay] \/ p < owner[lay]
                THEN [owner EXCEPT ![lay] = p]
                ELSE owner
    /\ pc' = "publish"
    /\ UNCHANGED pro

(* Mutant of ProtoReleases: the layer is left to the other protocols.      *)
ProtoReleasesNothing(p) ==
    /\ UNCHANGED <<blocked, owner, pc>>
    /\ pro' = pro + 1

(* Mutant of ProtoReleases: the released layer keeps its owner.            *)
ProtoReleasesKeepsOwner(p) ==
    /\ IF blocked[lay] /\ p = owner[lay]
       THEN blocked' = [blocked EXCEPT ![lay] = FALSE] /\ UNCHANGED owner
       ELSE UNCHANGED layerVars
    /\ pro' = pro + 1
    /\ UNCHANGED pc

(* A protocol that does not block releases a layer it owns.                *)
ProtoReleases(p) ==
    /\ IF blocked[lay] /\ p = owner[lay]
       THEN /\ blocked' = [blocked EXCEPT ![lay] = FALSE]
            /\ owner' = [owner EXCEPT ![lay] = NONE]
       ELSE UNCHANGED layerVars
    /\ pro' = pro + 1
    /\ UNCHANGED pc

ProtoRun ==
    /\ pc = "proto"
    /\ pro <= Len(LayerProtos[lay])
    /\ LET p == LayerProtos[lay][pro] IN
          \/ lacp_state(status[cur][p]) /\ ProtoBlocks(p)
          \/ ~lacp_state(status[cur][p]) /\ ProtoReleases(p)
    /\ UNCHANGED <<rows, status, enable, fwd, dbEnable, dbFwd, todo, cur, lay, fs,
                   rc, dirty, lost, failures, restarts>>

(* Mutant of LayerOpen: the layer keeps what the last interface left.      *)
LayerOpenNoReset ==
    /\ pc = "proto"
    /\ pro > Len(LayerProtos[lay])
    /\ pc' = "publish"
    /\ UNCHANGED <<rows, status, enable, fwd, dbEnable, dbFwd, blocked, owner,
                   todo, cur, lay, pro, fs, rc, dirty, lost, failures, restarts>>

(* The loop of layer_run fell through: the layer is open.                  *)
LayerOpen ==
    /\ pc = "proto"
    /\ pro > Len(LayerProtos[lay])
    /\ blocked' = [blocked EXCEPT ![lay] = FALSE]
    /\ owner' = [owner EXCEPT ![lay] = NONE]
    /\ pc' = "publish"
    /\ UNCHANGED <<rows, status, enable, fwd, dbEnable, dbFwd, todo, cur, lay, pro,
                   fs, rc, dirty, lost, failures, restarts>>

(* intfd_arbiter_interface_run: the layer's two keys, then the next layer; *)
(* after the last layer the forwarding key, and the row is written if its  *)
(* column changed.                                                         *)
LayerKeys ==
    [fs EXCEPT
        !.layer[lay] = IF owner[lay] = NONE /\ blocked[lay] THEN "absent"
                       ELSE get_state_value(blocked[lay]),
        !.owner[lay] = owner[lay]]

PublishLayer ==
    /\ pc = "publish"
    /\ \/ /\ lay < NumLayers
          /\ fs' = LayerKeys
          /\ lay' = lay + 1
          /\ pc' = "layer"
          /\ UNCHANGED <<fwd, todo, rc>>
       \/ /\ lay = NumLayers
          /\ fs' = [LayerKeys EXCEPT !.forwarding = get_state_value(blocked[lay])]
          /\ fwd' = [fwd EXCEPT ![cur] = fs']
          /\ rc' = (rc \/ fs' # fwd[cur])
          /\ todo' = todo \ {cur}
          /\ pc' = "pick"
          /\ UNCHANGED lay
    /\ UNCHANGED <<rows, status, enable, dbEnable, dbFwd, blocked, owner, cur, pro,
                   dirty, lost, failures, restarts>>

LeavePass ==
    /\ pc' = "idle"
    /\ rc' = FALSE
    /\ cur' = NoInterface
    /\ lay' = 1
    /\ pro' = 1
    /\ fs' = NoFwd

(* End of the pass: the seqno counts as handled whatever becomes of the    *)
(* transaction (line 2110).  intfd_run commits if anything was written     *)
(* and ignores the result; a failed commit restores the replica.           *)
EndPass ==
    /\ pc = "pick"
    /\ todo = {}
    /\ dirty' = FALSE
    /\ LeavePass
    /\ UNCHANGED <<rows, status, blocked, owner, todo, restarts>>

Commit ==
    /\ EndPass
    /\ dbEnable' = IF rc THEN enable ELSE dbEnable
    /\ dbFwd' = IF rc THEN fwd ELSE dbFwd
    /\ enable' = dbEnable'
    /\ fwd' = dbFwd'
    /\ lost' = FALSE
    /\ UNCHANGED failures

CommitFails ==
    /\ EndPass
    /\ rc
    /\ failures < MaxFailures
    /\ failures' = failures + 1
    /\ enable' = dbEnable
    /\ fwd' = dbFwd
    /\ lost' = TRUE
    /\ UNCHANGED dbVars

(* The daemon stops at any point and starts again: uncommitted writes are  *)
(* gone, the layer objects are new, every row is news.                     *)
Restart ==
    /\ restarts < MaxRestarts
    /\ restarts' = restarts + 1
    /\ enable' = dbEnable
    /\ fwd' = dbFwd
    /\ blocked' = [l \in Layer |-> FALSE]
    /\ owner' = [l \in Layer |-> NONE]
    /\ LeavePass
    /\ todo' = {}
    /\ dirty' = TRUE
    /\ UNCHANGED <<rows, status, dbEnable, dbFwd, lost, failures>>

PassStep ==
    \/ PickInterface \/ LayerRun \/ ProtoRun \/ LayerOpen \/ PublishLayer
    \/ Commit \/ CommitFails

Next == ProtocolUpdate \/ RowChange \/ StartPass \/ PassStep \/ Restart

Spec == Init /\ [][Next]_vars

-----------------------------------------------------------------------------
(* Properties.                                                             *)

VariablesTyped ==
    /\ rows \in SUBSET Interface
    /\ status \in [Interface -> [Proto -> Status]]
    /\ enable \in [Interface -> Enable]
    /\ dbEnable \in [Interface -> Enable]
    /\ fwd \in [Interface -> FwdMap]
    /\ dbFwd \in [Interface -> FwdMap]
    /\ blocked \in [Layer -> BOOLEAN]
    /\ owner \in [Layer -> Owner]
    /\ pc \in {"idle", "pick", "layer", "proto", "publish"}
    /\ todo \in SUBSET rows
    /\ cur \in Interface
    /\ lay \in Layer
    /\ pro \in Nat
    /\ fs \in FwdMap
    /\ rc \in BOOLEAN
    /\ dirty \in BOOLEAN
    /\ lost \in BOOLEAN
    /\ failures \in 0..MaxFailures
    /\ restarts \in 0..MaxRestarts

(* A layer object's owner is one of its protocols, and only while blocked. *)
LayerInv ==
    \A l \in Layer :
        /\ owner[l] \in ProtosOf(l) \cup {NONE}
        /\ ~blocked[l] => owner[l] = NONE

(* The variables keep their types, and so do the layer objects that outlive *)
(* the rows and the passes: no layer keeps the owner of an earlier row when *)
(* a protocol has released it, although release, take-over, early return   *)
(* and fall-through each write blocked and owner in a place of their own.  *)
TypeOK == VariablesTyped /\ LayerInv

(* When the daemon has handled every update and its last commit did not    *)
(* fail, the committed forwarding_state of every row is the decision of    *)
(* that row alone: it depends neither on the order in which the rows were  *)
(* visited nor on what the shared layer objects held before.               *)
Settled ==
    pc = "idle" /\ ~dirty /\ ~lost =>
        \A i \in rows : dbFwd[i] = Decision(dbEnable[i], status[i])

(* No committed state shows an interface as forwarding that intfd keeps    *)
(* disabled in hardware, although commits fail and the daemon restarts     *)
(* between passes: the two columns travel in one transaction.              *)
NoForwardingWhileDisabled ==
    \A i \in rows : dbFwd[i].forwarding = "true" => dbEnable[i] = "true"

(* The committed columns change only as module IntfForwarding allows:      *)
(* by one atomic transaction that carries the decision for every row.      *)
Abs == INSTANCE IntfForwarding WITH enable <- dbEnable, fwd <- dbFwd
RefinesForwarding == Abs!Spec

-----------------------------------------------------------------------------
(* The inductive invariant behind these properties.                        *)

(* The rows already visited in this pass hold their decision.              *)
VisitedInv ==
    pc # "idle" => \A i \in rows \ todo : fwd[i] = Decision(enable[i], status[i])

(* The layers already run for the current row are those of the decision.   *)
CurrentInv ==
    pc \in {"layer", "proto", "publish"} =>
        /\ cur \in todo
        /\ \A m \in 1..(lay - 1) :
              /\ blocked[m] <=> LayerBlocked(m, enable[cur], status[cur])
              /\ fs.layer[m] = LayerKey(m, enable[cur], status[cur])
              /\ fs.owner[m] = LayerOwner(m, enable[cur], status[cur])

(* The protocols already asked do not block and own nothing: whatever the  *)
(* layer object was left with, its owner is one still to be asked, or NONE.*)
ProtoInv ==
    pc = "proto" =>
        /\ ~HeldDown(lay, enable[cur], status[cur])
        /\ pro \in 1..(Len(LayerProtos[lay]) + 1)
        /\ \A j \in 1..(pro - 1) :
              /\ ~lacp_state(status[cur][LayerProtos[lay][j]])
              /\ owner[lay] # LayerProtos[lay][j]

PublishInv ==
    pc = "publish" =>
        /\ blocked[lay] <=> LayerBlocked(lay, enable[cur], status[cur])
        /\ owner[lay] = LayerOwner(lay, enable[cur], status[cur])
        /\ owner[lay] = NONE /\ blocked[lay] => HeldDown(lay, enable[cur], status[cur])

(* Uncommitted writes exist only in a pass that will commit, and only in   *)
(* existing rows.                                                          *)
PendingInv ==
    /\ pc = "idle" => ~rc /\ todo = {}
    /\ ~rc => enable = dbEnable /\ fwd = dbFwd
    /\ \A i \in Interface \ rows : enable[i] = dbEnable[i] /\ fwd[i] = dbFwd[i]

(* The inductive invariant: in every state of a pass the shared layer      *)
(* objects, the local smap and the rows already written stand for the      *)
(* decisions about the rows they belong to.                                *)
IInv ==
    /\ VariablesTyped /\ LayerInv /\ VisitedInv /\ CurrentInv /\ ProtoInv /\ PublishInv
    /\ PendingInv /\ Settled /\ NoForwardingWhileDisabled
=============================================================================
