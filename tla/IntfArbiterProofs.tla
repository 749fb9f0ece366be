------------------------- MODULE IntfArbiterProofs --------------------------
(***************************************************************************)
(* Proofs about the interface arbiter, for every set of interfaces and     *)
(* every list of layers and protocols that satisfies ArbiterAssumption.    *)
(***************************************************************************)
EXTENDS IntfArbiter, TLAPS, FiniteSetTheorems

-----------------------------------------------------------------------------
(* The decision.                                                           *)

(* Facts about the constants, in the form the provers use.                 *)
LEMMA LayerFacts ==
    /\ NumLayers \in Nat /\ NumLayers >= 1
    /\ NumLayers \in Layer /\ 1 \in Layer
    /\ \A l \in Layer : l \in Nat /\ l >= 1 /\ l <= NumLayers
    /\ \A l \in Layer : LayerProtos[l] \in Seq(Nat) /\ Len(LayerProtos[l]) \in Nat
    /\ \A l \in Layer : l # NumLayers => l + 1 \in Layer
    /\ NONE \in Nat
<1>1. LayerProtos \in Seq(Seq(Nat)) /\ Len(LayerProtos) \in Nat /\ Len(LayerProtos) >= 1
  BY ArbiterAssumption
<1>2. \A l \in 1..Len(LayerProtos) : LayerProtos[l] \in Seq(Nat)
  BY <1>1
<1> QED BY <1>1, <1>2, ArbiterAssumption DEF NumLayers, Layer

(* The protocols of a layer: ids ascend along the list, below NONE.        *)
LEMMA ProtoFacts ==
    \A l \in Layer :
        /\ \A k \in 1..Len(LayerProtos[l]) :
              /\ LayerProtos[l][k] \in Nat
              /\ LayerProtos[l][k] < NONE
              /\ LayerProtos[l][k] \in ProtosOf(l)
              /\ LayerProtos[l][k] \in Proto
              /\ LayerProtos[l][k] \in Owner
        /\ \A j, k \in 1..Len(LayerProtos[l]) :
              j < k => LayerProtos[l][j] < LayerProtos[l][k]
        /\ ProtosOf(l) \subseteq Owner
<1> SUFFICES ASSUME NEW l \in Layer
             PROVE /\ \A k \in 1..Len(LayerProtos[l]) :
                         /\ LayerProtos[l][k] \in Nat
                         /\ LayerProtos[l][k] < NONE
                         /\ LayerProtos[l][k] \in ProtosOf(l)
                   /\ \A j, k \in 1..Len(LayerProtos[l]) :
                         j < k => LayerProtos[l][j] < LayerProtos[l][k]
                   /\ ProtosOf(l) \subseteq Proto
  BY DEF Owner
<1>1. LayerProtos[l] \in Seq(Nat)
  BY LayerFacts
<1>2. l \in 1..Len(LayerProtos)
  BY DEF Layer, NumLayers
<1>3. ProtosOf(l) \subseteq Proto
  BY DEF Proto
<1>4. \A k \in 1..Len(LayerProtos[l]) : LayerProtos[l][k] \in ProtosOf(l)
  BY DEF ProtosOf
<1>5. \A k \in 1..Len(LayerProtos[l]) : LayerProtos[l][k] \in Nat
  BY <1>1
<1> QED BY <1>2, <1>3, <1>4, <1>5, ArbiterAssumption

(* FirstBlocker is the blocking protocol no other one precedes.            *)
LEMMA FirstBlockerIs ==
    ASSUME NEW l \in Layer, NEW st, NEW k \in Blockers(l, st),
           \A j \in 1..(k - 1) : j \notin Blockers(l, st)
    PROVE  FirstBlocker(l, st) = k
<1>1. Blockers(l, st) \subseteq 1..Len(LayerProtos[l])
  BY DEF Blockers
<1>2. \A j \in Blockers(l, st) : j \in Nat /\ j >= 1
  BY <1>1, LayerFacts
<1>3. \A j \in Blockers(l, st) : k <= j
  BY <1>2
<1>4. \A m \in Blockers(l, st) : (\A j \in Blockers(l, st) : m <= j) => m = k
  BY <1>2, <1>3
<1> QED BY <1>3, <1>4 DEF FirstBlocker

(* A layer is held down exactly when the one below it is blocked.          *)
LEMMA HeldDownByBelow ==
    ASSUME NEW l \in Layer, l > 1, NEW en, NEW st
    PROVE  HeldDown(l, en, st) <=> LayerBlocked(l - 1, en, st)
<1>1. l \in Nat /\ l >= 2
  BY LayerFacts
<1>2. 1..(l - 1) = (1..((l - 1) - 1)) \cup {l - 1}
  BY <1>1
<1> QED BY <1>2 DEF HeldDown, LayerBlocked

(* The first layer is held down only by an interface that is not enabled.  *)
LEMMA HeldDownFirst ==
    ASSUME NEW en, NEW st
    PROVE  HeldDown(1, en, st) <=> en # "true"
<1>1. 1..(1 - 1) = {}
  OBVIOUS
<1> QED BY <1>1 DEF HeldDown

-----------------------------------------------------------------------------
(* The initial values of the variables have their types.                   *)
LEMMA FreshTypes ==
    /\ NoInterface \in Interface
    /\ NoFwd \in FwdMap
    /\ NoStatus \in [Proto -> Status]
    /\ NONE \in Owner
    /\ "absent" \in Enable
    /\ [l \in Layer |-> FALSE] \in [Layer -> BOOLEAN]
    /\ [l \in Layer |-> NONE] \in [Layer -> Owner]
<1>1. NoInterface \in Interface
  BY BoundAssumption DEF NoInterface
<1>2. NONE \in Owner
  BY DEF Owner
<1>3. NoFwd \in FwdMap
  BY <1>2 DEF NoFwd, FwdMap
<1>4. NoStatus \in [Proto -> Status]
  BY ArbiterAssumption DEF NoStatus
<1> QED BY <1>1, <1>2, <1>3, <1>4 DEF Enable

(* The variables have their types initially.                               *)
LEMMA TypeInit == Init => VariablesTyped
<1> SUFFICES ASSUME Init PROVE VariablesTyped
  OBVIOUS
<1>1. /\ status \in [Interface -> [Proto -> Status]]
      /\ enable \in [Interface -> Enable] /\ dbEnable \in [Interface -> Enable]
      /\ fwd \in [Interface -> FwdMap] /\ dbFwd \in [Interface -> FwdMap]
  BY FreshTypes DEF Init
<1>2. blocked \in [Layer -> BOOLEAN] /\ owner \in [Layer -> Owner]
  BY FreshTypes DEF Init, ArbiterInit
<1>3. failures \in 0..MaxFailures /\ restarts \in 0..MaxRestarts /\ pro \in Nat
  BY BoundAssumption DEF Init
<1> QED BY <1>1, <1>2, <1>3, FreshTypes, LayerFacts DEF Init, VariablesTyped

(* Every step keeps the types of the variables.                            *)
LEMMA TypeStep == VariablesTyped /\ ProtoInv /\ PendingInv /\ [Next]_vars => VariablesTyped'
<1> SUFFICES ASSUME VariablesTyped, ProtoInv, PendingInv, [Next]_vars PROVE VariablesTyped'
  OBVIOUS
<1> USE FreshTypes
<1>1. CASE ProtocolUpdate
  BY <1>1 DEF ProtocolUpdate, VariablesTyped
<1>2. CASE RowChange
  <2> USE <1>2 DEF RowChange
  <2>1. PICK i \in Interface :
          /\ rows' = IF i \in rows THEN rows \ {i} ELSE rows \cup {i}
          /\ status' = [status EXCEPT ![i] = NoStatus]
          /\ enable' = [enable EXCEPT ![i] = "absent"]
          /\ fwd' = [fwd EXCEPT ![i] = NoFwd]
          /\ dbEnable' = [dbEnable EXCEPT ![i] = "absent"]
          /\ dbFwd' = [dbFwd EXCEPT ![i] = NoFwd]
    OBVIOUS
  <2>2. rows' \in SUBSET Interface /\ todo' \in SUBSET rows'
    BY <2>1 DEF VariablesTyped, PendingInv
  <2>3. /\ status' \in [Interface -> [Proto -> Status]]
        /\ enable' \in [Interface -> Enable] /\ dbEnable' \in [Interface -> Enable]
        /\ fwd' \in [Interface -> FwdMap] /\ dbFwd' \in [Interface -> FwdMap]
    BY <2>1 DEF VariablesTyped
  <2> QED BY <2>2, <2>3 DEF VariablesTyped
<1>3. CASE StartPass
  BY <1>3 DEF StartPass, VariablesTyped
<1>4. CASE PickInterface
  BY <1>4, LayerFacts DEF PickInterface, VariablesTyped
<1>5. CASE LayerRun
  <2>1. blocked' \in [Layer -> BOOLEAN] /\ owner' \in [Layer -> Owner]
    BY <1>5 DEF LayerRun, VariablesTyped, layerVars
  <2>2. pro' \in Nat /\ pc' \in {"proto", "publish"}
    BY <1>5 DEF LayerRun, VariablesTyped
  <2> QED BY <1>5, <2>1, <2>2 DEF LayerRun, VariablesTyped
<1>6. CASE ProtoRun
  <2> DEFINE p == LayerProtos[lay][pro]
  <2>1. p \in Owner
    BY <1>6, ProtoFacts, LayerFacts DEF ProtoRun, ProtoInv, VariablesTyped
  <2>2. /\ blocked' \in [Layer -> BOOLEAN] /\ owner' \in [Layer -> Owner]
        /\ pro' \in Nat /\ pc' \in {"proto", "publish"}
    <3>1. CASE ProtoBlocks(p)
      BY <3>1, <2>1 DEF ProtoBlocks, VariablesTyped
    <3>2. CASE ProtoReleases(p)
      <4>1. blocked' \in [Layer -> BOOLEAN] /\ owner' \in [Layer -> Owner]
        BY <3>2 DEF ProtoReleases, VariablesTyped, layerVars
      <4>2. pro' \in Nat /\ pc' = "proto"
        BY <1>6, <3>2 DEF ProtoReleases, ProtoRun, VariablesTyped
      <4> QED BY <4>1, <4>2
    <3> QED BY <1>6, <3>1, <3>2 DEF ProtoRun
  <2> QED BY <1>6, <2>2 DEF ProtoRun, VariablesTyped
<1>7. CASE LayerOpen
  BY <1>7 DEF LayerOpen, VariablesTyped
<1>8. CASE PublishLayer
  <2>1. LayerKeys \in FwdMap
    BY DEF LayerKeys, FwdMap, VariablesTyped, get_state_value
  <2>2. fs' \in FwdMap
    BY <1>8, <2>1 DEF PublishLayer, FwdMap, get_state_value
  <2>3. fwd' \in [Interface -> FwdMap]
    BY <1>8, <2>2 DEF PublishLayer, VariablesTyped
  <2>6. lay' \in Layer
    <3>1. lay \in Layer /\ lay \in Nat
      BY LayerFacts DEF VariablesTyped
    <3> QED BY <1>8, <3>1, LayerFacts DEF PublishLayer
  <2>4. rc' \in BOOLEAN
    BY <1>8, Zenon DEF PublishLayer, VariablesTyped
  <2>5. todo' \in SUBSET rows' /\ pc' \in {"layer", "pick"}
    BY <1>8 DEF PublishLayer, VariablesTyped
  <2> QED BY <1>8, <2>2, <2>3, <2>4, <2>5, <2>6 DEF PublishLayer, VariablesTyped
<1>9. CASE Commit
  BY <1>9, LayerFacts DEF Commit, EndPass, LeavePass, VariablesTyped
<1>10. CASE CommitFails
  <2>1. failures' \in 0..MaxFailures
    BY <1>10, BoundAssumption DEF CommitFails, VariablesTyped
  <2> QED BY <1>10, <2>1, LayerFacts DEF CommitFails, EndPass, LeavePass, VariablesTyped, dbVars
<1>11. CASE Restart
  <2>1. restarts' \in 0..MaxRestarts
    BY <1>11, BoundAssumption DEF Restart, VariablesTyped
  <2>2. blocked' \in [Layer -> BOOLEAN] /\ owner' \in [Layer -> Owner]
    BY <1>11 DEF Restart
  <2> QED BY <1>11, <2>1, <2>2, LayerFacts DEF Restart, LeavePass, VariablesTyped
<1>12. CASE UNCHANGED vars
  BY <1>12 DEF vars, VariablesTyped
<1> QED
  BY <1>1, <1>2, <1>3, <1>4, <1>5, <1>6, <1>7, <1>8, <1>9, <1>10, <1>11, <1>12
  DEF Next, PassStep

-----------------------------------------------------------------------------
(* The layer objects stay well formed, whatever the rows say.              *)
LEMMA LayerStep == VariablesTyped /\ LayerInv /\ ProtoInv /\ [Next]_vars => LayerInv'
<1> SUFFICES ASSUME VariablesTyped, LayerInv, ProtoInv, [Next]_vars PROVE LayerInv'
  OBVIOUS
<1>1. CASE LayerRun
  BY <1>1 DEF LayerRun, LayerInv, VariablesTyped, layerVars
<1>2. CASE ProtoRun
  <2> DEFINE p == LayerProtos[lay][pro]
  <2>1. p \in ProtosOf(lay)
    BY <1>2, ProtoFacts, LayerFacts DEF ProtoRun, ProtoInv, VariablesTyped
  <2>2. CASE ProtoBlocks(p)
    BY <2>1, <2>2 DEF ProtoBlocks, LayerInv, VariablesTyped
  <2>3. CASE ProtoReleases(p)
    BY <2>3 DEF ProtoReleases, LayerInv, VariablesTyped, layerVars
  <2> QED BY <1>2, <2>2, <2>3 DEF ProtoRun
<1>3. CASE LayerOpen
  BY <1>3 DEF LayerOpen, LayerInv, VariablesTyped
<1>4. CASE Restart
  BY <1>4 DEF Restart, LayerInv
<1>5. CASE UNCHANGED layerVars
  BY <1>5 DEF layerVars, LayerInv
<1> QED
  BY <1>1, <1>2, <1>3, <1>4, <1>5
  DEF Next, PassStep, ProtocolUpdate, RowChange, StartPass, PickInterface,
      PublishLayer, Commit, CommitFails, EndPass, layerVars, vars

(* Uncommitted writes stay within a pass that will commit them.            *)
LEMMA PendingStep == VariablesTyped /\ CurrentInv /\ PendingInv /\ [Next]_vars => PendingInv'
<1> SUFFICES ASSUME VariablesTyped, CurrentInv, PendingInv, [Next]_vars PROVE PendingInv'
  OBVIOUS
<1>1. CASE ProtocolUpdate
  BY <1>1 DEF ProtocolUpdate, PendingInv
<1>2. CASE RowChange
  BY <1>2 DEF RowChange, PendingInv, VariablesTyped
<1>3. CASE StartPass
  <2>1. PICK e \in [Interface -> Enable] :
          /\ \A i \in Interface : e[i] # enable[i] => i \in rows /\ e[i] # "absent"
          /\ enable' = e
          /\ rc' \in {e # enable, TRUE}
    BY <1>3 DEF StartPass
  <2> QED BY <1>3, <2>1 DEF StartPass, PendingInv, VariablesTyped
<1>4. CASE PublishLayer
  <2>1. CASE lay < NumLayers
    <3>1. lay # NumLayers
      BY <2>1, LayerFacts DEF VariablesTyped
    <3>2. pc' = "layer" /\ UNCHANGED <<rc, enable, fwd, dbEnable, dbFwd, rows>>
      BY <1>4, <3>1 DEF PublishLayer
    <3> QED BY <3>2 DEF PendingInv
  <2>2. CASE lay = NumLayers
    <3>1. /\ fwd' = [fwd EXCEPT ![cur] = fs']
          /\ rc' = (rc \/ fs' # fwd[cur])
          /\ pc' = "pick"
          /\ UNCHANGED <<rows, enable, dbEnable, dbFwd>>
      BY <1>4, <2>2, LayerFacts DEF PublishLayer
    <3>2. cur \in rows
      BY <1>4 DEF PublishLayer, CurrentInv, VariablesTyped
    <3>3. fs' = fwd[cur] => fwd' = fwd
      BY <3>1 DEF VariablesTyped
    <3> QED BY <3>1, <3>2, <3>3 DEF PendingInv, VariablesTyped
  <2> QED BY <1>4, <2>1, <2>2 DEF PublishLayer
<1>5. CASE Commit
  BY <1>5 DEF Commit, EndPass, LeavePass, PendingInv
<1>6. CASE CommitFails
  BY <1>6 DEF CommitFails, EndPass, LeavePass, PendingInv, dbVars
<1>7. CASE Restart
  BY <1>7 DEF Restart, LeavePass, PendingInv
<1>8. CASE PickInterface \/ LayerRun \/ ProtoRun \/ LayerOpen
  <2>1. pc' # "idle" /\ UNCHANGED <<rc, enable, fwd, dbEnable, dbFwd, rows>>
    BY <1>8 DEF PickInterface, LayerRun, ProtoRun, ProtoBlocks, ProtoReleases, LayerOpen
  <2> QED BY <2>1 DEF PendingInv
<1>9. CASE UNCHANGED vars
  BY <1>9 DEF vars, PendingInv
<1> QED BY <1>1, <1>2, <1>3, <1>4, <1>5, <1>6, <1>7, <1>8, <1>9 DEF Next, PassStep

(* What layer_run leaves in the layer object is the decision's, from any   *)
(* well-formed object the previous interface may have left.                *)
LEMMA PublishStep == IInv /\ [Next]_vars => PublishInv'
<1> SUFFICES ASSUME IInv, [Next]_vars, pc' = "publish"
             PROVE /\ blocked'[lay'] <=> LayerBlocked(lay', enable'[cur'], status'[cur'])
                   /\ owner'[lay'] = LayerOwner(lay', enable'[cur'], status'[cur'])
                   /\ owner'[lay'] = NONE /\ blocked'[lay'] =>
                         HeldDown(lay', enable'[cur'], status'[cur'])
  BY DEF PublishInv
<1> DEFINE en == enable[cur]
           st == status[cur]
<1>a. lay \in Layer /\ cur \in Interface
  BY DEF IInv, VariablesTyped
<1>b. lay \in Nat /\ lay >= 1
  BY <1>a, LayerFacts
<1>1. CASE LayerRun
  <2>1. /\ (lay > 1 /\ blocked[lay - 1]) \/ en # "true"
        /\ blocked'[lay] = TRUE /\ owner'[lay] = NONE
        /\ UNCHANGED <<lay, cur, enable, status>>
    BY <1>1 DEF LayerRun, IInv, VariablesTyped
  <2>2. HeldDown(lay, en, st)
    <3>1. CASE en # "true"
      BY <3>1 DEF HeldDown
    <3>2. CASE lay > 1 /\ blocked[lay - 1]
      <4>1. blocked[lay - 1] <=> LayerBlocked(lay - 1, en, st)
        <5>1. lay - 1 \in 1..(lay - 1)
          BY <1>b, <3>2
        <5> QED BY <1>1, <5>1 DEF LayerRun, IInv, CurrentInv
      <4> QED BY <4>1, <3>2, <1>a, HeldDownByBelow
    <3> QED BY <2>1, <3>1, <3>2
  <2> QED BY <2>1, <2>2 DEF LayerBlocked, LayerOwner
<1>2. CASE ProtoRun
  <2> DEFINE p == LayerProtos[lay][pro]
  <2>1. /\ pc = "proto" /\ lacp_state(st[p]) /\ ProtoBlocks(p)
        /\ pro <= Len(LayerProtos[lay])
        /\ UNCHANGED <<lay, cur, enable, status>>
    BY <1>2 DEF ProtoRun, ProtoReleases
  <2>2. /\ ~HeldDown(lay, en, st)
        /\ pro \in 1..Len(LayerProtos[lay])
        /\ \A j \in 1..(pro - 1) :
              ~lacp_state(st[LayerProtos[lay][j]]) /\ owner[lay] # LayerProtos[lay][j]
    BY <2>1, <1>a, LayerFacts DEF IInv, ProtoInv
  <2>3. pro \in Blockers(lay, st) /\ \A j \in 1..(pro - 1) : j \notin Blockers(lay, st)
    BY <2>1, <2>2 DEF Blockers
  <2>4. FirstBlocker(lay, st) = pro
    BY <2>3, <1>a, FirstBlockerIs
  <2>5. owner'[lay] = p
    <3>1. CASE ~blocked[lay]
      BY <3>1, <2>1, <1>a DEF ProtoBlocks, IInv, VariablesTyped
    <3>2. CASE blocked[lay] /\ owner[lay] = NONE
      <4>1. p < owner[lay]
        BY <3>2, <2>2, <1>a, ProtoFacts
      <4> QED BY <4>1, <2>1, <1>a DEF ProtoBlocks, IInv, VariablesTyped
    <3>3. CASE blocked[lay] /\ owner[lay] # NONE
      <4>1. PICK k \in 1..Len(LayerProtos[lay]) : owner[lay] = LayerProtos[lay][k]
        BY <3>3, <1>a DEF IInv, LayerInv, ProtosOf
      <4>2. k >= pro
        BY <4>1, <2>2, <1>a, LayerFacts
      <4>3. p < owner[lay] \/ p = owner[lay]
        BY <4>1, <4>2, <2>2, <1>a, ProtoFacts, LayerFacts
      <4> QED BY <4>3, <2>1, <1>a DEF ProtoBlocks, IInv, VariablesTyped
    <3> QED BY <3>1, <3>2, <3>3
  <2>6. blocked'[lay] = TRUE
    BY <2>1, <1>a DEF ProtoBlocks, IInv, VariablesTyped
  <2>7. p # NONE
    BY <2>2, <1>a, ProtoFacts, LayerFacts
  <2> QED BY <2>1, <2>2, <2>3, <2>4, <2>5, <2>6, <2>7 DEF LayerBlocked, LayerOwner
<1>3. CASE LayerOpen
  <2>1. /\ blocked'[lay] = FALSE /\ owner'[lay] = NONE
        /\ UNCHANGED <<lay, cur, enable, status>>
    BY <1>3, <1>a DEF LayerOpen, IInv, VariablesTyped
  <2>2. /\ ~HeldDown(lay, en, st)
        /\ \A j \in 1..Len(LayerProtos[lay]) : ~lacp_state(st[LayerProtos[lay][j]])
    <3>1. ProtoInv /\ pc = "proto" /\ pro > Len(LayerProtos[lay])
      BY <1>3 DEF LayerOpen, IInv
    <3>2. pro - 1 = Len(LayerProtos[lay])
      BY <3>1, <1>a, LayerFacts DEF ProtoInv
    <3> QED BY <3>1, <3>2 DEF ProtoInv
  <2>3. Blockers(lay, st) = {}
    BY <2>2 DEF Blockers
  <2> QED BY <2>1, <2>2, <2>3 DEF LayerBlocked, LayerOwner
<1>4. CASE UNCHANGED vars
  BY <1>4 DEF vars, IInv, PublishInv
<1> QED
  BY <1>1, <1>2, <1>3, <1>4
  DEF Next, PassStep, ProtocolUpdate, RowChange, StartPass, PickInterface,
      PublishLayer, Commit, CommitFails, EndPass, LeavePass, Restart

(* A protocol that was asked and did not block owns nothing afterwards.    *)
LEMMA ProtoStep == IInv /\ [Next]_vars => ProtoInv'
<1> SUFFICES ASSUME IInv, [Next]_vars, pc' = "proto"
             PROVE /\ ~HeldDown(lay', enable'[cur'], status'[cur'])
                   /\ pro' \in 1..(Len(LayerProtos[lay']) + 1)
                   /\ \A j \in 1..(pro' - 1) :
                         /\ ~lacp_state(status'[cur'][LayerProtos[lay'][j]])
                         /\ owner'[lay'] # LayerProtos[lay'][j]
  BY DEF ProtoInv
<1> DEFINE en == enable[cur]
           st == status[cur]
<1>a. lay \in Layer /\ cur \in Interface
  BY DEF IInv, VariablesTyped
<1>b. lay \in Nat /\ lay >= 1 /\ Len(LayerProtos[lay]) \in Nat
  BY <1>a, LayerFacts
<1>1. CASE LayerRun
  <2>1. /\ ~(lay > 1 /\ blocked[lay - 1]) /\ en = "true"
        /\ pro' = 1
        /\ UNCHANGED <<lay, cur, enable, status>>
    BY <1>1 DEF LayerRun
  <2>2. ~HeldDown(lay, en, st)
    <3>1. CASE lay = 1
      BY <3>1, <2>1, HeldDownFirst
    <3>2. CASE lay > 1
      <4>1. lay - 1 \in 1..(lay - 1)
        BY <1>b, <3>2
      <4>2. blocked[lay - 1] <=> LayerBlocked(lay - 1, en, st)
        BY <1>1, <4>1 DEF LayerRun, IInv, CurrentInv
      <4> QED BY <4>2, <3>2, <2>1, <1>a, HeldDownByBelow
    <3> QED BY <1>b, <3>1, <3>2
  <2>3. 1 \in 1..(Len(LayerProtos[lay]) + 1) /\ 1..(1 - 1) = {}
    BY <1>b
  <2> QED BY <2>1, <2>2, <2>3
<1>2. CASE ProtoRun
  <2> DEFINE p == LayerProtos[lay][pro]
  <2>1. /\ pc = "proto" /\ ~lacp_state(st[p]) /\ ProtoReleases(p)
        /\ pro <= Len(LayerProtos[lay])
        /\ UNCHANGED <<lay, cur, enable, status>>
    BY <1>2 DEF ProtoRun, ProtoBlocks
  <2>2. /\ ~HeldDown(lay, en, st)
        /\ pro \in 1..Len(LayerProtos[lay])
        /\ \A j \in 1..(pro - 1) :
              ~lacp_state(st[LayerProtos[lay][j]]) /\ owner[lay] # LayerProtos[lay][j]
    BY <2>1, <1>b DEF IInv, ProtoInv
  <2>3. pro' = pro + 1 /\ pro' \in 1..(Len(LayerProtos[lay]) + 1)
    BY <2>1, <2>2, <1>b DEF ProtoReleases
  <2>4. 1..(pro' - 1) = (1..(pro - 1)) \cup {pro}
    BY <2>2, <2>3, <1>b
  <2>5. \A j \in 1..(pro' - 1) : j \in 1..Len(LayerProtos[lay])
    BY <2>2, <2>3, <1>b
  <2>6. \A j \in 1..(pro' - 1) : LayerProtos[lay][j] # NONE
    BY <2>5, <1>a, ProtoFacts, LayerFacts
  <2>7. \A j \in 1..(pro' - 1) : owner'[lay] # LayerProtos[lay][j]
    <3>1. CASE blocked[lay] /\ p = owner[lay]
      <4>1. owner'[lay] = NONE
        BY <3>1, <2>1, <1>a DEF ProtoReleases, IInv, VariablesTyped
      <4> QED BY <4>1, <2>6
    <3>2. CASE blocked[lay] /\ p # owner[lay]
      <4>1. owner' = owner
        BY <3>2, <2>1 DEF ProtoReleases, layerVars
      <4> QED BY <4>1, <3>2, <2>2, <2>4
    <3>3. CASE ~blocked[lay]
      <4>1. owner' = owner /\ owner[lay] = NONE
        BY <3>3, <2>1, <1>a DEF ProtoReleases, layerVars, IInv, LayerInv
      <4> QED BY <4>1, <2>6
    <3> QED BY <3>1, <3>2, <3>3
  <2> QED BY <2>1, <2>2, <2>3, <2>4, <2>7
<1>3. CASE UNCHANGED vars
  BY <1>3 DEF vars, IInv, ProtoInv
<1> QED
  BY <1>1, <1>2, <1>3
  DEF Next, PassStep, ProtocolUpdate, RowChange, StartPass, PickInterface,
      PublishLayer, LayerOpen, Commit, CommitFails, EndPass, LeavePass, Restart

(* The keys that are published for a layer are the decision's.             *)
LEMMA KeysOfLayer ==
    ASSUME IInv, pc = "publish"
    PROVE  /\ LayerKeys \in FwdMap
           /\ \A m \in 1..lay :
                 /\ blocked[m] <=> LayerBlocked(m, enable[cur], status[cur])
                 /\ LayerKeys.layer[m] = LayerKey(m, enable[cur], status[cur])
                 /\ LayerKeys.owner[m] = LayerOwner(m, enable[cur], status[cur])
<1> DEFINE en == enable[cur]
           st == status[cur]
<1>1. lay \in Layer /\ lay \in Nat /\ lay >= 1 /\ lay <= NumLayers /\ fs \in FwdMap
  BY LayerFacts DEF IInv, VariablesTyped
<1>2. LayerKeys \in FwdMap
  BY <1>1 DEF LayerKeys, FwdMap, IInv, VariablesTyped, get_state_value
<1>3. 1..lay = (1..(lay - 1)) \cup {lay}
  BY <1>1
<1>4. \A m \in 1..(lay - 1) : m # lay /\ m \in Layer
  BY <1>1, LayerFacts DEF Layer
<1>5. ASSUME NEW m \in 1..(lay - 1)
      PROVE /\ blocked[m] <=> LayerBlocked(m, en, st)
            /\ LayerKeys.layer[m] = LayerKey(m, en, st)
            /\ LayerKeys.owner[m] = LayerOwner(m, en, st)
  <2>1. LayerKeys.layer[m] = fs.layer[m] /\ LayerKeys.owner[m] = fs.owner[m]
    BY <1>1, <1>4 DEF LayerKeys, FwdMap
  <2> QED BY <2>1 DEF IInv, CurrentInv
<1>6. /\ blocked[lay] <=> LayerBlocked(lay, en, st)
      /\ owner[lay] = LayerOwner(lay, en, st)
  BY DEF IInv, PublishInv
<1>7. /\ LayerKeys.owner[lay] = owner[lay]
      /\ LayerKeys.layer[lay] = IF owner[lay] = NONE /\ blocked[lay] THEN "absent"
                                ELSE get_state_value(blocked[lay])
  BY <1>1 DEF LayerKeys, FwdMap
<1>8. (owner[lay] = NONE /\ blocked[lay]) <=> HeldDown(lay, en, st)
  BY <1>6 DEF LayerBlocked, LayerOwner, IInv, PublishInv
<1>9. LayerKeys.layer[lay] = LayerKey(lay, en, st)
  BY <1>6, <1>7, <1>8 DEF LayerKey, LayerBlocked, get_state_value
<1> QED BY <1>2, <1>3, <1>5, <1>6, <1>7, <1>9

(* The row being visited holds the decision for the layers done so far.    *)
LEMMA CurrentStep == IInv /\ [Next]_vars => CurrentInv'
<1> SUFFICES ASSUME IInv, [Next]_vars, pc' \in {"layer", "proto", "publish"}
             PROVE CurrentInv'
  BY DEF CurrentInv
<1>a. lay \in Layer /\ lay \in Nat /\ lay >= 1
  BY LayerFacts DEF IInv, VariablesTyped
<1>1. CASE PickInterface
  <2>1. lay' = 1 /\ cur' \in todo'
    BY <1>1 DEF PickInterface
  <2>2. 1..(lay' - 1) = {}
    BY <2>1
  <2> QED BY <2>1, <2>2 DEF CurrentInv
<1>2. CASE LayerRun \/ ProtoRun \/ LayerOpen
  <2>1. /\ UNCHANGED <<lay, cur, todo, fs, enable, status>>
        /\ pc \in {"layer", "proto"}
    BY <1>2 DEF LayerRun, ProtoRun, LayerOpen
  <2>2. \A m \in 1..(lay - 1) : m # lay /\ m \in Layer
    BY <1>a, LayerFacts DEF Layer
  <2>3. \A m \in 1..(lay - 1) : blocked'[m] = blocked[m]
    <3>1. CASE LayerRun
      BY <3>1, <2>2 DEF LayerRun, IInv, VariablesTyped, layerVars
    <3>2. CASE ProtoRun
      BY <3>2, <2>2 DEF ProtoRun, ProtoBlocks, ProtoReleases, IInv, VariablesTyped, layerVars
    <3>3. CASE LayerOpen
      BY <3>3, <2>2 DEF LayerOpen, IInv, VariablesTyped
    <3> QED BY <1>2, <3>1, <3>2, <3>3
  <2>4. CurrentInv
    BY DEF IInv
  <2> QED BY <2>1, <2>3, <2>4 DEF CurrentInv
<1>3. CASE PublishLayer
  <2>1. /\ lay' = lay + 1 /\ fs' = LayerKeys /\ pc = "publish"
        /\ UNCHANGED <<cur, todo, blocked, enable, status>>
    BY <1>3 DEF PublishLayer
  <2>2. lay' - 1 = lay
    BY <2>1, <1>a
  <2>3. cur \in todo
    BY <2>1 DEF IInv, CurrentInv
  <2> QED BY <2>1, <2>2, <2>3, KeysOfLayer DEF CurrentInv
<1>4. CASE UNCHANGED vars
  BY <1>4 DEF vars, IInv, CurrentInv
<1> QED
  BY <1>1, <1>2, <1>3, <1>4
  DEF Next, PassStep, ProtocolUpdate, RowChange, StartPass, Commit, CommitFails,
      EndPass, LeavePass, Restart

(* After its last layer, the row holds exactly the decision.               *)
LEMMA RowDecided ==
    ASSUME IInv, PublishLayer, lay = NumLayers
    PROVE  fwd'[cur] = Decision(enable[cur], status[cur])
<1> DEFINE en == enable[cur]
           st == status[cur]
<1>1. pc = "publish" /\ cur \in Interface /\ lay \in Layer /\ fwd \in [Interface -> FwdMap]
  BY DEF PublishLayer, IInv, VariablesTyped
<1>2. /\ fs' = [LayerKeys EXCEPT !.forwarding = get_state_value(blocked[lay])]
      /\ fwd' = [fwd EXCEPT ![cur] = fs']
  BY LayerFacts DEF PublishLayer
<1>3. /\ LayerKeys \in FwdMap
      /\ \A m \in Layer :
            /\ blocked[m] <=> LayerBlocked(m, en, st)
            /\ LayerKeys.layer[m] = LayerKey(m, en, st)
            /\ LayerKeys.owner[m] = LayerOwner(m, en, st)
  BY <1>1, KeysOfLayer DEF Layer
<1>4. LayerKeys.layer = [l \in Layer |-> LayerKey(l, en, st)]
  BY <1>3 DEF FwdMap
<1>5. LayerKeys.owner = [l \in Layer |-> LayerOwner(l, en, st)]
  BY <1>3 DEF FwdMap
<1>6. fs'.forwarding = get_state_value(LayerBlocked(NumLayers, en, st))
  BY <1>1, <1>2, <1>3 DEF FwdMap, get_state_value
<1>7. fs' = [forwarding |-> fs'.forwarding, layer |-> LayerKeys.layer, owner |-> LayerKeys.owner]
  BY <1>2, <1>3 DEF FwdMap
<1> QED BY <1>1, <1>2, <1>4, <1>5, <1>6, <1>7 DEF Decision

(* Every row a pass has visited holds its decision.                        *)
LEMMA VisitedStep == IInv /\ [Next]_vars => VisitedInv'
<1> SUFFICES ASSUME IInv, [Next]_vars, pc' # "idle" PROVE VisitedInv'
  BY DEF VisitedInv
<1>1. CASE StartPass
  BY <1>1 DEF StartPass, VisitedInv
<1>2. CASE PickInterface \/ LayerRun \/ ProtoRun \/ LayerOpen
  <2>1. pc # "idle" /\ UNCHANGED <<rows, todo, fwd, enable, status>>
    BY <1>2 DEF PickInterface, LayerRun, ProtoRun, LayerOpen
  <2> QED BY <2>1 DEF IInv, VisitedInv
<1>3. CASE PublishLayer
  <2>1. pc # "idle" /\ UNCHANGED <<rows, enable, status>>
    BY <1>3 DEF PublishLayer
  <2>2. CASE lay = NumLayers
    <3>1. /\ todo' = todo \ {cur}
          /\ \A i \in Interface \ {cur} : fwd'[i] = fwd[i]
      BY <1>3, <2>2, LayerFacts DEF PublishLayer, IInv, VariablesTyped
    <3>2. fwd'[cur] = Decision(enable[cur], status[cur])
      BY <1>3, <2>2, RowDecided
    <3> QED BY <2>1, <3>1, <3>2 DEF IInv, VisitedInv, VariablesTyped
  <2>3. CASE lay # NumLayers
    <3>1. UNCHANGED <<todo, fwd>>
      BY <1>3, <2>3 DEF PublishLayer
    <3> QED BY <2>1, <3>1 DEF IInv, VisitedInv
  <2> QED BY <2>2, <2>3
<1>4. CASE UNCHANGED vars
  BY <1>4 DEF vars, IInv, VisitedInv
<1> QED
  BY <1>1, <1>2, <1>3, <1>4
  DEF Next, PassStep, ProtocolUpdate, RowChange, Commit, CommitFails,
      EndPass, LeavePass, Restart

(* A committed pass leaves every row with its decision.                    *)
LEMMA CommitDecides ==
    ASSUME IInv, Commit
    PROVE  \A i \in rows : dbFwd'[i] = Decision(dbEnable'[i], status[i])
<1>1. \A i \in rows : fwd[i] = Decision(enable[i], status[i])
  BY DEF Commit, EndPass, IInv, VisitedInv
<1>2. dbFwd' = fwd /\ dbEnable' = enable
  BY DEF Commit, IInv, PendingInv
<1> QED BY <1>1, <1>2

(* Whenever no pass is due, the committed columns are the decisions.       *)
LEMMA SettledStep == IInv /\ [Next]_vars => Settled'
<1> SUFFICES ASSUME IInv, [Next]_vars, (pc = "idle" /\ ~dirty /\ ~lost)' PROVE Settled'
  BY DEF Settled
<1>1. CASE Commit
  BY <1>1, CommitDecides DEF Settled, Commit, EndPass
<1>2. CASE UNCHANGED vars
  BY <1>2 DEF vars, IInv, Settled
<1> QED
  BY <1>1, <1>2
  DEF Next, PassStep, ProtocolUpdate, RowChange, StartPass, PickInterface, LayerRun,
      ProtoRun, ProtoBlocks, ProtoReleases, LayerOpen, PublishLayer, CommitFails, Restart

(* Only an enabled interface is ever decided to forward.                   *)
LEMMA DecisionForwards ==
    ASSUME NEW en, NEW st, Decision(en, st).forwarding = "true"
    PROVE  en = "true"
BY DEF Decision, get_state_value, LayerBlocked, HeldDown

(* Committed forwarding needs the enable value committed with it.          *)
LEMMA NoForwardingStep == IInv /\ [Next]_vars => NoForwardingWhileDisabled'
<1> SUFFICES ASSUME IInv, [Next]_vars PROVE NoForwardingWhileDisabled'
  OBVIOUS
<1>1. CASE Commit
  <2>1. rows' = rows
    BY <1>1 DEF Commit, EndPass
  <2> QED BY <1>1, <2>1, CommitDecides, DecisionForwards DEF NoForwardingWhileDisabled
<1>2. CASE RowChange
  BY <1>2 DEF RowChange, IInv, VariablesTyped, NoForwardingWhileDisabled, NoFwd
<1>3. CASE UNCHANGED <<rows, dbEnable, dbFwd>>
  BY <1>3 DEF IInv, NoForwardingWhileDisabled
<1> QED
  BY <1>1, <1>2, <1>3
  DEF Next, PassStep, ProtocolUpdate, StartPass, PickInterface, LayerRun, ProtoRun,
      LayerOpen, PublishLayer, CommitFails, EndPass, dbVars, Restart, vars

-----------------------------------------------------------------------------
(* The invariant holds initially and is kept by every step.                *)
LEMMA InvInit == Init => IInv
<1> SUFFICES ASSUME Init PROVE IInv
  OBVIOUS
<1>1. VariablesTyped
  BY TypeInit
<1>2. LayerInv
  BY DEF Init, ArbiterInit, LayerInv
<1>3. PendingInv /\ Settled /\ VisitedInv /\ CurrentInv /\ ProtoInv /\ PublishInv
  BY DEF Init, PendingInv, Settled, VisitedInv, CurrentInv, ProtoInv, PublishInv
<1>4. NoForwardingWhileDisabled
  BY DEF Init, NoForwardingWhileDisabled, NoFwd
<1> QED BY <1>1, <1>2, <1>3, <1>4 DEF IInv

(* Every step keeps the invariant: one part at a time.                     *)
LEMMA InvStep == IInv /\ [Next]_vars => IInv'
<1> SUFFICES ASSUME IInv, [Next]_vars PROVE IInv'
  OBVIOUS
<1>1. VariablesTyped /\ LayerInv /\ ProtoInv /\ PendingInv /\ CurrentInv
  BY DEF IInv
<1> QED
  BY <1>1, TypeStep, LayerStep, PendingStep, PublishStep, ProtoStep, CurrentStep,
     VisitedStep, SettledStep, NoForwardingStep
  DEF IInv

(* IInv is an invariant of the arbiter.                                    *)
THEOREM ArbiterInvariant == Spec => []IInv
BY InvInit, InvStep, PTL DEF Spec

(* The variables keep their types, and no layer object an owner that has   *)
(* released it or is not of that layer.                                    *)
THEOREM ArbiterTypeOK == Spec => []TypeOK
<1>1. IInv => TypeOK
  BY DEF IInv, TypeOK
<1> QED BY <1>1, ArbiterInvariant, PTL

(* intfd_arbiter_run publishes for every row what that row alone decides,  *)
(* in whatever order the rows come and whatever earlier rows and passes    *)
(* left in the layer objects that all rows share.                          *)
THEOREM ArbiterSettles == Spec => []Settled
<1>1. IInv => Settled
  BY DEF IInv
<1> QED BY <1>1, ArbiterInvariant, PTL

(* No interface is shown as forwarding that is disabled in hardware.       *)
THEOREM NeverForwardingWhileDisabled == Spec => []NoForwardingWhileDisabled
<1>1. IInv => NoForwardingWhileDisabled
  BY DEF IInv
<1> QED BY <1>1, ArbiterInvariant, PTL

-----------------------------------------------------------------------------
(* Refinement: each step of the arbiter is a step of IntfForwarding, or    *)
(* leaves the committed columns alone.                                     *)
LEMMA RefinementInit == Init => Abs!Init
BY DEF Init, NoStatus, Abs!Init, Abs!NoFwd, NoFwd, Abs!Layer, Layer, Abs!NumLayers, NumLayers,
       Abs!Proto, Proto, Abs!ProtosOf, ProtosOf

(* The decision depends on the row of the interface alone.                 *)
LEMMA SameDecision ==
    ASSUME NEW en, NEW st
    PROVE  Abs!Decision(en, st) = Decision(en, st)
BY DEF Abs!Decision, Decision, Abs!Layer, Layer, Abs!NumLayers, NumLayers,
       Abs!LayerKey, LayerKey, Abs!LayerOwner, LayerOwner, Abs!LayerBlocked, LayerBlocked,
       Abs!HeldDown, HeldDown, Abs!Blockers, Blockers, Abs!FirstBlocker, FirstBlocker,
       Abs!lacp_state, lacp_state, Abs!get_state_value, get_state_value

(* What IntfForwarding asks of the rows and states after any step.         *)
LEMMA TypedStatus ==
    ASSUME IInv, [Next]_vars
    PROVE  rows' \in SUBSET Interface /\ status' \in [Interface -> [Abs!Proto -> Status]]
<1>1. VariablesTyped'
  BY TypeStep DEF IInv
<1>2. Abs!Proto = Proto
  BY DEF Abs!Proto, Proto, Abs!ProtosOf, ProtosOf, Abs!Layer, Layer, Abs!NumLayers, NumLayers
<1> QED BY <1>1, <1>2 DEF VariablesTyped

(* Every step is a step of IntfForwarding or leaves what it sees alone.    *)
LEMMA RefinementStep == IInv /\ [Next]_vars => [Abs!Next]_(Abs!vars)
<1> SUFFICES ASSUME IInv, [Next]_vars PROVE [Abs!Next]_(Abs!vars)
  OBVIOUS
<1>1. CASE ProtocolUpdate
  <2>1. rows' = rows /\ dbEnable' = dbEnable /\ dbFwd' = dbFwd
    BY <1>1 DEF ProtocolUpdate
  <2>2. dbEnable = [i \in Interface |-> IF i \in {} THEN "absent" ELSE dbEnable[i]]
    BY DEF IInv, VariablesTyped
  <2>3. dbFwd = [i \in Interface |-> IF i \in {} THEN Abs!NoFwd ELSE dbFwd[i]]
    BY DEF IInv, VariablesTyped
  <2>4. \E fresh \in SUBSET Interface :
          /\ (rows \ rows') \cup (rows' \ rows) \subseteq fresh
          /\ dbEnable' = [i \in Interface |-> IF i \in fresh THEN "absent" ELSE dbEnable[i]]
          /\ dbFwd' = [i \in Interface |-> IF i \in fresh THEN Abs!NoFwd ELSE dbFwd[i]]
    <3> WITNESS {} \in SUBSET Interface
    <3> QED BY <2>1, <2>2, <2>3
  <2> QED BY <2>4, TypedStatus DEF Abs!Next, Abs!Learn
<1>2. CASE RowChange
  <2>1. PICK i \in Interface :
          /\ rows' = IF i \in rows THEN rows \ {i} ELSE rows \cup {i}
          /\ dbEnable' = [dbEnable EXCEPT ![i] = "absent"]
          /\ dbFwd' = [dbFwd EXCEPT ![i] = NoFwd]
    BY <1>2 DEF RowChange
  <2>2. NoFwd = Abs!NoFwd
    BY DEF NoFwd, Abs!NoFwd, Abs!Layer, Layer, Abs!NumLayers, NumLayers
  <2>3. \E fresh \in SUBSET Interface :
          /\ (rows \ rows') \cup (rows' \ rows) \subseteq fresh
          /\ dbEnable' = [k \in Interface |-> IF k \in fresh THEN "absent" ELSE dbEnable[k]]
          /\ dbFwd' = [k \in Interface |-> IF k \in fresh THEN Abs!NoFwd ELSE dbFwd[k]]
    <3> WITNESS {i} \in SUBSET Interface
    <3> QED BY <2>1, <2>2 DEF IInv, VariablesTyped
  <2> QED BY <2>3, TypedStatus DEF Abs!Next, Abs!Learn
<1>3. CASE Commit
  <2>1. UNCHANGED <<rows, status>>
    BY <1>3 DEF Commit, EndPass
  <2>2. dbEnable' = enable /\ dbFwd' = fwd
    BY <1>3 DEF Commit, IInv, PendingInv
  <2>3. dbEnable' \in [Interface -> Abs!Enable]
    BY <2>2 DEF IInv, VariablesTyped, Abs!Enable, Enable
  <2>4. \A i \in Interface :
          dbFwd'[i] = IF i \in rows THEN Abs!Decision(dbEnable'[i], status[i]) ELSE dbFwd[i]
    BY <1>3, <2>2, CommitDecides, SameDecision DEF IInv, PendingInv
  <2>5. dbFwd' = [i \in Interface |->
                    IF i \in rows THEN Abs!Decision(dbEnable'[i], status[i]) ELSE dbFwd[i]]
    BY <2>2, <2>4 DEF IInv, VariablesTyped
  <2> QED BY <2>1, <2>3, <2>5, TypedStatus DEF Abs!Next, Abs!Publish
<1>4. CASE UNCHANGED <<rows, status, dbEnable, dbFwd>>
  BY <1>4 DEF Abs!vars
<1> QED
  BY <1>1, <1>2, <1>3, <1>4
  DEF Next, PassStep, StartPass, PickInterface, LayerRun, ProtoRun, LayerOpen,
      PublishLayer, CommitFails, EndPass, dbVars, Restart, vars

(* The committed columns behave as module IntfForwarding says: readers see *)
(* only atomic, complete decisions.                                        *)
THEOREM ArbiterRefines == Spec => RefinesForwarding
<1>1. Spec => []IInv
  BY ArbiterInvariant
<1> QED BY <1>1, RefinementInit, RefinementStep, PTL DEF Spec, RefinesForwarding, Abs!Spec
=============================================================================
