--------------------------- MODULE ArbiterDecision ---------------------------
(***************************************************************************)
(* What the interface arbiter of intfd (src/src/intfd_arbiter.c) has to    *)
(* decide for ONE interface row, as a function of that row alone.  Nothing *)
(* of the arbiter's own, shared and persistent, layer objects appears      *)
(* here: this is the reference the algorithm in IntfArbiter is held to.    *)
(***************************************************************************)
EXTENDS Integers, Sequences

CONSTANTS
    LayerProtos, \* the registered layers, first to last; a layer is the list
                 \* of the ids of its protocols, in the order of registration
    NONE,        \* INTERFACE_FORWARDING_STATE_PROTO_NONE
    Status       \* states a protocol can keep in a row ("absent": none)

(***************************************************************************)
(* The enumeration is declared outside this repository.  proto_run         *)
(* compares ids with "<" (line 189) and means "trumps in precedence", and  *)
(* a layer blocked without an owner has owner NONE (lines 259, 280), so    *)
(* the ids of a layer ascend in registration order and NONE is above them. *)
(* At least one layer is registered: attach_layer runs before any pass.    *)
(***************************************************************************)
ASSUME ArbiterAssumption ==
    /\ NONE \in Nat
    /\ "absent" \in Status
    /\ LayerProtos \in Seq(Seq(Nat))
    /\ Len(LayerProtos) >= 1
    /\ \A l \in 1..Len(LayerProtos) :
          /\ \A k \in 1..Len(LayerProtos[l]) : LayerProtos[l][k] < NONE
          /\ \A j, k \in 1..Len(LayerProtos[l]) :
                j < k => LayerProtos[l][j] < LayerProtos[l][k]

NumLayers == Len(LayerProtos)
Layer == 1..NumLayers

ProtosOf(l) == {LayerProtos[l][k] : k \in 1..Len(LayerProtos[l])}
Proto == UNION {ProtosOf(l) : l \in Layer}
Owner == Proto \cup {NONE}

(* Column hw_intf_config:enable.  (The state a protocol keeps for the row, *)
(* Status, is bond_status:bond_status_state for LACP.)                     *)
Enable == {"absent", "true", "false"}

(* The forwarding_state column; an absent owner key is NONE.               *)
FwdMap == [forwarding : {"absent", "true", "false"},
           layer : [Layer -> {"absent", "true", "false"}],
           owner : [Layer -> Owner]]

NoFwd == [forwarding |-> "absent",
          layer |-> [l \in Layer |-> "absent"],
          owner |-> [l \in Layer |-> NONE]]

(* intfd_arbiter_lacp_state: anything other than "no status" and "up".     *)
lacp_state(s) == s \notin {"absent", "up"}

(* intfd_arbiter_get_state_value                                           *)
get_state_value(blocked) == IF blocked THEN "false" ELSE "true"

-----------------------------------------------------------------------------
(* The reference.  en is the row's enable, st the protocols' states.       *)

Blockers(l, st) == {k \in 1..Len(LayerProtos[l]) : lacp_state(st[LayerProtos[l][k]])}

FirstBlocker(l, st) ==
    CHOOSE k \in Blockers(l, st) : \A j \in Blockers(l, st) : k <= j

(* Blocked from outside layer l: the interface is down, or a layer below.  *)
HeldDown(l, en, st) ==
    en # "true" \/ \E m \in 1..(l - 1) : Blockers(m, st) # {}

LayerBlocked(l, en, st) == HeldDown(l, en, st) \/ Blockers(l, st) # {}

LayerOwner(l, en, st) ==
    IF ~HeldDown(l, en, st) /\ Blockers(l, st) # {}
    THEN LayerProtos[l][FirstBlocker(l, st)]
    ELSE NONE

LayerKey(l, en, st) ==
    IF HeldDown(l, en, st) THEN "absent"
    ELSE get_state_value(Blockers(l, st) # {})

Decision(en, st) ==
    [forwarding |-> get_state_value(LayerBlocked(NumLayers, en, st)),
     layer |-> [l \in Layer |-> LayerKey(l, en, st)],
     owner |-> [l \in Layer |-> LayerOwner(l, en, st)]]
=============================================================================
