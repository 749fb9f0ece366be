--------------------------- MODULE IntfForwarding ---------------------------
(***************************************************************************)
(* What other daemons may rely on when they read the forwarding_state      *)
(* column: it changes in one way only, a transaction that sets it for      *)
(* EVERY interface to the decision that the protocol states intfd has read *)
(* and the enable values written by that same transaction determine.       *)
(***************************************************************************)
EXTENDS ArbiterDecision

CONSTANT Interface

VARIABLES
    rows,    \* interfaces that have a row, as far as intfd knows
    status,  \* status[i][p]: the state of protocol p in i's row, likewise
    enable,  \* hw_intf_config:enable, committed
    fwd      \* forwarding_state, committed

vars == <<rows, status, enable, fwd>>

Init ==
    /\ rows \in SUBSET Interface
    /\ status = [i \in Interface |-> [p \in Proto |-> "absent"]]
    /\ enable = [i \in Interface |-> "absent"]
    /\ fwd = [i \in Interface |-> NoFwd]

(* What other clients changed reaches intfd.  A row that comes or goes has *)
(* empty columns, as has one that was replaced.                            *)
Learn ==
    /\ rows' \in SUBSET Interface
    /\ status' \in [Interface -> [Proto -> Status]]
    /\ \E fresh \in SUBSET Interface :
          /\ (rows \ rows') \cup (rows' \ rows) \subseteq fresh
          /\ enable' = [i \in Interface |-> IF i \in fresh THEN "absent" ELSE enable[i]]
          /\ fwd' = [i \in Interface |-> IF i \in fresh THEN NoFwd ELSE fwd[i]]

(* One transaction of intfd, about the rows and states it knows; news that *)
(* came while the transaction was on its way is known afterwards.          *)
Publish ==
    /\ enable' \in [Interface -> Enable]
    /\ fwd' = [i \in Interface |->
                  IF i \in rows THEN Decision(enable'[i], status[i]) ELSE fwd[i]]
    /\ rows' \in SUBSET Interface /\ rows \subseteq rows'
    /\ status' \in [Interface -> [Proto -> Status]]

Next == Learn \/ Publish

Spec == Init /\ [][Next]_vars
=============================================================================
