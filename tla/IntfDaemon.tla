----------------------------- MODULE IntfDaemon -----------------------------
(***************************************************************************)
(* intfd as a whole: a pass of intfd_reconfigure (IntfReconfig) ends with  *)
(* the arbiter (src/src/intfd_ovsdb_if.c, lines 2005-2027 and 2103), whose *)
(* writes go into the same transaction.  IntfArbiter walks through the     *)
(* arbiter's loops and shows that a run leaves the decision of             *)
(* ArbiterDecision in every row, whatever the enable values; here that run *)
(* is one step, and the enable values are those the pass computed.         *)
(***************************************************************************)
EXTENDS IntfReconfig, ArbiterDecision

VARIABLES
    status,      \* status[i][p]: the state protocol p keeps in i's row
    dbFwd, fwd,  \* forwarding_state: committed, with the open transaction
    seen,        \* history: rows and states the open transaction is about
    lost         \* history: the last transaction failed

forwarding == <<status, dbFwd, fwd, seen, lost>>
daemonVars == <<vars, forwarding>>

NoStatus == [p \in Proto |-> "absent"]
Nothing == [rows |-> {}, status |-> [i \in Interface |-> NoStatus]]

DaemonInit ==
    /\ Init
    /\ status = [i \in Interface |-> NoStatus]
    /\ dbFwd = [i \in Interface |-> NoFwd] /\ fwd = dbFwd
    /\ seen = Nothing /\ lost = FALSE

-----------------------------------------------------------------------------
(* Other clients.                                                          *)

BondStatusWrite ==      \* lacpd
    /\ Others("bond_status") /\ StatusWrite
    /\ \E i \in rows, p \in Proto : \E s \in Status \ {status[i][p]} :
          status' = [status EXCEPT ![i][p] = s] /\ modI' = modI \cup {i}
    /\ UNCHANGED <<dbFwd, fwd, seen, lost>>

RowLeaves ==            \* with all its columns
    /\ VirtualDelete
    /\ LET gone == rows \ rows'
           without(f, empty) == [i \in Interface |-> IF i \in gone THEN empty ELSE f[i]]
       IN /\ status' = without(status, NoStatus)
          /\ dbFwd' = without(dbFwd, NoFwd) /\ fwd' = without(fwd, NoFwd)
          /\ seen' = [rows |-> seen.rows \ gone, status |-> without(seen.status, NoStatus)]
    /\ UNCHANGED lost

-----------------------------------------------------------------------------
(* Mutant of intfd_arbiter_run: it reads hw_intf_config as last committed. *)
ArbiterReadsCommitted ==
    [i \in Interface |->
        IF i \in rows THEN Decision(dbCol[i].hw_intf_config.enable, status[i]) ELSE fwd[i]]

(* Mutant of intfd_arbiter_run: only the rows of the batch.                *)
ArbiterRunsBatch ==
    [i \in Interface |->
        IF i \in insI \cup modI THEN Decision(col[i].hw_intf_config.enable, status[i])
                                ELSE fwd[i]]

(* Every row, from the enable value the pass has just written.             *)
intfd_arbiter_run ==
    [i \in Interface |->
        IF i \in rows THEN Decision(col[i].hw_intf_config.enable, status[i]) ELSE fwd[i]]

(* Mutant of ArbitrateAndEnd: the result of the arbiter is not returned.   *)
ArbiterNotCounted ==
    /\ EndPassWith(FALSE)
    /\ fwd' = IF pc' = "commit" THEN intfd_arbiter_run ELSE dbFwd
    /\ seen' = IF pc' = "commit" THEN [rows |-> rows, status |-> status] ELSE Nothing
    /\ lost' = FALSE
    /\ UNCHANGED <<status, dbFwd>>

(* intfd_reconfigure from line 2103 on: it returns non-zero if a column of *)
(* either part was written.                                                *)
ArbitrateAndEnd ==
    /\ EndPassWith(intfd_arbiter_run # fwd)
    /\ fwd' = intfd_arbiter_run
    /\ seen' = IF pc' = "commit" THEN [rows |-> rows, status |-> status] ELSE Nothing
    /\ lost' = FALSE
    /\ UNCHANGED <<status, dbFwd>>

CommitBoth ==
    /\ Commit
    /\ dbFwd' = fwd
    /\ seen' = Nothing
    /\ UNCHANGED <<status, fwd, lost>>

(* Mutant of LoseBoth: the replica keeps what the transaction wrote.       *)
LoseKeepsWrites ==
    /\ CommitFails
    /\ seen' = Nothing /\ lost' = TRUE
    /\ UNCHANGED <<status, dbFwd, fwd>>

LoseBoth ==
    /\ CommitFails
    /\ fwd' = dbFwd
    /\ seen' = Nothing /\ lost' = TRUE
    /\ UNCHANGED <<status, dbFwd>>

RestartDaemon ==
    /\ \E landed \in MayLand :
          RestartWith(landed) /\ dbFwd' = IF landed THEN fwd ELSE dbFwd
    /\ fwd' = dbFwd'
    /\ seen' = Nothing
    /\ UNCHANGED <<status, lost>>

DaemonPass ==
    \/ Walks /\ UNCHANGED forwarding
    \/ ArbitrateAndEnd
    \/ CommitBoth

(* A lost connection (Reconnect) is a fault of IntfReconfig's own runs only. *)
DaemonNext ==
    \/ RowsStay /\ UNCHANGED forwarding
    \/ BondStatusWrite \/ RowLeaves
    \/ DaemonPass \/ LoseBoth \/ RestartDaemon

DaemonSpec == DaemonInit /\ [][DaemonNext]_daemonVars

(* The main loop never stops: poll_block returns when the IDL has data, and *)
(* a pass that began runs to its end.  This is weak fairness of DaemonPass  *)
(* with ENABLED spelled out: PassDue of IntfReconfig.                       *)
FairDaemonSpec ==
    DaemonSpec /\ ([]<>~PassDue \/ []<><<DaemonPass>>_daemonVars)

-----------------------------------------------------------------------------
(* Properties.                                                             *)

EnableOf(columns) == [i \in Interface |-> columns[i].hw_intf_config.enable]

(* The variables of the composition keep their types; outside a            *)
(* transaction the replica holds what is committed.                        *)
DaemonTypeOK ==
    /\ status \in [Interface -> [Proto -> Status]]
    /\ dbFwd \in [Interface -> FwdMap] /\ fwd \in [Interface -> FwdMap]
    /\ seen.rows \subseteq rows /\ seen.status \in [Interface -> [Proto -> Status]]
    /\ lost \in BOOLEAN
    /\ pc # "commit" => fwd = dbFwd /\ seen = Nothing

(* forwarding_state is the decision about the committed enable and the     *)
(* protocol states of the row whenever intfd has nothing left to do and    *)
(* its last transaction was not lost.  Unlike hw_intf_config it recovers   *)
(* from a lost transaction with the next pass, whatever that pass is about. *)
ForwardingFollowsEnable ==
    Settled /\ ~lost =>
        \A i \in rows : dbFwd[i] = Decision(EnableOf(dbCol)[i], status[i])

(* The committed columns are those of module IntfForwarding, about the     *)
(* rows and states intfd has read: what arrives while a transaction is on  *)
(* its way takes no part in it.  enable is what IntfReconfig computes.     *)
Abs == INSTANCE IntfForwarding WITH
         rows <- IF pc = "commit" THEN seen.rows ELSE rows,
         status <- IF pc = "commit" THEN seen.status ELSE status,
         enable <- EnableOf(dbCol), fwd <- dbFwd
DaemonRefinesForwarding == Abs!Spec

(* What other daemons rely on in the end: an interface that is shut down   *)
(* comes to be shown as not enabled and not forwarding, across restarts of *)
(* intfd and while other rows come and go, if no transaction is lost.      *)
ShutdownStopsForwarding ==
    \A i \in Interface :
        i \in rows \ reborn /\ uc[i].admin # "up" ~>
            \/ ~IsEnabled(dbCol[i]) /\ dbFwd[i].forwarding # "true"
            \/ i \notin rows \ reborn \/ uc[i].admin = "up" \/ failures > 0

(* The same when a protocol goes on blocking an interface, although a      *)
(* change of bond_status alone gives handle_interfaces_config_mods nothing *)
(* to write: the arbiter's own result has to bring about the commit.       *)
BlockStopsForwarding ==
    \A i \in Interface, p \in Proto :
        i \in rows /\ lacp_state(status[i][p]) ~>
            \/ dbFwd[i].forwarding = "false"
            \/ i \notin rows \/ ~lacp_state(status[i][p]) \/ failures > 0

(* And an interface that may run comes to forward: its row, its port and   *)
(* its protocols allow it, and stay that way.                              *)
MayForward(i) ==
    /\ i \in rows \ reborn
    /\ get_matching_port_row(i) # {} /\ get_matching_port_row(i) \cap unheard = {}
    /\ RestartColumns(i).hw_intf_config.enable = "true"
    /\ \A p \in Proto : ~lacp_state(status[i][p])
ReadyInterfaceForwards ==
    \A i \in Interface :
        MayForward(i) ~> dbFwd[i].forwarding = "true" \/ ~MayForward(i) \/ failures > 0
=============================================================================
