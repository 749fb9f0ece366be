------------------------------ MODULE IntfShow ------------------------------
(***************************************************************************)
(* The show commands of interfaces (src/src/cli/intf_vty.c, lines 1245 on, *)
(* with src/src/cli/qos_intf.c): each is a function of the database, which *)
(* the CLI session of IntfCli and other commands change.  The rows are     *)
(* those of IntfCli, all of type "system".  A view is what it says, not    *)
(* how it is laid out: a line of configuration is a command of IntfCli, a  *)
(* table is a record.                                                      *)
(***************************************************************************)
EXTENDS IntfCli, FiniteSetsExt

CONSTANTS
    LinkSpeed,    \* column link_speed, 0 if it is empty
    StatKeys, Statistics,  \* statistics[i]: the keys present, and their values
    QueueBytes,   \* column queue_tx_bytes: a queue, or NoQueue if the column is empty
    ModuleOf,     \* connector of the module in an interface, supported
    QosConfigs, QosPorts, SystemQos,  \* what users enter, where; the System row's
    L3Values      \* what users configure of layer 3, for each port

NoQueue == -1

ASSUME ShowAssumption ==
    /\ LinkSpeed \in [Interface -> Nat] /\ QueueBytes \in [Interface -> Nat \cup {NoQueue}]
    /\ \A i \in Interface : \E keys \in SUBSET StatKeys : Statistics[i] \in [keys -> Nat]
    /\ QosPorts \subseteq PortName
    /\ \A p \in PortName : L3Values[p] \subseteq {"bridged", "routed", "address"}

VARIABLES
    qos,    \* qos[p][k]: qos_config and qos of a port, "absent" if not set
    l3      \* of a port: "none" (no row), "bridged", "routed" or "address"

showVars == <<vars, qos, l3>>

QosKeys == {"trust", "schedule", "cos", "dscp"}
NoQos == [k \in QosKeys |-> "absent"]
All == NoInterface   \* no IFNAME given

ShowInit ==
    /\ Init
    /\ qos = [p \in PortName |-> NoQos]
    /\ l3 = [p \in PortName |-> IF p \in Lag THEN "routed" ELSE "none"]

(* A step of the session: a deleted row goes with all its columns, and a   *)
(* new port is a routed one (default_port_add, external).                  *)
Session ==
    /\ Next
    /\ qos' = [p \in PortName |-> IF p \in ports' THEN qos[p] ELSE NoQos]
    /\ l3' = [p \in PortName |-> CASE p \notin ports' -> "none"
                                   [] p \in ports' \ ports -> "routed"
                                   [] OTHER -> l3[p]]

(* The commands of QoS and of layer 3 (external).                          *)
QosWrite ==
    /\ \E p \in ports \cap QosPorts : \E q \in QosConfigs \ {qos[p]} : qos' = [qos EXCEPT ![p] = q]
    /\ UNCHANGED <<vars, l3>>

L3Write ==
    /\ \E p \in ports : \E v \in L3Values[p] \ {l3[p]} : l3' = [l3 EXCEPT ![p] = v]
    /\ UNCHANGED <<vars, qos>>

ShowNext == Session \/ QosWrite \/ L3Write
ShowSpec == ShowInit /\ [][ShowNext]_showVars

-----------------------------------------------------------------------------
(* QoS.                                                                    *)

get_owning_lag(n) == PortOf(n) \ {n}
is_member_of_lag(n) == get_owning_lag(n) # {}

qos_port_show_running_config(p) ==
    IF p \notin ports \/ is_member_of_lag(p) THEN <<>>
    ELSE FlattenSeq([k \in 1..4 |->
            LET key == <<"trust", "schedule", "cos", "dscp">>[k]
            IN When(qos[p][key] # "absent", <<Cmd(key, qos[p][key], FALSE)>>)])

(* What a port does not set is the System row's trust mode and schedule    *)
(* profile; the CoS and DSCP overrides have no default.                    *)
Inherited(k) == IF k \in {"trust", "schedule"} THEN SystemQos[k] ELSE "absent"

(* Mutant of qos_port_show: a member shows the values of its own port.     *)
QosShowOwnPort(n) ==
    [k \in QosKeys |-> IF n \in ports /\ qos[n][k] # "absent" THEN qos[n][k] ELSE Inherited(k)]

(* A member shows the values of its LAG.                                   *)
qos_port_show(n) ==
    LET port_to_show == IF is_member_of_lag(n) THEN get_owning_lag(n) ELSE {n} \cap ports
        set(k) == {qos[p][k] : p \in port_to_show} \ {"absent"}
    IN [k \in QosKeys |-> IF set(k) = {} THEN Inherited(k) ELSE CHOOSE v \in set(k) : TRUE]

-----------------------------------------------------------------------------
(* "show running-config interface [IFNAME]".                               *)

BeforePause(i) ==
    LET u == uc[i]
    IN When(u.admin = "up", <<Cmd("shutdown", "", TRUE)>>)
       \o When(u.speeds # <<>>, <<CmdN("speed", u.speeds[1], FALSE)>>)
       \o When(u.mtu \notin {NoMtu, INTFD_DEFAULT_MTU}, <<CmdN("mtu", u.mtu, FALSE)>>)
       \o When(u.duplex = "half", <<Cmd("duplex", "half", FALSE)>>)
       \o qos_port_show_running_config(i)

PauseLines(i) ==
    When(uc[i].pause \in {"rx", "rxtx"}, <<ReceiveOn>>)
    \o When(uc[i].pause \in {"tx", "rxtx"}, <<SendOn>>)

parse_l3config(i) ==
    When(i \in ports /\ l3[i] = "bridged", <<Cmd("routing", "", TRUE)>>)
    \o When(i \in ports /\ l3[i] = "address", <<Cmd("ip address", i, FALSE)>>)

print_interface_lag(i) ==
    LET lags == SetToSeq({l \in ports \cap Lag : l \in PortOf(i)})
    IN [k \in DOMAIN lags |-> Cmd("lag", lags[k], FALSE)]

AfterPause(i) ==
    When(uc[i].autoneg = "off", <<Cmd("autonegotiation", "off", FALSE)>>)
    \o When(uc[i].lane_split = "split", <<Cmd("split", "", FALSE)>>)
    \o parse_l3config(i) \o print_interface_lag(i)

Header(i) == <<Cmd("interface", i, FALSE)>>
Exit == <<Cmd("exit", "", FALSE)>>

(* The name of the port begins with the argument, which begins with "lag". *)
(* The address of a LAG is printed whether it is selected or not.          *)
LagLines(l, filter) ==
    When(filter \in {All, l} \/ <<filter, l>> \in PrefixOf,
         <<Cmd("interface lag", l, FALSE)>>
         \o When(padmin[l] = "up", <<Cmd("shutdown", "", TRUE)>>)
         \o When(l3[l] = "bridged", <<Cmd("routing", "", TRUE)>>)
         \o qos_port_show_running_config(l))
    \o When(l3[l] = "address", <<Cmd("ip address", l, FALSE)>>)

parse_lag(filter) ==
    LET lags == SetToSeq(ports \cap Lag)
    IN IF filter \in Interface THEN <<>>
       ELSE FlattenSeq([k \in DOMAIN lags |-> LagLines(lags[k], filter)])

(* Mutant of ShowRunStep: the section does not end.                        *)
ShowRunStepNoExit(filter, r, i) ==
    LET lines == BeforePause(i) \o PauseLines(i) \o AfterPause(i)
    IN IF r.done \/ filter \notin {All, i} \/ (lines = <<>> /\ i \notin ports) THEN r
       ELSE [out |-> r.out \o Header(i) \o lines, done |-> filter # All]

(* Mutant of ShowRunStep: the loop is left without a filter, too.          *)
ShowRunStepBreaks(filter, r, i) ==
    LET lines == BeforePause(i) \o PauseLines(i) \o AfterPause(i)
    IN IF r.done \/ filter \notin {All, i} \/ (lines = <<>> /\ i \notin ports) THEN r
       ELSE IF PauseLines(i) # <<>>
       THEN [out |-> r.out \o Header(i) \o BeforePause(i) \o PauseLines(i), done |-> TRUE]
       ELSE [out |-> r.out \o Header(i) \o lines \o Exit, done |-> filter # All]

(* One row of the loop.  With a filter the loop is left after flow control *)
(* (line 1838), and otherwise after the section.                           *)
ShowRunStep(filter, r, i) ==
    LET lines == BeforePause(i) \o PauseLines(i) \o AfterPause(i)
    IN IF r.done \/ filter \notin {All, i} \/ (lines = <<>> /\ i \notin ports) THEN r
       ELSE IF filter # All /\ PauseLines(i) # <<>>
       THEN [out |-> r.out \o Header(i) \o BeforePause(i) \o PauseLines(i), done |-> TRUE]
       ELSE [out |-> r.out \o Header(i) \o lines \o Exit, done |-> filter # All]

cli_show_run_interface_exec(filter) ==
    FoldLeft(LAMBDA r, i : ShowRunStep(filter, r, i), [out |-> <<>>, done |-> FALSE],
             sort_interface).out
    \o parse_lag(filter)

-----------------------------------------------------------------------------
(* "show interface [IFNAME] [brief]": the rows shown, the LAGs after them, *)
(* and whether there is only a message about the split.                    *)

NamedLags(filter) == SetToSeq({l \in ports \cap Lag : filter \in {All, l}})

Added(s, value(_)) == FoldLeft(LAMBDA sum, i : sum + value(i), 0, s)
Statistic(i, k) == IF k \in DOMAIN Statistics[i] THEN Statistics[i][k] ELSE 0

show_lacp_interfaces_brief(filter) ==
    LET lags == NamedLags(filter)
    IN [k \in DOMAIN lags |->
           [name |-> lags[k], speed |-> Added(members[lags[k]], LAMBDA i : LinkSpeed[i])]]

(* lag_statistics is not cleared between two LAGs.                         *)
show_lacp_interfaces(filter) ==
    FoldLeft(LAMBDA out, l :
               Append(out,
                  [name |-> l, speed |-> Added(members[l], LAMBDA i : LinkSpeed[i]),
                   stats |-> [k \in StatKeys |->
                      (IF out = <<>> THEN 0 ELSE Last(out).stats[k])
                      + Added(members[l], LAMBDA i : Statistic(i, k))]]),
             <<>>, NamedLags(filter))

(* A member without the column takes no part in the sum.                   *)
show_lacp_queue_stats(filter) ==
    LET lags == NamedLags(filter)
        queue(i) == IF QueueBytes[i] = NoQueue THEN 0 ELSE QueueBytes[i]
    IN [k \in DOMAIN lags |-> [name |-> lags[k], bytes |-> Added(members[lags[k]], queue)]]

(* Mutant of Skipped: a lane is asked for its own lane_split.              *)
SkippedByOwnColumn(i) == (ParentOf[i] = NoInterface) = is_parent_interface_split(uc[i])

(* A split parent, and a lane whose parent is not split.                   *)
Skipped(i) ==
    IF ParentOf[i] = NoInterface THEN is_parent_interface_split(uc[i])
                                 ELSE ~is_parent_interface_split(uc[ParentOf[i]])

RowsShown(filter) == {i \in Interface : ~Skipped(i) /\ filter \in {All, i}}

(* Mutant of cli_show_interface_exec: LAGs follow the rows of every table. *)
ShowInterfaceAlwaysLags(filter, brief) ==
    [message |-> filter \in Interface /\ Skipped(filter),
     rows |-> OnlyIn(sort_interface, RowsShown(filter)),
     lags |-> IF brief THEN show_lacp_interfaces_brief(filter) ELSE show_lacp_interfaces(filter)]

cli_show_interface_exec(filter, brief) ==
    LET message == filter \in Interface /\ Skipped(filter)
        rows == OnlyIn(sort_interface, RowsShown(filter))
    IN [message |-> message, rows |-> rows,
        lags |-> IF message THEN <<>>
                 ELSE IF brief THEN show_lacp_interfaces_brief(filter)
                 ELSE IF rows = <<>> THEN show_lacp_interfaces(filter) ELSE <<>>]

(* What a row says; the table of the queues has an admin state of its own. *)
show_interface_status(i) == IF uc[i].admin \in {"absent", "down"} THEN "down" ELSE "up"
QueueAdmin(i) == IF uc[i].admin = "down" THEN "down" ELSE "up"

(* Mutant of ShownConfig: the two directions of flow control are swapped.  *)
ShownConfigSwapped(i) ==
    [mtu |-> IF uc[i].mtu = NoMtu THEN INTFD_DEFAULT_MTU ELSE uc[i].mtu,
     duplex |-> IF uc[i].duplex \in {"absent", "full"} THEN "full" ELSE "half",
     autoneg |-> IF uc[i].autoneg = "off" THEN "off" ELSE "on",
     input |-> uc[i].pause \in {"tx", "rxtx"}, output |-> uc[i].pause \in {"rx", "rxtx"}]

ShownConfig(i) ==
    [mtu |-> IF uc[i].mtu = NoMtu THEN INTFD_DEFAULT_MTU ELSE uc[i].mtu,
     duplex |-> IF uc[i].duplex \in {"absent", "full"} THEN "full" ELSE "half",
     autoneg |-> IF uc[i].autoneg = "off" THEN "off" ELSE "on",
     input |-> uc[i].pause \in {"rx", "rxtx"}, output |-> uc[i].pause \in {"tx", "rxtx"}]

-----------------------------------------------------------------------------
(* "show ip interface [IFNAME]": the interfaces and LAGs shown with an      *)
(* address.                                                                *)

check_iface_in_vrf(n) == n \in ports /\ l3[n] \in {"routed", "address"}

cli_show_ip_lag(filter) ==
    {l \in ports \cap Lag : filter = l /\ check_iface_in_vrf(l) /\ l3[l] = "address"}

(* A named row that is not of layer 3 gets a message and ends the command, *)
(* one without an address goes on to the LAGs.                             *)
cli_show_ip_interface_exec(filter) ==
    LET r == FoldLeft(LAMBDA acc, i :
                 IF acc.done \/ filter \notin {All, i} THEN acc
                 ELSE IF ~check_iface_in_vrf(i) THEN [acc EXCEPT !.done = filter # All]
                 ELSE IF l3[i] # "address" THEN acc
                 ELSE [rows |-> acc.rows \cup {i}, done |-> filter # All],
               [rows |-> {}, done |-> FALSE], sort_interface)
    IN r.rows \cup IF r.done THEN {} ELSE cli_show_ip_lag(filter)

-----------------------------------------------------------------------------
(* Properties.                                                             *)

(* Entering the output: what is not about an interface's user_config does  *)
(* not change one; "exit" and "interface lag" leave the interface.         *)
EnterShown(r, c) ==
    CASE c.name \in {"exit", "interface lag"} -> [r EXCEPT !.sel = NoInterface]
      [] c.name \in {"routing", "ip address", "lag"} \cup QosKeys -> r
      [] OTHER -> Enter(r, c)

(* The output of "show running-config interface", entered on a switch      *)
(* without configuration, makes intfd read for every interface that is in  *)
(* use what it reads now, and nothing for the lanes of an interface that   *)
(* is not split, although their commands are printed: "interface" refuses  *)
(* them, and "exit" keeps the commands from reaching the interface before. *)
ShowRunRestores ==
    LET restored == FoldLeft(EnterShown,
            [sel |-> NoInterface, uc |-> [i \in Interface |-> NoUserConfig]],
            cli_show_run_interface_exec(All)).uc
        wanted(i) == IF MaySelect(i, uc) THEN uc[i] ELSE NoUserConfig
    IN \A i \in Interface :
          intfd_parse_user_cfg(restored[i], HwOf[i], MaxMtu)
            = intfd_parse_user_cfg([wanted(i) EXCEPT !.autoneg = IF @ = "on" THEN "absent" ELSE @],
                                   HwOf[i], MaxMtu)

(* The section of n in the output out: from its header up to the next one. *)
HeaderNames == {"interface", "interface lag"}
Section(out, n) ==
    LET starts == {k \in DOMAIN out : out[k].name \in HeaderNames /\ out[k].arg = n}
    IN IF starts = {} THEN <<>>
       ELSE LET first == Max(starts)
                after == {k \in DOMAIN out : k > first /\ out[k].name \in HeaderNames}
            IN SubSeq(out, first, IF after = {} THEN Len(out) ELSE Min(after) - 1)

(* With a name, the command shows that interface's or LAG's section of the *)
(* whole output, except that an interface with flow control is cut off     *)
(* after it: autonegotiation, split, addresses and the LAG are then not    *)
(* shown.  A LAG may be followed by others.                                *)
FilteredIsSection ==
    LET whole == cli_show_run_interface_exec(All)
    IN /\ \A i \in Interface :
             LET shown == cli_show_run_interface_exec(i)
             IN IF PauseLines(i) = <<>> THEN shown = Section(whole, i)
                ELSE IsPrefix(shown, Section(whole, i)) /\ Last(shown) \in {ReceiveOn, SendOn}
       /\ \A l \in Lag :
             LET lines(out) == Range(Section(out, l))
             IN lines(whole) \ Range([p \in Lag \ {l} |-> Cmd("ip address", p, FALSE)])
                  \subseteq lines(cli_show_run_interface_exec(l))

(* What intfd makes of a row, with its module in place and its port up.    *)
Iface(i) ==
    [type |-> "system", hw_info |-> intfd_parse_hw_info(HwOf[i]),
     user_cfg |-> intfd_parse_user_cfg(uc[i], HwOf[i], MaxMtu),
     pm_info |-> PmInfo(ModuleOf[i], "supported"), port_admin |-> "up", op_state |-> NoOpState]
Family(i) ==
    [has_children |-> Children(i) # {}, has_parent |-> ParentOf[i] # NoInterface,
     parent_split |-> IF ParentOf[i] # NoInterface /\ is_parent_interface_split(uc[ParentOf[i]])
                      THEN "split" ELSE "no-split"]
Applied(i) == set_interface_config(Iface(i), Family(i)).out

(* "show interface" leaves out exactly the interfaces that intfd disables  *)
(* because of the split, with and without a name, and the LAGs it shows    *)
(* instead are the named ones.                                             *)
HiddenIsUnusable ==
    \A i \in Interface, brief \in BOOLEAN :
        LET unusable == Applied(i).error \in {"lanes_split", "lanes_not_split"}
        IN /\ Contains(cli_show_interface_exec(All, brief).rows, i) <=> ~unusable
           /\ cli_show_interface_exec(i, brief)
                = [message |-> unusable, rows |-> IF unusable THEN <<>> ELSE <<i>>, lags |-> <<>>]

(* What "show interface" says of an interface that intfd enables is what   *)
(* intfd applies: mtu, duplex, flow control; autonegotiation may be shown  *)
(* as on where the module has none.  It shows as up exactly the ones whose *)
(* admin state intfd takes for up; the table of queues also shows one that *)
(* was never configured.                                                   *)
ShownIsApplied ==
    \A i \in Interface :
        LET hw == Applied(i).hw_intf_config
            shown == ShownConfig(i)
        IN /\ hw.enable = "true" =>
                /\ shown.mtu = hw.mtu /\ shown.duplex = hw.duplex
                /\ shown.input <=> hw.pause \in {"rx", "rxtx"}
                /\ shown.output <=> hw.pause \in {"tx", "rxtx"}
                /\ shown.autoneg = "off" => hw.autoneg = "off"
           /\ show_interface_status(i) = Iface(i).user_cfg.admin_state
           /\ QueueAdmin(i) # show_interface_status(i) => uc[i].admin = "absent"

(* Every LAG shown, by any table, named or not, shows the totals of its    *)
(* own members and of no other LAG's, although the array of the statistics *)
(* is not cleared: only a named LAG reaches that loop.                     *)
LagTotals ==
    \A filter \in Lag \cup Interface \cup {All} :
        LET total(l, value(_)) == SumFunction([i \in Range(members[l]) |-> value(i)])
            tables(brief) == Range(cli_show_interface_exec(filter, brief).lags)
        IN /\ \A t \in tables(FALSE) \cup tables(TRUE) :
                 t.speed = total(t.name, LAMBDA i : LinkSpeed[i])
           /\ \A t \in tables(FALSE), k \in StatKeys :
                 t.stats[k] = total(t.name, LAMBDA i : Statistic(i, k))
           /\ \A t \in Range(show_lacp_queue_stats(filter)) :
                 t.bytes = SumFunction([i \in {j \in Range(members[t.name]) :
                                                  QueueBytes[j] # NoQueue} |-> QueueBytes[i]])
           /\ filter \in Lag => {t.name : t \in tables(FALSE)} = {filter}

(* The QoS values "show interface" gives for an interface are those that   *)
(* the running configuration sets, in its own section or in that of its    *)
(* LAG, or else the System row's, but no CoS or DSCP override of that row.  *)
QosShownIsPrinted ==
    LET whole == cli_show_run_interface_exec(All)
        section == [p \in PortName |-> Range(Section(whole, p))]
        owners == [i \in Interface |-> {i} \cup {l \in Lag : Cmd("lag", l, FALSE) \in section[i]}]
        values(i, k) == {c.arg : c \in {d \in UNION {section[p] : p \in owners[i]} : d.name = k}}
    IN \A i \in Interface, k \in QosKeys :
          {qos_port_show(i)[k]} = IF values(i, k) = {} THEN {Inherited(k)} ELSE values(i, k)

(* "show ip interface" shows an address for exactly the interfaces whose   *)
(* section of the running configuration sets one, with or without a name,  *)
(* and for a LAG when it is named.                                         *)
AddressesShownArePrinted ==
    LET whole == cli_show_run_interface_exec(All)
        printed(p) == Contains(Section(whole, p), Cmd("ip address", p, FALSE))
    IN /\ cli_show_ip_interface_exec(All) = {i \in Interface : printed(i)}
       /\ \A p \in PortName : cli_show_ip_interface_exec(p) = {q \in {p} : printed(q)}

(* What a view shows of a port can be read off the running configuration:  *)
(* the QoS values, although a member takes them from its LAG, and the      *)
(* addresses, although a LAG's are looked up apart.                        *)
ViewsAgreeWithRunningConfig ==
    /\ QosShownIsPrinted
    /\ AddressesShownArePrinted
=============================================================================
