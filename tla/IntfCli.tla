------------------------------ MODULE IntfCli -------------------------------
(***************************************************************************)
(* The CLI of interfaces (src/src/cli/intf_vty.c): one vtysh session in    *)
(* which a user selects interfaces and configures them, each command one   *)
(* transaction on Interface and Port rows; and "show running-config"       *)
(* (src/src/cli/vtysh_ovsdb_intf_context.c), whose output a user feeds     *)
(* back to restore a configuration.  intfd writes the error column some    *)
(* time later.                                                             *)
(***************************************************************************)
EXTENDS IntfOpState, SequencesExt

CONSTANTS
    Interface, NoInterface,
    NameOf,       \* how a name reads: see compare below
    PrefixOf,     \* pairs <<m, n>> of port names: m # n and m is a prefix of n
    HwOf,         \* column hw_intf_info
    ParentOf,     \* column split_parent, or NoInterface; its inverse is split_children
    Splittable,   \* hw_intf_info:split_4 is true
    Lag, LagMembers,  \* the LAGs, and the interfaces users put into each
    CommandsFor,  \* what users enter for an interface
    MaxMtu,       \* MTU of the base subsystem
    MaxOthers     \* commands of another session while a prompt is open (a bound)

(* The command line parser hands over what the grammar of a command allows. *)
Grammar(c) ==
    /\ c \in [name : {"shutdown", "speed", "mtu", "duplex", "flowcontrol", "autonegotiation"},
              arg : STRING, number : Int, no : BOOLEAN]
    /\ c.name = "flowcontrol" => c.arg \in {"send", "receive"}
    /\ c.name = "autonegotiation" => c.no \/ c.arg \in {"on", "off"}

(* How a name reads, and that the lanes of an interface come after it.     *)
NameForm ==
    [kind : {"bridge_normal"}] \cup [kind : {"number"}, id : Nat, ext : Nat, sub : Nat]
    \cup [kind : {"named"}, rank : Nat, tag : Nat]

LanesFollow(i) ==
    LET a == NameOf[ParentOf[i]]
        b == NameOf[i]
    IN a.kind = "number" /\ b.kind = "number" /\ a.id = b.id /\ a.ext < b.ext

ASSUME CliAssumption ==
    /\ IsFiniteSet(Interface) /\ IsFiniteSet(Lag)
    /\ NoInterface \notin Interface \cup Lag /\ Lag \cap Interface = {}
    /\ NameOf \in [Interface -> NameForm] /\ IsInjective(NameOf)
    /\ \A i \in Interface :
          /\ \A c \in CommandsFor[i] : Grammar(c)
          /\ ParentOf[i] # NoInterface =>
                ParentOf[i] \in Interface /\ ParentOf[ParentOf[i]] = NoInterface /\ LanesFollow(i)
    /\ PrefixOf \subseteq (Interface \cup Lag) \X (Interface \cup Lag)
    /\ LagMembers \in [Lag -> SUBSET Interface]
    /\ MaxOthers \in Nat
    /\ Splittable = {i \in Interface : \E c \in Interface : ParentOf[c] = i}

VARIABLES
    uc,              \* user_config
    error,           \* error is "lanes_split"
    ports, members,  \* Port rows and their interfaces, in the order of the set
    padmin,          \* column admin of a port
    sel,             \* vty->index in INTERFACE_NODE, NoInterface outside of it
    prompt,          \* the transaction that waits for an answer, or NoPrompt
    flow,            \* history: the directions of flow control the user left on
    undone           \* history: interfaces whose last shutdown command was overwritten

vars == <<uc, error, ports, members, padmin, sel, prompt, flow, undone>>

PortName == Interface \cup Lag
Children(i) == {c \in Interface : ParentOf[c] = i}
PortOf(i) == {p \in ports : \E k \in DOMAIN members[p] : members[p][k] = i}

NoUserConfig ==
    [admin |-> "absent", autoneg |-> "absent", pause |-> "absent", duplex |-> "absent",
     mtu |-> NoMtu, speeds |-> <<>>, lane_split |-> "absent"]

is_parent_interface_split(u) == u.lane_split = "split"

-----------------------------------------------------------------------------
(* The commands, as what they make of the user_config u of the interface.  *)
(* A command c has a name, an argument (a word or a number; the other one  *)
(* is "" or 0) and "no" (its no form).                                     *)

cli_intf_shutdown(c, u) == [u EXCEPT !.admin = IF c.no THEN "up" ELSE "down"]

(* A speed the hardware does not list is refused; "auto" is the default.   *)
cli_intf_speed(c, u, hw) ==
    IF c.no \/ c.arg = "auto" THEN [u EXCEPT !.speeds = <<>>]
    ELSE IF \E k \in DOMAIN hw.speeds : hw.speeds[k] = c.number
         THEN [u EXCEPT !.speeds = <<c.number>>] ELSE u

(* The range is fixed, whatever the subsystem supports; the default is not *)
(* stored.                                                                 *)
MtuRange == 576..9192

(* An int holds each of them, so that intfd reads what the CLI wrote.      *)
ASSUME MtuAssumption == \A m \in MtuRange : m < IntSpan

MtuOf(c, old) ==
    IF c.no \/ c.number = INTFD_DEFAULT_MTU THEN NoMtu
    ELSE IF c.number \in MtuRange THEN c.number ELSE old

cli_intf_mtu(c, u) == [u EXCEPT !.mtu = MtuOf(c, @)]

cli_intf_duplex(c, u) ==
    [u EXCEPT !.duplex = IF c.no \/ c.arg = "full" THEN "absent" ELSE "half"]

(* Mutant of cli_intf_flowcontrol: turning one direction off clears both.  *)
FlowcontrolOffClears(c, u) ==
    LET mine == IF c.arg = "send" THEN "tx" ELSE "rx"
    IN IF ~c.no THEN [u EXCEPT !.pause = IF @ \in {"absent", mine} THEN mine ELSE "rxtx"]
                ELSE [u EXCEPT !.pause = "absent"]

(* "flowcontrol send|receive on", or off (the no form): the code looks     *)
(* only for "nothing" and "this direction"; all else counts as both.  What *)
(* argv[1] is in the no form is vtysh's doing (external): not "on", as the *)
(* comments at lines 795 and 829 say.                                      *)
cli_intf_flowcontrol(c, u) ==
    LET mine == IF c.arg = "send" THEN "tx" ELSE "rx"
        other == IF c.arg = "send" THEN "rx" ELSE "tx"
    IN IF ~c.no THEN [u EXCEPT !.pause = IF @ \in {"absent", mine} THEN mine ELSE "rxtx"]
                ELSE [u EXCEPT !.pause = IF @ \in {"absent", mine} THEN "absent" ELSE other]

cli_intf_autoneg(c, u) == [u EXCEPT !.autoneg = IF c.no THEN "absent" ELSE c.arg]

(* Only "shutdown" is allowed on an interface that is split.               *)
RowAfter(c, u, hw) ==
    IF c.name = "shutdown" THEN cli_intf_shutdown(c, u)
    ELSE IF is_parent_interface_split(u) THEN u
    ELSE CASE c.name = "speed" -> cli_intf_speed(c, u, hw)
           [] c.name = "mtu" -> cli_intf_mtu(c, u)
           [] c.name = "duplex" -> cli_intf_duplex(c, u)
           [] c.name = "flowcontrol" -> cli_intf_flowcontrol(c, u)
           [] c.name = "autonegotiation" -> cli_intf_autoneg(c, u)

SplitRow(no, u) == [u EXCEPT !.lane_split = IF no THEN "absent" ELSE "split"]

(* "interface IFNAME" refuses a lane whose parent is not split.            *)
MaySelect(i, ucs) == ParentOf[i] # NoInterface => is_parent_interface_split(ucs[ParentOf[i]])

-----------------------------------------------------------------------------
(* Order of names: numbers (id, lane ext, sub-interface sub; 0 where there *)
(* is none) before names with a type (rank, its place in the order of      *)
(* strings) and a tag, and bridge_normal before all.                       *)

Sign(x, y) == IF x < y THEN -1 ELSE IF x = y THEN 0 ELSE 1

(* Mutant of compare_both_intf_numbers: lanes in descending order.         *)
CompareNumbersDescending(a, b) ==
    IF a.id # b.id THEN Sign(a.id, b.id)
    ELSE IF a.ext # b.ext THEN Sign(b.ext, a.ext) ELSE Sign(a.sub, b.sub)

compare_both_intf_numbers(a, b) ==
    IF a.id # b.id THEN Sign(a.id, b.id)
    ELSE IF a.ext # b.ext THEN Sign(a.ext, b.ext) ELSE Sign(a.sub, b.sub)

compare_both_proper_intf_names(a, b) ==
    IF a.rank # b.rank THEN Sign(a.rank, b.rank) ELSE Sign(a.tag, b.tag)

compare_nodes_by_interface_name_and_tag(a, b) ==
    CASE a.kind = "bridge_normal" -> -1
      [] a.kind # "bridge_normal" /\ b.kind = "bridge_normal" -> 1
      [] a.kind = "number" /\ b.kind = "number" -> compare_both_intf_numbers(a, b)
      [] a.kind = "number" /\ b.kind = "named" -> -1
      [] a.kind = "named" /\ b.kind = "number" -> 1
      [] a.kind = "named" /\ b.kind = "named" -> compare_both_proper_intf_names(a, b)

sort_interface ==
    CHOOSE s \in [1..Cardinality(Interface) -> Interface] :
        /\ IsInjective(s)
        /\ \A j, k \in DOMAIN s : j < k =>
              compare_nodes_by_interface_name_and_tag(NameOf[s[j]], NameOf[s[k]]) < 0

-----------------------------------------------------------------------------
(* "show running-config": the commands printed for interface i.            *)

Cmd(name, arg, no) == [name |-> name, arg |-> arg, number |-> 0, no |-> no]
CmdN(name, number, no) == [name |-> name, arg |-> "", number |-> number, no |-> no]
When(condition, commands) == IF condition THEN commands ELSE <<>>

ReceiveOn == Cmd("flowcontrol", "receive", FALSE)
SendOn == Cmd("flowcontrol", "send", FALSE)

ConfigLines(u) ==
    When(u.admin = "up", <<Cmd("shutdown", "", TRUE)>>)
    \o When(u.lane_split = "split", <<Cmd("split", "", FALSE)>>)
    \o When(u.speeds # <<>>, <<CmdN("speed", u.speeds[1], FALSE)>>)
    \o When(u.mtu \notin {NoMtu, INTFD_DEFAULT_MTU}, <<CmdN("mtu", u.mtu, FALSE)>>)
    \o When(u.duplex = "half", <<Cmd("duplex", "half", FALSE)>>)
    \o When(u.pause \in {"rx", "rxtx"}, <<ReceiveOn>>)
    \o When(u.pause \in {"tx", "rxtx"}, <<SendOn>>)
    \o When(u.autoneg = "off", <<Cmd("autonegotiation", "off", FALSE)>>)

vtysh_intf_context_clientcallback(i) ==
    IF ~MaySelect(i, uc) \/ ConfigLines(uc[i]) = <<>> THEN <<>>
    ELSE <<Cmd("interface", i, FALSE)>> \o ConfigLines(uc[i])

RunningConfig ==
    FlattenSeq([k \in DOMAIN sort_interface |->
                   vtysh_intf_context_clientcallback(sort_interface[k])])

(* The same commands entered on a switch without configuration; r is the   *)
(* selected interface and every user_config.  The prompt is answered "y".  *)
Enter(r, c) ==
    IF c.name = "interface"
    THEN IF MaySelect(c.arg, r.uc) THEN [r EXCEPT !.sel = c.arg] ELSE r
    ELSE IF r.sel = NoInterface THEN r
    ELSE IF c.name = "split"
    THEN IF r.sel \in Splittable THEN [r EXCEPT !.uc[r.sel] = SplitRow(c.no, @)] ELSE r
    ELSE [r EXCEPT !.uc[r.sel] = RowAfter(c, @, HwOf[r.sel])]

Restored ==
    FoldLeft(Enter, [sel |-> NoInterface, uc |-> [i \in Interface |-> NoUserConfig]],
             RunningConfig).uc

-----------------------------------------------------------------------------
(* The state machine.  A LAG without members exists; an abandoned or failed *)
(* transaction leaves everything as it was.                                *)

NoPrompt == [open |-> FALSE]

Init ==
    /\ uc = [i \in Interface |-> NoUserConfig]
    /\ error = [i \in Interface |-> FALSE]
    /\ ports = Lag
    /\ members = [p \in PortName |-> <<>>]
    /\ padmin = [p \in PortName |-> "absent"]
    /\ sel = NoInterface /\ prompt = NoPrompt
    /\ flow = [i \in Interface |-> {}] /\ undone = {}

(* default_port_add (external): an interface that is in no port gets one   *)
(* of its name.                                                            *)
default_port_add(i) ==
    IF PortOf(i) = {} /\ i \notin ports
    THEN /\ ports' = ports \cup {i}
         /\ members' = [members EXCEPT ![i] = <<i>>]
         /\ \E a \in {"absent", uc[i].admin} : padmin' = [padmin EXCEPT ![i] = a]
    ELSE UNCHANGED <<ports, members, padmin>>

(* "interface IFNAME": the default port is added unless error says that    *)
(* the interface is split.                                                 *)
vtysh_interface(i) ==
    /\ ~prompt.open /\ MaySelect(i, uc)
    /\ sel' = i
    /\ IF error[i] THEN UNCHANGED <<ports, members, padmin>> ELSE default_port_add(i)
    /\ UNCHANGED <<uc, error, prompt, flow, undone>>

(* "no interface IFNAME" of a physical interface changes the node only.    *)
no_vtysh_interface ==
    /\ ~prompt.open
    /\ sel' = NoInterface
    /\ UNCHANGED <<uc, error, ports, members, padmin, prompt, flow, undone>>

(* Mutant of ShutdownPort: "shutdown" leaves the port up.                  *)
ShutdownKeepsPortUp(i, no) ==
    IF i \in ports /\ no THEN [padmin EXCEPT ![i] = "up"] ELSE padmin

(* shutdown sets the port of that name as well.                            *)
ShutdownPort(i, no) ==
    IF i \in ports THEN [padmin EXCEPT ![i] = IF no THEN "up" ELSE "down"] ELSE padmin

(* A configuration command, on interface i.                                *)
Apply(i, c) ==
    /\ c \in CommandsFor[i]
    /\ uc' = [uc EXCEPT ![i] = RowAfter(c, @, HwOf[i])]
    /\ padmin' = IF c.name = "shutdown" THEN ShutdownPort(i, c.no) ELSE padmin
    /\ undone' = IF c.name = "shutdown" THEN undone \ {i} ELSE undone
    /\ flow' = IF c.name = "flowcontrol" /\ ~is_parent_interface_split(uc[i])
               THEN [flow EXCEPT ![i] = IF c.no THEN @ \ {c.arg} ELSE @ \cup {c.arg}]
               ELSE flow
    /\ UNCHANGED <<error, ports, members, sel>>

Configure(c) ==
    /\ ~prompt.open /\ sel # NoInterface
    /\ Apply(sel, c)
    /\ UNCHANGED prompt

(* Another session, while this one waits for an answer.                    *)
OtherSession(i, c) ==
    /\ prompt.open /\ prompt.others < MaxOthers
    /\ i \in {sel} \cup Children(sel) /\ MaySelect(i, uc)
    /\ Apply(i, c)
    /\ prompt' = [prompt EXCEPT !.others = @ + 1]

(* remove_port_and_references, for one interface after the other of S: the *)
(* port of that name is deleted.  In the others the loop compares names    *)
(* over the length of the MEMBER's name; a removal moves the next member   *)
(* to the position the loop has just left, so that one is not looked at.   *)
NamesMatch(m, i) == m = i \/ <<m, i>> \in PrefixOf

RemoveMember(r, m, i) ==
    IF NamesMatch(m, i) /\ ~r.moved THEN [left |-> r.left, moved |-> TRUE]
    ELSE [left |-> Append(r.left, m), moved |-> FALSE]

MembersLeft(s, i) ==
    FoldLeft(LAMBDA r, m : RemoveMember(r, m, i), [left |-> <<>>, moved |-> FALSE], s).left

MembersLeftAfter(p, S) ==
    IF p \in S THEN <<>>
    ELSE FoldLeft(LAMBDA s, i : MembersLeft(s, i), members[p], SetToSeq(S))

(* Mutant of remove_port_and_references: the row goes, its admin state does *)
(* not go with it.                                                         *)
RemovePortKeepsAdmin(S) ==
    [ports |-> ports \ S,
     members |-> [p \in PortName |-> MembersLeftAfter(p, S)],
     padmin |-> padmin]

remove_port_and_references(S) ==
    [ports |-> ports \ S,
     members |-> [p \in PortName |-> MembersLeftAfter(p, S)],
     padmin |-> [p \in PortName |-> IF p \in S THEN "absent" ELSE padmin[p]]]

(* Mutant of handle_port_config: the lanes are shut down, their ports stay.*)
LanePortsStay(i, no) == remove_port_and_references(IF no THEN {} ELSE {i})

(* split removes the ports of the parent, no split those of the lanes.     *)
handle_port_config(i, no) == remove_port_and_references(IF no THEN Children(i) ELSE {i})

(* "split" and "no split" open a transaction in which user_config is      *)
(* already replaced, and wait for the answer; on an interface without      *)
(* split capability the transaction is abandoned at once.                  *)
cli_intf_split(no) ==
    /\ ~prompt.open /\ sel \in Splittable
    /\ prompt' = [open |-> TRUE, no |-> no, others |-> 0, uc |-> uc, flow |-> flow]
    /\ UNCHANGED <<uc, error, ports, members, padmin, sel, flow, undone>>

AnswerNo ==
    /\ prompt.open
    /\ prompt' = NoPrompt
    /\ UNCHANGED <<uc, error, ports, members, padmin, sel, flow, undone>>

(* The parent's column is written as it was before the prompt; "no split"  *)
(* then reads the lanes' columns from the replica, which the library       *)
(* (external) may or may not have refreshed since, and shuts them down.    *)
AnswerYes ==
    /\ prompt.open /\ prompt' = NoPrompt
    /\ \E stale \in SUBSET Children(sel) :
         LET old == {sel} \cup IF prompt.no THEN stale ELSE {}
             read == [i \in Interface |-> IF i \in old THEN prompt.uc[i] ELSE uc[i]]
         IN /\ uc' = [i \in Interface |->
                         IF i = sel THEN SplitRow(prompt.no, read[i])
                         ELSE IF prompt.no /\ ParentOf[i] = sel
                         THEN [read[i] EXCEPT !.admin = "down"] ELSE uc[i]]
            /\ flow' = [i \in Interface |-> IF i \in old THEN prompt.flow[i] ELSE flow[i]]
    /\ LET pt == handle_port_config(sel, prompt.no)
       IN ports' = pt.ports /\ members' = pt.members /\ padmin' = pt.padmin
    /\ undone' = IF uc[sel].admin = prompt.uc[sel].admin THEN undone ELSE undone \cup {sel}
    /\ UNCHANGED <<error, sel>>

(* The elements of s that are in S, in their order.                        *)
OnlyIn(s, S) == FoldLeft(LAMBDA r, x : IF x \in S THEN Append(r, x) ELSE r, <<>>, s)

(* "lag ID" (external): the selected interface leaves its port and is put  *)
(* into the LAG; the order of the set is that of the rows' uuids.          *)
JoinLag(l) ==
    /\ ~prompt.open /\ sel \in LagMembers[l] /\ l \notin PortOf(sel)
    /\ ports' = ports \ {sel}
    /\ padmin' = [padmin EXCEPT ![sel] = "absent"]
    /\ \E k \in 1..(Len(members[l]) + 1) :
          members' = [p \in PortName |->
                         IF p = l THEN InsertAt(members[l], k, sel)
                         ELSE OnlyIn(members[p], Interface \ {sel})]
    /\ UNCHANGED <<uc, error, sel, prompt, flow, undone>>

(* intfd (external to the CLI, see IntfOpState) writes the error column.   *)
IntfdCatchesUp ==
    /\ error' = [i \in Interface |-> i \in Splittable /\ is_parent_interface_split(uc[i])]
    /\ UNCHANGED <<uc, ports, members, padmin, sel, prompt, flow, undone>>

Next ==
    \/ \E i \in Interface : vtysh_interface(i)
    \/ no_vtysh_interface
    \/ \E c \in UNION {CommandsFor[i] : i \in Interface} : Configure(c)
    \/ \E no \in BOOLEAN : cli_intf_split(no)
    \/ AnswerYes \/ AnswerNo
    \/ \E i \in Interface : \E c \in CommandsFor[i] : OtherSession(i, c)
    \/ \E l \in Lag : JoinLag(l)
    \/ IntfdCatchesUp

Spec == Init /\ [][Next]_vars

-----------------------------------------------------------------------------
(* The variables keep their types: a speed that is stored is one the       *)
(* hardware lists, a port that does not exist has neither members nor an   *)
(* admin state, and no interface is twice in a port.                       *)
TypeOK ==
    /\ uc = [i \in Interface |-> uc[i]]
    /\ \A i \in Interface : uc[i] \in
          [admin : {"absent", "up", "down"}, autoneg : {"absent", "on", "off"},
           pause : {"absent", "rx", "tx", "rxtx"}, duplex : {"absent", "half"},
           mtu : {NoMtu} \cup (MtuRange \ {INTFD_DEFAULT_MTU}),
           speeds : {<<>>} \cup {<<s>> : s \in Range(HwOf[i].speeds)},
           lane_split : {"absent"} \cup IF i \in Splittable THEN {"split"} ELSE {}]
    /\ error \in [Interface -> BOOLEAN]
    /\ ports \subseteq PortName
    /\ sel \in Interface \cup {NoInterface}
    /\ prompt.open => sel \in Splittable /\ prompt.others \in 0..MaxOthers
    /\ flow \in [Interface -> SUBSET {"send", "receive"}]
    /\ undone \subseteq Splittable
    /\ \A p \in PortName :
          /\ padmin[p] \in {"absent", "up", "down"}
          /\ p \notin ports => members[p] = <<>> /\ padmin[p] = "absent"
          /\ IsInjective(members[p])

(* user_config:pause says exactly which directions the flowcontrol         *)
(* commands have left on, whatever the order in which they were given; an  *)
(* answered prompt takes back what other sessions did since it was asked,  *)
(* on the interface and, with an old replica, on its lanes, and no more.   *)
FlowControlFollowsCommands ==
    \A i \in Interface :
        flow[i] = CASE uc[i].pause = "rxtx" -> {"send", "receive"}
                    [] uc[i].pause = "tx" -> {"send"}
                    [] uc[i].pause = "rx" -> {"receive"}
                    [] uc[i].pause = "absent" -> {}

(* What the printed commands can carry: nothing for a lane that is not in  *)
(* use; of a split interface, which refuses the commands printed after     *)
(* "split", only shutdown; "autonegotiation on" is never printed.          *)
Printable(i) ==
    IF ~MaySelect(i, uc) THEN NoUserConfig
    ELSE IF is_parent_interface_split(uc[i])
    THEN [NoUserConfig EXCEPT !.admin = uc[i].admin, !.lane_split = "split"]
    ELSE [uc[i] EXCEPT !.autoneg = IF @ = "on" THEN "absent" ELSE @]

(* The output of "show running-config" can be entered on a switch without  *)
(* configuration and intfd then reads, for every interface, what it reads  *)
(* now, but for what Printable leaves out: a lane's commands must come     *)
(* after its parent's "split", and the printed flow control commands must  *)
(* rebuild the pause they were printed for.                                *)
RunningConfigRestores ==
    \A i \in Interface : intfd_parse_user_cfg(Restored[i], HwOf[i], MaxMtu)
                           = intfd_parse_user_cfg(Printable(i), HwOf[i], MaxMtu)

(* A lane is in use, in a port or not shut down, only while its parent is  *)
(* split: "interface" refuses it before, and "no split" takes it out of    *)
(* every port, LAGs included, and shuts it down, whatever its column was   *)
(* when the prompt was asked.                                              *)
LaneInUseNeedsSplit ==
    \A i \in Interface :
        PortOf(i) # {} \/ (ParentOf[i] # NoInterface /\ uc[i].admin = "up") => MaySelect(i, uc)

(* The admin state of an interface's own port, where there is one, is that *)
(* of the interface: shutdown writes both in one transaction, and "no      *)
(* split", which shuts the lanes down, deletes their ports.  Only a prompt *)
(* that overwrites another session's shutdown leaves them apart, until the *)
(* next shutdown command.                                                  *)
PortAdminAgrees ==
    \A i \in (Interface \cap ports) \ undone : padmin[i] # "absent" => padmin[i] = uc[i].admin

(* Contradicted by the code: the configuration of one interface does not   *)
(* take another one out of its own port.  Splitting 50 unlinks 5.          *)
OwnPortKeepsInterface ==
    \A i \in Interface \cap ports : members[i] = <<i>>
=============================================================================
