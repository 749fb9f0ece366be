--------------------------- MODULE IntfCliProofs ----------------------------
(***************************************************************************)
(* Theorems about IntfCli, for any interfaces, commands and LAGs, and any  *)
(* number of commands of the other session while a prompt is open: the     *)
(* types, the lanes and their split, and the running configuration, which  *)
(* entered again gives the same rows.  The commands of IntfShow are here   *)
(* too, where entering them is the same loop (EnterStep).                  *)
(***************************************************************************)
EXTENDS IntfShow, IntfOpStateProofs, FiniteSetTheorems

(* A user_config the commands can have written.                            *)
IsConfig(u) ==
    /\ u = [admin |-> u.admin, autoneg |-> u.autoneg, pause |-> u.pause,
            duplex |-> u.duplex, mtu |-> u.mtu, speeds |-> u.speeds,
            lane_split |-> u.lane_split]
    /\ u.admin \in {"absent", "up", "down"} /\ u.autoneg \in {"absent", "on", "off"}
    /\ u.pause \in {"absent", "rx", "tx", "rxtx"} /\ u.duplex \in {"absent", "half"}
    /\ u.mtu \in {NoMtu} \cup MtuRange

(* The directions of flow control a user_config has on.                    *)
Directions(u) ==
    CASE u.pause = "rxtx" -> {"send", "receive"}
      [] u.pause = "tx" -> {"send"}
      [] u.pause = "rx" -> {"receive"}
      [] u.pause = "absent" -> {}

Pausing(u, on) == IsConfig(u) /\ on = Directions(u)

IsMap(f) == f = [i \in Interface |-> f[i]]

-----------------------------------------------------------------------------
(* What a command makes of a row.                                          *)

LEMMA ShutdownIs ==
    ASSUME NEW c, NEW u, IsConfig(u)
    PROVE  /\ IsConfig(cli_intf_shutdown(c, u))
           /\ cli_intf_shutdown(c, u).pause = u.pause
           /\ cli_intf_shutdown(c, u).admin = IF c.no THEN "up" ELSE "down"
BY DEF cli_intf_shutdown, IsConfig

LEMMA MtuIs ==
    ASSUME NEW c, c.no \in BOOLEAN, NEW old, NEW m, m = MtuOf(c, old)
    PROVE  m = NoMtu \/ m \in MtuRange \/ m = old
BY DEF MtuOf

(* The commands that are not about the admin state or flow control.        *)
LEMMA OthersKeep ==
    ASSUME NEW c, c.no \in BOOLEAN, NEW u, IsConfig(u), NEW hw, NEW v,
           \/ v = cli_intf_speed(c, u, hw) \/ v = cli_intf_mtu(c, u)
           \/ v = cli_intf_duplex(c, u)
           \/ v = cli_intf_autoneg(c, u) /\ (c.no \/ c.arg \in {"on", "off"})
    PROVE  IsConfig(v) /\ v.pause = u.pause /\ v.admin = u.admin
<1>1. CASE v = cli_intf_speed(c, u, hw)
  BY <1>1 DEF cli_intf_speed, IsConfig
<1>2. CASE v = cli_intf_mtu(c, u)
  <2>1. PICK m : m = MtuOf(c, u.mtu)
    OBVIOUS
  <2>2. v = [u EXCEPT !.mtu = m]
    BY <1>2, <2>1 DEF cli_intf_mtu
  <2>3. m = NoMtu \/ m \in MtuRange \/ m = u.mtu
    BY <2>1, MtuIs
  <2> QED BY <2>2, <2>3 DEF IsConfig
<1>3. CASE v = cli_intf_duplex(c, u)
  BY <1>3 DEF cli_intf_duplex, IsConfig
<1>4. CASE v = cli_intf_autoneg(c, u) /\ (c.no \/ c.arg \in {"on", "off"})
  BY <1>4 DEF cli_intf_autoneg, IsConfig
<1> QED BY <1>1, <1>2, <1>3, <1>4

(* The flowcontrol command turns one direction on or off and leaves the    *)
(* other one alone, whatever was on.                                       *)
LEMMA FlowcontrolIs ==
    ASSUME NEW c, c.arg \in {"send", "receive"}, c.no \in BOOLEAN,
           NEW u, NEW on, Pausing(u, on), NEW v, v = cli_intf_flowcontrol(c, u)
    PROVE  /\ IsConfig(v) /\ v.admin = u.admin
           /\ Directions(v) = IF c.no THEN on \ {c.arg} ELSE on \cup {c.arg}
<1>1. v = cli_intf_flowcontrol(c, u)
  OBVIOUS
<1>2. PICK p : v = [u EXCEPT !.pause = p]
  BY <1>1 DEF cli_intf_flowcontrol
<1>3. v.pause = p /\ v.admin = u.admin
  BY <1>2 DEF Pausing, IsConfig
<1>4. p = IF ~c.no THEN IF c.arg = "send" THEN IF u.pause \in {"absent", "tx"} THEN "tx" ELSE "rxtx"
                                          ELSE IF u.pause \in {"absent", "rx"} THEN "rx" ELSE "rxtx"
          ELSE IF c.arg = "send" THEN IF u.pause \in {"absent", "tx"} THEN "absent" ELSE "rx"
                                 ELSE IF u.pause \in {"absent", "rx"} THEN "absent" ELSE "tx"
  BY <1>1, <1>3 DEF cli_intf_flowcontrol, Pausing, IsConfig
<1>5. u.pause \in {"absent", "rx", "tx", "rxtx"} /\ on = Directions(u)
  BY DEF Pausing, IsConfig
<1>6. IsConfig(v)
  BY <1>2, <1>3, <1>4 DEF Pausing, IsConfig
<1>7. Directions(v) = IF c.no THEN on \ {c.arg} ELSE on \cup {c.arg}
  <2>1. CASE c.no
    BY <1>3, <1>4, <1>5, <2>1 DEF Directions
  <2>2. CASE ~c.no
    BY <1>3, <1>4, <1>5, <2>2 DEF Directions
  <2> QED BY <2>1, <2>2
<1> QED BY <1>3, <1>6, <1>7

(* A command, and the directions it leaves on.                             *)
FlowAfter(c, u, on) ==
    IF c.name = "flowcontrol" /\ ~is_parent_interface_split(u)
    THEN IF c.no THEN on \ {c.arg} ELSE on \cup {c.arg}
    ELSE on

LEMMA RowAfterIs ==
    ASSUME NEW c, Grammar(c), NEW u, NEW hw, NEW on, Pausing(u, on)
    PROVE  /\ Pausing(RowAfter(c, u, hw), FlowAfter(c, u, on))
           /\ RowAfter(c, u, hw).admin =
                 IF c.name = "shutdown" THEN IF c.no THEN "up" ELSE "down" ELSE u.admin
<1>1. /\ c.name \in {"shutdown", "speed", "mtu", "duplex", "flowcontrol", "autonegotiation"}
      /\ c.no \in BOOLEAN
      /\ c.name = "flowcontrol" => c.arg \in {"send", "receive"}
      /\ c.name = "autonegotiation" => c.no \/ c.arg \in {"on", "off"}
      /\ IsConfig(u) /\ on = Directions(u)
  BY DEF Grammar, Pausing
<1>2. PICK v : v = RowAfter(c, u, hw)
  OBVIOUS
<1>3. CASE c.name = "shutdown"
  <2>1. v = cli_intf_shutdown(c, u)
    BY <1>2, <1>3 DEF RowAfter
  <2>2. IsConfig(v) /\ v.pause = u.pause /\ v.admin = IF c.no THEN "up" ELSE "down"
    BY <1>1, <2>1, ShutdownIs
  <2>3. FlowAfter(c, u, on) = on /\ Directions(v) = Directions(u)
    BY <1>3, <2>2 DEF FlowAfter, Directions
  <2> QED BY <1>1, <1>2, <1>3, <2>2, <2>3 DEF Pausing
<1>4. CASE c.name # "shutdown" /\ is_parent_interface_split(u)
  <2>1. v = u /\ FlowAfter(c, u, on) = on
    BY <1>2, <1>4 DEF RowAfter, FlowAfter
  <2> QED BY <1>2, <1>4, <2>1
<1>5. CASE c.name = "flowcontrol" /\ ~is_parent_interface_split(u)
  <2>1. v = cli_intf_flowcontrol(c, u)
    BY <1>2, <1>5 DEF RowAfter
  <2>2. FlowAfter(c, u, on) = IF c.no THEN on \ {c.arg} ELSE on \cup {c.arg}
    BY <1>5 DEF FlowAfter
  <2>3. /\ IsConfig(v) /\ v.admin = u.admin
        /\ Directions(v) = IF c.no THEN on \ {c.arg} ELSE on \cup {c.arg}
    BY <1>1, <1>5, <2>1, FlowcontrolIs
  <2> QED BY <1>2, <1>5, <2>2, <2>3 DEF Pausing
<1>6. CASE c.name \notin {"shutdown", "flowcontrol"} /\ ~is_parent_interface_split(u)
  <2>1. \/ v = cli_intf_speed(c, u, hw) \/ v = cli_intf_mtu(c, u)
        \/ v = cli_intf_duplex(c, u)
        \/ v = cli_intf_autoneg(c, u) /\ (c.no \/ c.arg \in {"on", "off"})
    BY <1>1, <1>2, <1>6 DEF RowAfter
  <2>2. IsConfig(v) /\ v.pause = u.pause /\ v.admin = u.admin
    <3>1. IsConfig(u) /\ c.no \in BOOLEAN
      BY <1>1
    <3> QED BY <2>1, <3>1, OthersKeep
  <2>3. FlowAfter(c, u, on) = on /\ Directions(v) = Directions(u)
    BY <1>6, <2>2 DEF FlowAfter, Directions
  <2> QED BY <1>1, <1>2, <1>6, <2>2, <2>3 DEF Pausing
<1> QED BY <1>3, <1>4, <1>5, <1>6

-----------------------------------------------------------------------------
(* The inductive invariant.  An open prompt holds the rows it will write,  *)
(* and the directions that were on when it read them.                      *)
RowsInv ==
    /\ IsMap(uc) /\ IsMap(flow)
    /\ \A i \in Interface : Pausing(uc[i], flow[i])

PromptInv ==
    \/ prompt = NoPrompt
    \/ /\ prompt = [open |-> TRUE, no |-> prompt.no, others |-> prompt.others,
                    uc |-> prompt.uc, flow |-> prompt.flow]
       /\ prompt.no \in BOOLEAN
       /\ sel \in Splittable
       /\ \A i \in Interface : Pausing(prompt.uc[i], prompt.flow[i])

AdminInv ==
    /\ padmin = [p \in PortName |-> padmin[p]]
    /\ PortAdminAgrees

SessionInv ==
    /\ sel \in Interface \cup {NoInterface}
    /\ RowsInv
    /\ PromptInv
    /\ AdminInv

LEMMA InitSession ==
    Init => SessionInv
<1> SUFFICES ASSUME Init PROVE SessionInv
  OBVIOUS
<1>1. \A i \in Interface : uc[i] = NoUserConfig /\ flow[i] = {}
  BY DEF Init
<1>2. Pausing(NoUserConfig, {})
  BY DEF Pausing, IsConfig, Directions, NoUserConfig
<1>3. RowsInv
  BY <1>1, <1>2 DEF Init, RowsInv, IsMap
<1>4. AdminInv
  BY DEF Init, AdminInv, PortAdminAgrees, PortName
<1> QED BY <1>3, <1>4 DEF Init, SessionInv, PromptInv

(* A step that keeps the rows, and the prompt if there is one, for any     *)
(* selection.                                                              *)
LEMMA RowsStay ==
    ASSUME SessionInv, UNCHANGED <<uc, flow>>, prompt' = NoPrompt \/ UNCHANGED <<prompt, sel>>
    PROVE  RowsInv' /\ PromptInv'
<1>1. RowsInv'
  BY DEF SessionInv, RowsInv, IsMap
<1>2. CASE prompt' = NoPrompt
  BY <1>1, <1>2 DEF PromptInv, NoPrompt
<1>3. CASE UNCHANGED <<prompt, sel>>
  BY <1>1, <1>3 DEF PromptInv, SessionInv
<1> QED BY <1>2, <1>3

LEMMA ClosedPrompt ==
    ASSUME SessionInv, ~prompt.open
    PROVE  prompt = NoPrompt
BY DEF SessionInv, PromptInv

LEMMA SelectKeeps ==
    ASSUME SessionInv, NEW i \in Interface, vtysh_interface(i)
    PROVE  SessionInv'
<1>1. /\ ~prompt.open /\ UNCHANGED <<uc, prompt, flow, undone>> /\ sel' = i
      /\ \/ UNCHANGED <<ports, padmin>>
         \/ /\ ports' = ports \cup {i}
            /\ \E a \in {"absent", uc[i].admin} : padmin' = [padmin EXCEPT ![i] = a]
  BY DEF vtysh_interface, default_port_add
<1>2. RowsInv' /\ PromptInv'
  BY <1>1, ClosedPrompt, RowsStay
<1>3. AdminInv'
  <2>1. CASE UNCHANGED <<ports, padmin>>
    BY <1>1, <2>1 DEF SessionInv, AdminInv, PortAdminAgrees
  <2>2. CASE /\ ports' = ports \cup {i}
             /\ \E a \in {"absent", uc[i].admin} : padmin' = [padmin EXCEPT ![i] = a]
    BY <1>1, <2>2 DEF SessionInv, AdminInv, PortAdminAgrees, PortName
  <2> QED BY <1>1, <2>1, <2>2
<1> QED BY <1>1, <1>2, <1>3 DEF SessionInv

LEMMA JoinKeeps ==
    ASSUME SessionInv, NEW l \in Lag, JoinLag(l)
    PROVE  SessionInv'
<1>1. /\ UNCHANGED <<uc, sel, prompt, flow, undone>>
      /\ ports' = ports \ {sel} /\ padmin' = [padmin EXCEPT ![sel] = "absent"]
  BY DEF JoinLag
<1>2. RowsInv' /\ PromptInv'
  BY <1>1, RowsStay
<1>3. AdminInv'
  BY <1>1 DEF SessionInv, AdminInv, PortAdminAgrees, PortName
<1> QED BY <1>1, <1>2, <1>3 DEF SessionInv

-----------------------------------------------------------------------------
(* A command of this session or the other one.                             *)
LEMMA ApplyKeeps ==
    ASSUME SessionInv, NEW i \in Interface, NEW c, Apply(i, c)
    PROVE  /\ RowsInv' /\ AdminInv' /\ UNCHANGED sel
<1>1. c \in CommandsFor[i] /\ Grammar(c)
  BY CliAssumption DEF Apply
<1> DEFINE v == RowAfter(c, uc[i], HwOf[i])
           on == FlowAfter(c, uc[i], flow[i])
<1>2. /\ uc' = [uc EXCEPT ![i] = v]
      /\ flow' = [flow EXCEPT ![i] = on] \/ (flow' = flow /\ on = flow[i])
      /\ c.name = "shutdown" => /\ padmin' = ShutdownPort(i, c.no)
                                /\ undone' = undone \ {i}
      /\ c.name # "shutdown" => UNCHANGED <<padmin, undone>>
      /\ UNCHANGED <<ports, sel>>
  BY DEF Apply, FlowAfter
<1>3. Pausing(uc[i], flow[i])
  BY DEF SessionInv, RowsInv
<1>4. /\ Pausing(v, on)
      /\ v.admin = IF c.name = "shutdown" THEN IF c.no THEN "up" ELSE "down" ELSE uc[i].admin
  BY <1>1, <1>3, RowAfterIs
<1> HIDE DEF v, on
<1>5. RowsInv'
  BY <1>2, <1>4 DEF SessionInv, RowsInv, IsMap
<1>6. AdminInv'
  <2>1. /\ uc'[i] = v
        /\ \A j \in Interface : j # i => uc'[j] = uc[j]
    BY <1>2 DEF SessionInv, RowsInv, IsMap
  <2>2. CASE c.name = "shutdown"
    BY <1>2, <1>4, <2>1, <2>2
    DEF SessionInv, AdminInv, PortAdminAgrees, ShutdownPort, PortName
  <2>3. CASE c.name # "shutdown"
    BY <1>2, <1>4, <2>1, <2>3 DEF SessionInv, AdminInv, PortAdminAgrees
  <2> QED BY <2>2, <2>3
<1> QED BY <1>2, <1>5, <1>6

LEMMA ConfigureKeeps ==
    ASSUME SessionInv, NEW c, Configure(c)
    PROVE  SessionInv'
<1>1. ~prompt.open /\ sel \in Interface /\ Apply(sel, c) /\ UNCHANGED prompt
  BY DEF Configure, SessionInv
<1>2. RowsInv' /\ AdminInv' /\ UNCHANGED sel
  BY <1>1, ApplyKeeps
<1>3. PromptInv'
  BY <1>1, ClosedPrompt DEF PromptInv, NoPrompt
<1> QED BY <1>2, <1>3 DEF SessionInv

LEMMA OtherKeeps ==
    ASSUME SessionInv, NEW i \in Interface, NEW c, OtherSession(i, c)
    PROVE  SessionInv'
<1>1. /\ prompt.open /\ Apply(i, c)
      /\ prompt' = [prompt EXCEPT !.others = @ + 1]
  BY DEF OtherSession
<1>2. RowsInv' /\ AdminInv' /\ UNCHANGED sel
  BY <1>1, ApplyKeeps
<1>3. PromptInv'
  <2>1. /\ prompt = [open |-> TRUE, no |-> prompt.no, others |-> prompt.others,
                     uc |-> prompt.uc, flow |-> prompt.flow]
        /\ prompt.no \in BOOLEAN
        /\ sel \in Splittable
        /\ \A j \in Interface : Pausing(prompt.uc[j], prompt.flow[j])
    BY <1>1 DEF SessionInv, PromptInv, NoPrompt
  <2>2. PICK n : n = prompt.others + 1
    OBVIOUS
  <2>3. prompt' = [open |-> TRUE, no |-> prompt.no, others |-> n,
                   uc |-> prompt.uc, flow |-> prompt.flow]
    BY <1>1, <2>1, <2>2
  <2> QED BY <1>2, <2>1, <2>3 DEF PromptInv
<1> QED BY <1>2, <1>3 DEF SessionInv

LEMMA PromptKeeps ==
    ASSUME SessionInv, NEW no \in BOOLEAN, cli_intf_split(no)
    PROVE  SessionInv'
<1>1. /\ sel \in Splittable
      /\ prompt' = [open |-> TRUE, no |-> no, others |-> 0, uc |-> uc, flow |-> flow]
      /\ UNCHANGED <<uc, ports, padmin, sel, flow, undone>>
  BY DEF cli_intf_split
<1>2. RowsInv' /\ AdminInv'
  BY <1>1 DEF SessionInv, RowsInv, IsMap, AdminInv, PortAdminAgrees
<1>3. PromptInv'
  BY <1>1 DEF SessionInv, RowsInv, PromptInv
<1> QED BY <1>1, <1>2, <1>3 DEF SessionInv

-----------------------------------------------------------------------------
(* "y": the row of the prompt, and the ports that go.                      *)
LEMMA RemovalIs ==
    ASSUME NEW no \in BOOLEAN, NEW i
    PROVE  LET S == IF no THEN Children(i) ELSE {i}
               pt == handle_port_config(i, no)
           IN /\ pt.ports = ports \ S
              /\ pt.padmin = [p \in PortName |-> IF p \in S THEN "absent" ELSE padmin[p]]
BY DEF handle_port_config, remove_port_and_references

LEMMA SplitRowIs ==
    ASSUME NEW no, NEW u, NEW on, Pausing(u, on)
    PROVE  Pausing(SplitRow(no, u), on) /\ SplitRow(no, u).admin = u.admin
BY DEF SplitRow, Pausing, IsConfig, Directions

LEMMA DownIs ==
    ASSUME NEW u, NEW on, Pausing(u, on), NEW v, v = [u EXCEPT !.admin = "down"]
    PROVE  Pausing(v, on)
BY DEF Pausing, IsConfig, Directions

LEMMA AnswerKeeps ==
    ASSUME SessionInv, AnswerYes
    PROVE  SessionInv'
<1>1. /\ sel \in Splittable /\ sel \in Interface /\ prompt.no \in BOOLEAN
      /\ \A i \in Interface : Pausing(prompt.uc[i], prompt.flow[i])
      /\ \A i \in Interface : Pausing(uc[i], flow[i])
  BY CliAssumption DEF AnswerYes, SessionInv, PromptInv, NoPrompt, RowsInv
<1>2. PICK stale \in SUBSET Children(sel) :
         LET old == {sel} \cup IF prompt.no THEN stale ELSE {}
             read == [i \in Interface |-> IF i \in old THEN prompt.uc[i] ELSE uc[i]]
         IN /\ uc' = [i \in Interface |->
                         IF i = sel THEN SplitRow(prompt.no, read[i])
                         ELSE IF prompt.no /\ ParentOf[i] = sel
                         THEN [read[i] EXCEPT !.admin = "down"] ELSE uc[i]]
            /\ flow' = [i \in Interface |-> IF i \in old THEN prompt.flow[i] ELSE flow[i]]
  BY DEF AnswerYes
<1> DEFINE old == {sel} \cup IF prompt.no THEN stale ELSE {}
           read(i) == IF i \in old THEN prompt.uc[i] ELSE uc[i]
           gone == IF prompt.no THEN Children(sel) ELSE {sel}
<1>3. /\ IsMap(uc') /\ IsMap(flow')
      /\ \A i \in Interface :
            /\ uc'[i] = IF i = sel THEN SplitRow(prompt.no, read(i))
                        ELSE IF prompt.no /\ ParentOf[i] = sel
                        THEN [read(i) EXCEPT !.admin = "down"] ELSE uc[i]
            /\ flow'[i] = IF i \in old THEN prompt.flow[i] ELSE flow[i]
  BY <1>2 DEF IsMap
<1>4. /\ prompt' = NoPrompt /\ UNCHANGED sel
      /\ ports' = ports \ gone
      /\ padmin' = [p \in PortName |-> IF p \in gone THEN "absent" ELSE padmin[p]]
      /\ undone' = IF uc[sel].admin = prompt.uc[sel].admin THEN undone ELSE undone \cup {sel}
  BY <1>1, RemovalIs DEF AnswerYes
<1>5. \A i \in old : i = sel \/ (prompt.no /\ ParentOf[i] = sel)
  BY DEF Children
<1>6. sel \in old
  OBVIOUS
<1>7. RowsInv'
  <2> SUFFICES ASSUME NEW i \in Interface PROVE Pausing(uc'[i], flow'[i])
    BY <1>3 DEF RowsInv
  <2>1. Pausing(read(i), flow'[i])
    BY <1>1, <1>3
  <2>2. CASE i = sel
    <3>1. uc'[i] = SplitRow(prompt.no, read(i))
      BY <1>3, <2>2
    <3> QED BY <2>1, <3>1, SplitRowIs
  <2>3. CASE i # sel /\ prompt.no /\ ParentOf[i] = sel
    <3>1. uc'[i] = [read(i) EXCEPT !.admin = "down"]
      BY <1>3, <2>3
    <3> QED BY <2>1, <3>1, DownIs
  <2>4. CASE i # sel /\ ~(prompt.no /\ ParentOf[i] = sel)
    BY <1>1, <1>3, <1>5, <2>4
  <2> QED BY <2>2, <2>3, <2>4
<1>8. PortAdminAgrees'
  <2> SUFFICES ASSUME NEW i \in Interface, i \in ports', i \notin undone', padmin'[i] # "absent"
               PROVE  padmin'[i] = uc'[i].admin
    BY DEF PortAdminAgrees
  <2>1. i \in ports /\ i \notin gone /\ i \notin undone /\ padmin'[i] = padmin[i]
    BY <1>4 DEF PortName
  <2>2. padmin[i] = uc[i].admin
    BY <2>1 DEF SessionInv, AdminInv, PortAdminAgrees
  <2>3. CASE i = sel
    <3>1. uc[sel].admin = prompt.uc[sel].admin
      BY <1>4, <2>3
    <3>2. uc'[i] = SplitRow(prompt.no, prompt.uc[i])
      BY <1>3, <1>6, <2>3
    <3>3. uc'[i].admin = prompt.uc[i].admin
      BY <1>1, <3>2, SplitRowIs
    <3> QED BY <2>1, <2>2, <2>3, <3>1, <3>3
  <2>4. CASE i # sel
    <3>1. ~(prompt.no /\ ParentOf[i] = sel)
      BY <2>1 DEF Children
    <3> QED BY <1>3, <2>1, <2>2, <2>4, <3>1
  <2> QED BY <2>3, <2>4
<1> QED BY <1>4, <1>7, <1>8 DEF SessionInv, PromptInv, AdminInv

-----------------------------------------------------------------------------
LEMMA RestKeeps ==
    ASSUME SessionInv, no_vtysh_interface \/ AnswerNo \/ IntfdCatchesUp \/ UNCHANGED vars
    PROVE  SessionInv'
<1>1. /\ UNCHANGED <<uc, ports, padmin, flow, undone>>
      /\ \/ ~prompt.open /\ UNCHANGED prompt /\ sel' = NoInterface
         \/ prompt' = NoPrompt /\ UNCHANGED sel
         \/ UNCHANGED <<prompt, sel>>
  BY DEF no_vtysh_interface, AnswerNo, IntfdCatchesUp, vars
<1>2. RowsInv' /\ PromptInv'
  BY <1>1, ClosedPrompt, RowsStay
<1>3. AdminInv'
  BY <1>1 DEF SessionInv, AdminInv, PortAdminAgrees
<1> QED BY <1>1, <1>2, <1>3 DEF SessionInv

LEMMA SessionStep ==
    SessionInv /\ [Next]_vars => SessionInv'
<1> SUFFICES ASSUME SessionInv, [Next]_vars PROVE SessionInv'
  OBVIOUS
<1>1. ASSUME NEW i \in Interface, vtysh_interface(i) PROVE SessionInv'
  BY <1>1, SelectKeeps
<1>2. ASSUME NEW c, Configure(c) PROVE SessionInv'
  BY <1>2, ConfigureKeeps
<1>3. ASSUME NEW no \in BOOLEAN, cli_intf_split(no) PROVE SessionInv'
  BY <1>3, PromptKeeps
<1>4. CASE AnswerYes
  BY <1>4, AnswerKeeps
<1>5. ASSUME NEW i \in Interface, NEW c, OtherSession(i, c) PROVE SessionInv'
  BY <1>5, OtherKeeps
<1>6. ASSUME NEW l \in Lag, JoinLag(l) PROVE SessionInv'
  BY <1>6, JoinKeeps
<1>7. CASE no_vtysh_interface \/ AnswerNo \/ IntfdCatchesUp \/ UNCHANGED vars
  BY <1>7, RestKeeps
<1> QED BY <1>1, <1>2, <1>3, <1>4, <1>5, <1>6, <1>7 DEF Next

LEMMA SessionIsInvariant ==
    Spec => []SessionInv
BY InitSession, SessionStep, PTL DEF Spec

(* Whatever commands users give, in whatever order and from whichever      *)
(* session, user_config:pause says which directions of flow control were   *)
(* left on (cli_intf_flowcontrol), but for what an answered prompt undoes. *)
THEOREM PauseFollowsCommands ==
    Spec => []FlowControlFollowsCommands
<1>1. SessionInv => FlowControlFollowsCommands
  BY DEF SessionInv, RowsInv, Pausing, Directions, FlowControlFollowsCommands
<1> QED BY <1>1, SessionIsInvariant, PTL

(* The admin state of an interface's own port is that of the interface,    *)
(* unless an answered prompt has overwritten another session's shutdown:   *)
(* shutdown writes both columns, and what removes a lane's port or moves   *)
(* the interface to a LAG leaves no port behind that could disagree.       *)
THEOREM PortAgrees ==
    Spec => []PortAdminAgrees
<1>1. SessionInv => PortAdminAgrees
  BY DEF SessionInv, AdminInv
<1> QED BY <1>1, SessionIsInvariant, PTL

-----------------------------------------------------------------------------
(* Lists without repetition: the members of a port, the rows of a view.    *)

IsList(s, S) ==
    /\ s \in Seq(S)
    /\ \A j, k \in 1..Len(s) : s[j] = s[k] => j = k

In(x, s) == \E k \in 1..Len(s) : s[k] = x

(* Adding something new to a list.                                         *)
LEMMA AppendToList ==
    ASSUME NEW S, NEW s, IsList(s, S), NEW x \in S, ~In(x, s)
    PROVE  /\ IsList(Append(s, x), S)
           /\ \A y : In(y, Append(s, x)) <=> In(y, s) \/ y = x
<1> DEFINE a == Append(s, x)
           n == Len(s)
<1>1. /\ n \in Nat /\ a \in Seq(S) /\ Len(a) = n + 1 /\ a[n + 1] = x
      /\ \A k \in 1..n : a[k] = s[k] /\ s[k] # x
  BY DEF IsList, In
<1> HIDE DEF a, n
<1>2. \A k \in 1..(n + 1) : k = n + 1 \/ k \in 1..n
  BY <1>1
<1>3. \A j, k \in 1..n : s[j] = s[k] => j = k
  BY DEF IsList, n
<1>4. \A j, k \in 1..(n + 1) : a[j] = a[k] => j = k
  BY <1>1, <1>2, <1>3
<1>5. IsList(a, S)
  BY <1>1, <1>4 DEF IsList
<1>6. ASSUME NEW y PROVE In(y, a) <=> In(y, s) \/ y = x
  <2>1. \A k \in 1..n : k \in 1..(n + 1)
    BY <1>1
  <2>2. n + 1 \in 1..(n + 1)
    BY <1>1
  <2>3. In(y, a) <=> \E k \in 1..(n + 1) : a[k] = y
    BY <1>1 DEF In
  <2>4. In(y, s) <=> \E k \in 1..n : s[k] = y
    BY DEF In, n
  <2> QED BY <1>1, <1>2, <2>1, <2>2, <2>3, <2>4
<1> QED BY <1>5, <1>6 DEF a

LEMMA EmptyList ==
    ASSUME NEW S
    PROVE  IsList(<<>>, S) /\ \A x : ~In(x, <<>>)
BY DEF IsList, In

(* The first k elements, as a set.                                         *)
Upto(s, k) == {s[j] : j \in 1..k}

LEMMA UptoGrows ==
    ASSUME NEW S, NEW s, IsList(s, S), NEW k \in 1..Len(s)
    PROVE  /\ Upto(s, k) = Upto(s, k - 1) \cup {s[k]} /\ s[k] \notin Upto(s, k - 1)
           /\ s[k] \in S
<1>1. Len(s) \in Nat
  BY DEF IsList
<1>2. \A j : j \in 1..k <=> j \in 1..(k - 1) \/ j = k
  BY <1>1
<1>3. \A j \in 1..(k - 1) : j \in 1..Len(s) /\ j # k
  BY <1>1
<1>4. Upto(s, k) = Upto(s, k - 1) \cup {s[k]}
  BY <1>2 DEF Upto
<1>5. s[k] \notin Upto(s, k - 1)
  BY <1>3 DEF Upto, IsList
<1> QED BY <1>4, <1>5 DEF IsList

LEMMA UptoIsIn ==
    ASSUME NEW s
    PROVE  Upto(s, 0) = {} /\ \A x : In(x, s) <=> x \in Upto(s, Len(s))
BY DEF Upto, In

(* A selection of a list is a list of what is in both.                     *)
KeepStep(S, r, x) == IF x \in S THEN Append(r, x) ELSE r
KeepLoop == INSTANCE Loops WITH Step <- KeepStep

LEMMA OnlyInIs ==
    ASSUME NEW S, NEW K, NEW s, IsList(s, S)
    PROVE  /\ IsList(OnlyIn(s, K), S)
           /\ \A x : In(x, OnlyIn(s, K)) <=> In(x, s) /\ x \in K
<1> DEFINE n == Len(s)
           T == Seq(S)
<1>1. n \in Nat /\ s \in Seq(S) /\ <<>> \in T
  BY DEF IsList
<1>2. \A r \in T, x \in S : KeepStep(K, r, x) \in T
  BY DEF KeepStep
<1>3. OnlyIn(s, K) = KeepLoop!Result(K, <<>>, s)
  BY DEF OnlyIn, KeepLoop!Result, KeepStep, FoldLeft, KeepLoop!FoldLeft,
         MapThenFoldSet, KeepLoop!MapThenFoldSet, Max, KeepLoop!Max
<1>4. PICK f : KeepLoop!Runs(f, K, <<>>, s) /\ KeepLoop!Result(K, <<>>, s) = f[Len(s)]
  <2> HIDE DEF T
  <2> QED BY <1>1, <1>2, KeepLoop!FoldRuns
<1> DEFINE P(k) == IsList(f[k], S) /\ \A x : In(x, f[k]) <=> x \in Upto(s, k) /\ x \in K
           Q == {k \in 0..n : P(k)}
<1>5. 0 \in Q
  <2>1. f[0] = <<>>
    BY <1>4 DEF KeepLoop!Runs
  <2>2. P(0)
    BY <2>1, EmptyList, UptoIsIn
  <2> QED BY <1>1, <2>2
<1>6. ASSUME NEW k \in 1..n, k - 1 \in Q PROVE k \in Q
  <2>1. /\ Upto(s, k) = Upto(s, k - 1) \cup {s[k]} /\ s[k] \notin Upto(s, k - 1)
        /\ s[k] \in S
    BY UptoGrows
  <2> DEFINE r == f[k - 1]
             m == s[k]
  <2>2. f[k] = IF m \in K THEN Append(r, m) ELSE r
    BY <1>4 DEF KeepLoop!Runs, KeepStep
  <2>3. IsList(r, S) /\ \A x : In(x, r) <=> x \in Upto(s, k - 1) /\ x \in K
    BY <1>6
  <2> HIDE DEF r, m
  <2>4. CASE m \in K
    <3>1. ~In(m, r) /\ m \in S
      BY <2>1, <2>3 DEF m
    <3>2. IsList(Append(r, m), S) /\ \A y : In(y, Append(r, m)) <=> In(y, r) \/ y = m
      BY <2>3, <3>1, AppendToList
    <3>3. P(k)
      BY <2>1, <2>2, <2>3, <2>4, <3>2 DEF m
    <3> QED BY <1>1, <3>3
  <2>5. CASE m \notin K
    <3>1. P(k)
      BY <2>1, <2>2, <2>3, <2>5 DEF m
    <3> QED BY <1>1, <3>1
  <2> QED BY <2>4, <2>5
<1> HIDE DEF Q
<1>7. \A k \in 0..n : k \in Q
  BY <1>1, <1>5, <1>6, KeepLoop!InductionUpTo
<1>8. P(n)
  <2>1. n \in 0..n
    BY <1>1
  <2> QED BY <1>7, <2>1 DEF Q
<1> QED BY <1>3, <1>4, <1>8, UptoIsIn

-----------------------------------------------------------------------------
(* remove_port_and_references.                                             *)
RemoveStep(i, r, m) == RemoveMember(r, m, i)
RemoveLoop == INSTANCE Loops WITH Step <- RemoveStep
RemoveStart == [left |-> <<>>, moved |-> FALSE]

(* No member of a port is i's name cut short.                              *)
NoPrefixOf(i, s) == \A m : In(m, s) => <<m, i>> \notin PrefixOf

(* What is left of a port's members is a list of some of them, and without *)
(* i unless a member's name is the beginning of i's: only then can the     *)
(* loop pass over i.                                                       *)
LEMMA MembersLeftIs ==
    ASSUME NEW S, NEW s, IsList(s, S), NEW i
    PROVE  /\ IsList(MembersLeft(s, i), S)
           /\ \A x : In(x, MembersLeft(s, i)) => In(x, s)
           /\ NoPrefixOf(i, s) => ~In(i, MembersLeft(s, i))
<1> DEFINE n == Len(s)
           T == [left : Seq(S), moved : BOOLEAN]
<1>1. n \in Nat /\ s \in Seq(S) /\ RemoveStart \in T
  BY DEF IsList, RemoveStart
<1>2. \A r \in T, x \in S : RemoveStep(i, r, x) \in T
  BY DEF RemoveStep, RemoveMember
<1>3. MembersLeft(s, i) = RemoveLoop!Result(i, RemoveStart, s).left
  BY DEF MembersLeft, RemoveLoop!Result, RemoveStep, RemoveStart, FoldLeft, RemoveLoop!FoldLeft,
         MapThenFoldSet, RemoveLoop!MapThenFoldSet, Max, RemoveLoop!Max
<1>4. PICK f : RemoveLoop!Runs(f, i, RemoveStart, s) /\ RemoveLoop!Result(i, RemoveStart, s) = f[Len(s)]
  <2> HIDE DEF T
  <2> QED BY <1>1, <1>2, RemoveLoop!FoldRuns
<1> DEFINE P(k) == /\ IsList(f[k].left, S)
                   /\ \A x : In(x, f[k].left) => x \in Upto(s, k)
                   /\ f[k].moved \in BOOLEAN
                   /\ NoPrefixOf(i, s) => /\ ~In(i, f[k].left)
                                          /\ f[k].moved => i \in Upto(s, k)
           Q == {k \in 0..n : P(k)}
<1>5. 0 \in Q
  <2>1. f[0].left = <<>> /\ f[0].moved = FALSE
    BY <1>4 DEF RemoveLoop!Runs, RemoveStart
  <2>2. P(0)
    BY <2>1, EmptyList
  <2> QED BY <1>1, <2>2
<1>6. ASSUME NEW k \in 1..n, k - 1 \in Q PROVE k \in Q
  <2>1. /\ Upto(s, k) = Upto(s, k - 1) \cup {s[k]} /\ s[k] \notin Upto(s, k - 1)
        /\ s[k] \in S
    BY UptoGrows
  <2> DEFINE r == f[k - 1]
             m == s[k]
  <2>2. f[k] = IF NamesMatch(m, i) /\ ~r.moved THEN [left |-> r.left, moved |-> TRUE]
               ELSE [left |-> Append(r.left, m), moved |-> FALSE]
    BY <1>4 DEF RemoveLoop!Runs, RemoveStep, RemoveMember
  <2>3. /\ IsList(r.left, S) /\ r.moved \in BOOLEAN
        /\ \A x : In(x, r.left) => x \in Upto(s, k - 1)
        /\ NoPrefixOf(i, s) => ~In(i, r.left) /\ (r.moved => i \in Upto(s, k - 1))
    BY <1>6
  <2>4. NoPrefixOf(i, s) => (NamesMatch(m, i) <=> m = i)
    BY DEF NoPrefixOf, In, NamesMatch
  <2> HIDE DEF r, m
  <2>5. CASE NamesMatch(m, i) /\ ~r.moved
    <3>1. f[k].left = r.left /\ f[k].moved = TRUE
      BY <2>2, <2>5
    <3>2. NoPrefixOf(i, s) => i \in Upto(s, k)
      BY <2>1, <2>4, <2>5 DEF m
    <3>3. P(k)
      BY <2>1, <2>3, <3>1, <3>2
    <3> QED BY <1>1, <3>3
  <2>6. CASE ~(NamesMatch(m, i) /\ ~r.moved)
    <3>1. f[k].left = Append(r.left, m) /\ f[k].moved = FALSE
      BY <2>2, <2>6
    <3>2. ~In(m, r.left) /\ m \in S
      BY <2>1, <2>3 DEF m
    <3>3. IsList(Append(r.left, m), S) /\ \A y : In(y, Append(r.left, m)) <=> In(y, r.left) \/ y = m
      BY <2>3, <3>2, AppendToList
    <3>4. NoPrefixOf(i, s) => m # i
      <4> SUFFICES ASSUME NoPrefixOf(i, s), m = i PROVE FALSE
        OBVIOUS
      <4>1. r.moved
        BY <2>3, <2>4, <2>6
      <4>2. m \in Upto(s, k - 1)
        BY <2>3, <4>1
      <4> QED BY <2>1, <4>2 DEF m
    <3>5. P(k)
      BY <2>1, <2>3, <3>1, <3>3, <3>4 DEF m
    <3> QED BY <1>1, <3>5
  <2> QED BY <2>5, <2>6
<1> HIDE DEF Q
<1>7. \A k \in 0..n : k \in Q
  BY <1>1, <1>5, <1>6, RemoveLoop!InductionUpTo
<1>8. P(n)
  <2>1. n \in 0..n
    BY <1>1
  <2> QED BY <1>7, <2>1 DEF Q
<1> QED BY <1>3, <1>4, <1>8, UptoIsIn

RemoveAllStep(db, s, i) == MembersLeft(s, i)
RemoveAllLoop == INSTANCE Loops WITH Step <- RemoveAllStep

(* What a port keeps after the removal of all of S.                        *)
LEMMA MembersLeftAfterIs ==
    ASSUME NEW X, NEW p, IsList(members[p], X), NEW S, IsFiniteSet(S)
    PROVE  /\ IsList(MembersLeftAfter(p, S), X)
           /\ \A x : In(x, MembersLeftAfter(p, S)) => In(x, members[p]) /\ p \notin S
           /\ p \in S => MembersLeftAfter(p, S) = <<>>
           /\ \A i \in S : NoPrefixOf(i, members[p]) => ~In(i, MembersLeftAfter(p, S))
<1>1. CASE p \in S
  <2>1. MembersLeftAfter(p, S) = <<>>
    BY <1>1 DEF MembersLeftAfter
  <2> QED BY <1>1, <2>1, EmptyList
<1>2. CASE p \notin S
  <2> DEFINE list == SetToSeq(S)
             n == Len(list)
             s == members[p]
             T == {t \in Seq(X) : IsList(t, X)}
  <2>1. /\ RemoveAllLoop!Lists(RemoveAllLoop!SetToSeq(S), S)
        /\ RemoveAllLoop!SetToSeq(S) \in Seq(S)
        /\ Len(RemoveAllLoop!SetToSeq(S)) = RemoveAllLoop!Cardinality(S)
    <3>1. RemoveAllLoop!IsFiniteSet(S)
      BY DEF RemoveAllLoop!IsFiniteSet, IsFiniteSet
    <3> QED BY <3>1, RemoveAllLoop!SetToSeqLists
  <2>2. RemoveAllLoop!SetToSeq(S) = list
    BY DEF SetToSeq, RemoveAllLoop!SetToSeq, Cardinality, RemoveAllLoop!Cardinality,
           IsInjective, RemoveAllLoop!IsInjective
  <2>3. /\ n \in Nat /\ list \in Seq(S) /\ IsList(list, S)
        /\ \A x \in S : x \in Upto(list, n)
    <3>1. /\ RemoveAllLoop!Lists(list, S) /\ list \in Seq(S)
          /\ Len(list) = RemoveAllLoop!Cardinality(S)
      BY <2>1, <2>2
    <3> HIDE DEF list
    <3>2. Len(list) \in Nat
      BY <3>1
    <3>3. IsList(list, S)
      BY <3>1 DEF RemoveAllLoop!Lists, IsList
    <3>4. \A x \in S : x \in Upto(list, Len(list))
      BY <3>1 DEF RemoveAllLoop!Lists, Upto
    <3> QED BY <3>1, <3>2, <3>3, <3>4
  <2>4. MembersLeftAfter(p, S) = RemoveAllLoop!Result({}, s, list)
    BY <1>2 DEF MembersLeftAfter, RemoveAllLoop!Result, RemoveAllStep, FoldLeft,
           RemoveAllLoop!FoldLeft, MapThenFoldSet, RemoveAllLoop!MapThenFoldSet, Max, RemoveAllLoop!Max
  <2> HIDE DEF list, n
  <2>5. s \in T /\ \A t \in T, x \in S : RemoveAllStep({}, t, x) \in T
    <3>1. s \in T
      BY DEF IsList
    <3>2. ASSUME NEW t \in T, NEW x \in S PROVE RemoveAllStep({}, t, x) \in T
      <4>1. IsList(MembersLeft(t, x), X)
        BY MembersLeftIs
      <4> QED BY <4>1 DEF RemoveAllStep, IsList
    <3> QED BY <3>1, <3>2
  <2>6. PICK f : /\ RemoveAllLoop!Runs(f, {}, s, list)
                 /\ RemoveAllLoop!Result({}, s, list) = f[Len(list)]
    <3> HIDE DEF T, s
    <3> QED BY <2>3, <2>5, RemoveAllLoop!FoldRuns
  <2> DEFINE P(k) == /\ IsList(f[k], X)
                     /\ \A x : In(x, f[k]) => In(x, s)
                     /\ \A i \in Upto(list, k) : NoPrefixOf(i, s) => ~In(i, f[k])
             Q == {k \in 0..n : P(k)}
  <2>7. 0 \in Q
    <3>1. f[0] = s
      BY <2>6 DEF RemoveAllLoop!Runs
    <3>2. P(0)
      BY <3>1, UptoIsIn
    <3> QED BY <2>3, <3>2
  <2>8. ASSUME NEW k \in 1..n, k - 1 \in Q PROVE k \in Q
    <3>1. Upto(list, k) = Upto(list, k - 1) \cup {list[k]} /\ list[k] \in S
      BY <2>3, UptoGrows DEF n
    <3>2. f[k] = MembersLeft(f[k - 1], list[k])
      BY <2>6 DEF RemoveAllLoop!Runs, RemoveAllStep, n
    <3>3. /\ IsList(f[k - 1], X) /\ \A x : In(x, f[k - 1]) => In(x, s)
          /\ \A i \in Upto(list, k - 1) : NoPrefixOf(i, s) => ~In(i, f[k - 1])
      BY <2>8
    <3>4. /\ IsList(f[k], X) /\ \A x : In(x, f[k]) => In(x, f[k - 1])
          /\ NoPrefixOf(list[k], f[k - 1]) => ~In(list[k], f[k])
      BY <3>2, <3>3, MembersLeftIs
    <3>5. \A i : NoPrefixOf(i, s) => NoPrefixOf(i, f[k - 1])
      BY <3>3 DEF NoPrefixOf
    <3>6. P(k)
      BY <3>1, <3>3, <3>4, <3>5
    <3> QED BY <2>3, <3>6
  <2> HIDE DEF Q
  <2>9. \A k \in 0..n : k \in Q
    BY <2>3, <2>7, <2>8, RemoveAllLoop!InductionUpTo
  <2>10. P(n)
    <3>1. n \in 0..n
      BY <2>3
    <3> QED BY <2>9, <3>1 DEF Q
  <2>11. MembersLeftAfter(p, S) = f[n]
    BY <2>4, <2>6 DEF n
  <2> QED BY <1>2, <2>3, <2>10, <2>11
<1> QED BY <1>1, <1>2

(* A list with nothing in it.                                              *)
LEMMA NothingIn ==
    ASSUME NEW S, NEW s, IsList(s, S), \A x : ~In(x, s)
    PROVE  s = <<>>
<1>1. s \in Seq(S) /\ Len(s) \in Nat
  BY DEF IsList
<1>2. \A k \in 1..Len(s) : In(s[k], s)
  BY DEF In
<1>3. Len(s) = 0
  BY <1>1, <1>2
<1> QED BY <1>1, <1>3

(* Putting something new into a list, at any place.                        *)
LEMMA InsertIs ==
    ASSUME NEW S, NEW s, IsList(s, S), NEW x \in S, ~In(x, s), NEW k \in 1..(Len(s) + 1)
    PROVE  /\ IsList(InsertAt(s, k, x), S)
           /\ \A y : In(y, InsertAt(s, k, x)) <=> In(y, s) \/ y = x
<1> DEFINE n == Len(s)
           a == SubSeq(s, 1, k - 1)
           b == SubSeq(s, k, n)
           t == InsertAt(s, k, x)
<1>1. n \in Nat /\ s \in Seq(S) /\ k \in Nat /\ k >= 1 /\ k <= n + 1
  BY DEF IsList
<1>2. /\ a \in Seq(S) /\ Len(a) = k - 1 /\ \A j \in 1..(k - 1) : a[j] = s[j]
  BY <1>1
<1>3. /\ b \in Seq(S) /\ Len(b) = n - k + 1 /\ \A j \in 1..(n - k + 1) : b[j] = s[k + j - 1]
  BY <1>1
<1>4. t = a \o <<x>> \o b
  BY DEF InsertAt
<1> HIDE DEF a, b, t
<1>5. /\ t \in Seq(S) /\ Len(t) = n + 1
      /\ \A j \in 1..(k - 1) : t[j] = a[j]
      /\ t[k] = x
      /\ \A j \in (k + 1)..(n + 1) : t[j] = b[j - k]
  <2> DEFINE c == a \o <<x>>
  <2>1. <<x>> \in Seq(S) /\ Len(<<x>>) = 1 /\ <<x>>[1] = x
    OBVIOUS
  <2>2. /\ c \in Seq(S) /\ Len(c) = k /\ c[k] = x
        /\ \A j \in 1..(k - 1) : c[j] = a[j]
    BY <1>1, <1>2, <2>1
  <2>3. t = c \o b
    BY <1>4
  <2> HIDE DEF c
  <2>4. t \in Seq(S) /\ Len(t) = n + 1
    BY <1>1, <1>3, <2>2, <2>3 DEF n
  <2>5. \A j \in 1..k : t[j] = c[j]
    BY <1>1, <1>3, <2>2, <2>3
  <2>6. \A j \in (k + 1)..(n + 1) : t[j] = b[j - k]
    BY <1>1, <1>3, <2>2, <2>3 DEF n
  <2>7. k \in 1..k /\ \A j \in 1..(k - 1) : j \in 1..k
    BY <1>1
  <2> QED BY <2>2, <2>4, <2>5, <2>6, <2>7
<1>6. /\ \A j \in 1..(k - 1) : t[j] = s[j]
      /\ \A j \in (k + 1)..(n + 1) : t[j] = s[j - 1]
  BY <1>1, <1>2, <1>3, <1>5 DEF n
<1> HIDE DEF n
<1>7. \A j \in 1..n : s[j] # x
  BY DEF In, n
<1>8. \A j, m \in 1..n : s[j] = s[m] => j = m
  BY DEF IsList, n
<1> DEFINE From(j) == IF j < k THEN j ELSE j - 1
<1>9. \A j \in 1..(n + 1) : j # k => From(j) \in 1..n /\ t[j] = s[From(j)]
  BY <1>1, <1>6
<1>10. ASSUME NEW j \in 1..(n + 1), NEW m \in 1..(n + 1), t[j] = t[m] PROVE j = m
  <2>1. j # k /\ m # k => From(j) = From(m)
    BY <1>8, <1>9, <1>10
  <2>2. j = k <=> m = k
    BY <1>5, <1>7, <1>9, <1>10
  <2> QED BY <1>1, <2>1, <2>2
<1>11. IsList(t, S)
  BY <1>5, <1>10 DEF IsList
<1>12. ASSUME NEW y PROVE In(y, t) <=> In(y, s) \/ y = x
  <2>1. In(y, t) <=> \E j \in 1..(n + 1) : t[j] = y
    BY <1>5 DEF In
  <2>2. In(y, s) <=> \E j \in 1..n : s[j] = y
    BY DEF In, n
  <2>3. k \in 1..(n + 1)
    BY <1>1
  <2>4. ASSUME NEW j \in 1..n PROVE \E m \in 1..(n + 1) : t[m] = s[j]
    <3>1. CASE j < k
      <4>1. j \in 1..(k - 1) /\ j \in 1..(n + 1)
        BY <1>1, <3>1
      <4> QED BY <1>6, <4>1
    <3>2. CASE ~(j < k)
      <4>1. j + 1 \in (k + 1)..(n + 1) /\ j + 1 \in 1..(n + 1) /\ (j + 1) - 1 = j
        BY <1>1, <3>2
      <4> QED BY <1>6, <4>1
    <3> QED BY <3>1, <3>2
  <2>5. In(y, t) => In(y, s) \/ y = x
    BY <1>5, <1>9, <2>1, <2>2
  <2>6. In(y, s) => In(y, t)
    BY <2>1, <2>2, <2>4
  <2>7. y = x => In(y, t)
    BY <1>5, <2>1, <2>3
  <2> QED BY <2>5, <2>6, <2>7
<1> QED BY <1>11, <1>12 DEF t

-----------------------------------------------------------------------------
(* Rows, ports and counters keep their types.                              *)

RowOK(i, u) ==
    /\ u.mtu # INTFD_DEFAULT_MTU
    /\ u.speeds \in {<<>>} \cup {<<s>> : s \in Range(HwOf[i].speeds)}
    /\ u.lane_split \in {"absent"} \cup IF i \in Splittable THEN {"split"} ELSE {}

RowsOK ==
    /\ \A i \in Interface : RowOK(i, uc[i])
    /\ prompt.open => \A i \in Interface : RowOK(i, prompt.uc[i])

(* A port of an interface has that one or nothing in it, a LAG interfaces  *)
(* its users may put into it.                                              *)
MembersOf(p) == IF p \in Lag THEN LagMembers[p] ELSE {p}

PortsOK ==
    /\ ports \subseteq PortName /\ Lag \subseteq ports
    /\ members = [p \in PortName |-> members[p]]
    /\ \A p \in PortName :
          /\ padmin[p] \in {"absent", "up", "down"}
          /\ IsList(members[p], MembersOf(p))
          /\ p \notin ports => members[p] = <<>> /\ padmin[p] = "absent"

CountsOK ==
    /\ error \in [Interface -> BOOLEAN]
    /\ undone \subseteq Splittable
    /\ prompt.open => prompt.others \in 0..MaxOthers

ColumnsInv == SessionInv /\ RowsOK /\ PortsOK /\ CountsOK

LEMMA RowAfterOK ==
    ASSUME NEW c, Grammar(c), NEW u, IsConfig(u), NEW i \in Interface, RowOK(i, u)
    PROVE  /\ RowOK(i, RowAfter(c, u, HwOf[i]))
           /\ RowAfter(c, u, HwOf[i]).lane_split = u.lane_split
<1>1. /\ c.name \in {"shutdown", "speed", "mtu", "duplex", "flowcontrol", "autonegotiation"}
      /\ c.no \in BOOLEAN
  BY DEF Grammar
<1>2. PICK v : v = RowAfter(c, u, HwOf[i])
  OBVIOUS
<1>3. PICK hw : hw = HwOf[i]
  OBVIOUS
<1>4. \/ v = u \/ v = cli_intf_shutdown(c, u)
      \/ v = cli_intf_speed(c, u, hw) \/ v = cli_intf_mtu(c, u)
      \/ v = cli_intf_duplex(c, u) \/ v = cli_intf_flowcontrol(c, u)
      \/ v = cli_intf_autoneg(c, u)
  BY <1>1, <1>2, <1>3 DEF RowAfter
<1>5. CASE v = u \/ v = cli_intf_shutdown(c, u) \/ v = cli_intf_duplex(c, u)
           \/ v = cli_intf_autoneg(c, u)
  <2>1. v.mtu = u.mtu /\ v.speeds = u.speeds /\ v.lane_split = u.lane_split
    BY <1>5 DEF IsConfig, cli_intf_shutdown, cli_intf_duplex, cli_intf_autoneg
  <2> QED BY <1>2, <2>1 DEF RowOK
<1>6. CASE v = cli_intf_flowcontrol(c, u)
  <2>1. PICK p : v = [u EXCEPT !.pause = p]
    BY <1>6 DEF cli_intf_flowcontrol
  <2>2. v.mtu = u.mtu /\ v.speeds = u.speeds /\ v.lane_split = u.lane_split
    BY <2>1 DEF IsConfig
  <2> QED BY <1>2, <2>2 DEF RowOK
<1>7. CASE v = cli_intf_speed(c, u, hw)
  <2>1. \/ v = u \/ v = [u EXCEPT !.speeds = <<>>]
        \/ v = [u EXCEPT !.speeds = <<c.number>>] /\ c.number \in Range(hw.speeds)
    BY <1>7 DEF cli_intf_speed, Range
  <2>2. /\ v.mtu = u.mtu /\ v.lane_split = u.lane_split
        /\ \/ v.speeds = u.speeds \/ v.speeds = <<>>
           \/ v.speeds = <<c.number>> /\ c.number \in Range(hw.speeds)
    BY <2>1 DEF IsConfig
  <2> QED BY <1>2, <1>3, <2>2 DEF RowOK
<1>8. CASE v = cli_intf_mtu(c, u)
  <2>1. PICK m : m = MtuOf(c, u.mtu)
    OBVIOUS
  <2>2. v = [u EXCEPT !.mtu = m]
    BY <1>8, <2>1 DEF cli_intf_mtu
  <2>3. v.mtu = m /\ v.speeds = u.speeds /\ v.lane_split = u.lane_split
    BY <2>2 DEF IsConfig
  <2>4. m # INTFD_DEFAULT_MTU
    BY <1>1, <2>1 DEF MtuOf, RowOK, NoMtu, INTFD_DEFAULT_MTU
  <2> QED BY <1>2, <2>3, <2>4 DEF RowOK
<1> QED BY <1>4, <1>5, <1>6, <1>7, <1>8

LEMMA InitColumns ==
    Init => ColumnsInv
<1> SUFFICES ASSUME Init PROVE ColumnsInv
  OBVIOUS
<1>1. \A i \in Interface : uc[i] = NoUserConfig
  BY DEF Init
<1>2. RowsOK
  BY <1>1 DEF RowsOK, RowOK, NoUserConfig, Init, NoPrompt, INTFD_DEFAULT_MTU, NoMtu
<1>3. PortsOK
  <2>1. \A p \in PortName : members[p] = <<>> /\ padmin[p] = "absent"
    BY DEF Init
  <2>2. ports = Lag /\ members = [p \in PortName |-> members[p]]
    BY DEF Init
  <2> QED BY <2>1, <2>2, EmptyList DEF PortsOK, PortName
<1>4. CountsOK
  BY DEF CountsOK, Init, NoPrompt
<1> QED BY <1>2, <1>3, <1>4, InitSession DEF ColumnsInv

(* A command.                                                              *)
LEMMA ApplyColumns ==
    ASSUME ColumnsInv, NEW i \in Interface, NEW c, Apply(i, c)
    PROVE  /\ \A j \in Interface : RowOK(j, uc'[j]) /\ uc'[j].lane_split = uc[j].lane_split
           /\ \A j \in Interface : j # i => uc'[j] = uc[j]
           /\ PortsOK' /\ undone' \subseteq Splittable /\ UNCHANGED <<error, sel, ports, members>>
<1>1. c \in CommandsFor[i] /\ Grammar(c) /\ c.no \in BOOLEAN
  BY CliAssumption DEF Apply, Grammar
<1> DEFINE v == RowAfter(c, uc[i], HwOf[i])
<1>2. /\ uc' = [uc EXCEPT ![i] = v]
      /\ padmin' = (IF c.name = "shutdown" THEN ShutdownPort(i, c.no) ELSE padmin)
      /\ undone' = undone \ {i} \/ undone' = undone
      /\ UNCHANGED <<error, ports, members, sel>>
  BY DEF Apply
<1>3. IsConfig(uc[i]) /\ RowOK(i, uc[i]) /\ IsMap(uc) /\ \A j \in Interface : RowOK(j, uc[j])
  BY DEF ColumnsInv, SessionInv, RowsInv, Pausing, RowsOK
<1>4. RowOK(i, v) /\ v.lane_split = uc[i].lane_split
  BY <1>1, <1>3, RowAfterOK
<1> HIDE DEF v
<1>5. uc'[i] = v /\ \A j \in Interface : j # i => uc'[j] = uc[j]
  BY <1>2, <1>3 DEF IsMap
<1>6. \A p \in PortName : /\ padmin'[p] \in {"absent", "up", "down"}
                          /\ p \notin ports => padmin'[p] = "absent"
  <2>1. padmin = [p \in PortName |-> padmin[p]]
    BY DEF ColumnsInv, SessionInv, AdminInv
  <2> QED BY <1>1, <1>2, <2>1 DEF ColumnsInv, PortsOK, ShutdownPort, PortName
<1>7. PortsOK'
  BY <1>2, <1>6 DEF ColumnsInv, PortsOK, PortName, MembersOf
<1> QED BY <1>2, <1>3, <1>4, <1>5, <1>7 DEF ColumnsInv, CountsOK

LEMMA ConfigureColumns ==
    ASSUME ColumnsInv, NEW c, Configure(c)
    PROVE  RowsOK' /\ PortsOK' /\ CountsOK'
<1>1. ~prompt.open /\ sel \in Interface /\ Apply(sel, c) /\ UNCHANGED prompt
  BY DEF Configure, ColumnsInv, SessionInv
<1>2. /\ \A j \in Interface : RowOK(j, uc'[j])
      /\ PortsOK' /\ undone' \subseteq Splittable /\ UNCHANGED error
  BY <1>1, ApplyColumns
<1> QED BY <1>1, <1>2 DEF ColumnsInv, RowsOK, CountsOK

LEMMA OtherColumns ==
    ASSUME ColumnsInv, NEW i \in Interface, NEW c, OtherSession(i, c)
    PROVE  RowsOK' /\ PortsOK' /\ CountsOK'
<1>1. /\ prompt.open /\ Apply(i, c) /\ prompt.others < MaxOthers
      /\ prompt' = [prompt EXCEPT !.others = @ + 1]
  BY DEF OtherSession
<1>2. /\ \A j \in Interface : RowOK(j, uc'[j])
      /\ PortsOK' /\ undone' \subseteq Splittable /\ UNCHANGED error
  BY <1>1, ApplyColumns
<1>3. prompt = [open |-> TRUE, no |-> prompt.no, others |-> prompt.others,
                uc |-> prompt.uc, flow |-> prompt.flow]
  BY <1>1 DEF ColumnsInv, SessionInv, PromptInv, NoPrompt
<1>4. prompt'.open /\ prompt'.uc = prompt.uc /\ prompt'.others = prompt.others + 1
  BY <1>1, <1>3
<1>5. prompt.others + 1 \in 0..MaxOthers
  BY <1>1, CliAssumption DEF ColumnsInv, CountsOK
<1> QED BY <1>1, <1>2, <1>4, <1>5 DEF ColumnsInv, RowsOK, CountsOK

(* "interface", which may add a port, and "lag".                           *)
LEMMA SelectColumns ==
    ASSUME ColumnsInv, NEW i \in Interface, vtysh_interface(i)
    PROVE  /\ RowsOK' /\ PortsOK' /\ CountsOK'
           /\ \/ UNCHANGED <<ports, members>>
              \/ ports' = ports \cup {i} /\ members' = [members EXCEPT ![i] = <<i>>]
<1>1. /\ UNCHANGED <<uc, error, prompt, undone>>
      /\ \/ UNCHANGED <<ports, members, padmin>>
         \/ /\ ports' = ports \cup {i}
            /\ members' = [members EXCEPT ![i] = <<i>>]
            /\ \E a \in {"absent", uc[i].admin} : padmin' = [padmin EXCEPT ![i] = a]
  BY DEF vtysh_interface, default_port_add
<1>2. RowsOK' /\ CountsOK'
  BY <1>1 DEF ColumnsInv, RowsOK, CountsOK
<1>3. CASE UNCHANGED <<ports, members, padmin>>
  BY <1>2, <1>3 DEF ColumnsInv, PortsOK, MembersOf
<1>4. CASE /\ ports' = ports \cup {i}
           /\ members' = [members EXCEPT ![i] = <<i>>]
           /\ \E a \in {"absent", uc[i].admin} : padmin' = [padmin EXCEPT ![i] = a]
  <2>1. uc[i].admin \in {"absent", "up", "down"}
    BY DEF ColumnsInv, SessionInv, RowsInv, Pausing, IsConfig
  <2>2. PICK a \in {"absent", "up", "down"} : padmin' = [padmin EXCEPT ![i] = a]
    BY <1>4, <2>1
  <2>3. i \in PortName /\ i \notin Lag
    BY CliAssumption DEF PortName
  <2>4. IsList(<<i>>, MembersOf(i))
    <3>1. <<i>> \in Seq({i}) /\ Len(<<i>>) = 1
      OBVIOUS
    <3>2. \A j, k \in 1..1 : j = k
      OBVIOUS
    <3> QED BY <2>3, <3>1, <3>2 DEF IsList, MembersOf
  <2>5. padmin = [p \in PortName |-> padmin[p]]
    BY DEF ColumnsInv, SessionInv, AdminInv
  <2>6. \A p \in PortName : members'[p] = IF p = i THEN <<i>> ELSE members[p]
    BY <1>4, <2>3 DEF ColumnsInv, PortsOK
  <2>7. \A p \in PortName : padmin'[p] = IF p = i THEN a ELSE padmin[p]
    BY <2>2, <2>3, <2>5
  <2>8. /\ ports' \subseteq PortName /\ Lag \subseteq ports'
        /\ members' = [p \in PortName |-> members'[p]]
    BY <1>4, <2>3 DEF ColumnsInv, PortsOK
  <2>9. PortsOK'
    BY <1>4, <2>4, <2>6, <2>7, <2>8 DEF ColumnsInv, PortsOK, MembersOf, PortName
  <2> QED BY <1>2, <1>4, <2>9
<1> QED BY <1>1, <1>3, <1>4

(* What is in a port after the selected interface has joined LAG l.        *)
LEMMA JoinIs ==
    ASSUME ColumnsInv, NEW l \in Lag, JoinLag(l), NEW p \in PortName
    PROVE  /\ IsList(members'[p], MembersOf(p))
           /\ \A x : In(x, members'[p]) <=>
                 IF p = l THEN In(x, members[p]) \/ x = sel
                 ELSE In(x, members[p]) /\ x \in Interface \ {sel}
<1>1. PICK k \in 1..(Len(members[l]) + 1) :
         members' = [q \in PortName |->
                        IF q = l THEN InsertAt(members[l], k, sel)
                        ELSE OnlyIn(members[q], Interface \ {sel})]
  BY DEF JoinLag
<1>2. sel \in LagMembers[l] /\ l \in PortName /\ l \in ports /\ ~In(sel, members[l])
  <2>1. sel \in LagMembers[l] /\ l \notin PortOf(sel)
    BY DEF JoinLag
  <2>2. IsList(members[l], MembersOf(l)) /\ l \in ports
    BY DEF ColumnsInv, PortsOK, PortName
  <2>3. DOMAIN members[l] = 1..Len(members[l])
    BY <2>2 DEF IsList
  <2> QED BY <2>1, <2>2, <2>3 DEF PortOf, In, PortName
<1>3. IsList(members[p], MembersOf(p))
  BY DEF ColumnsInv, PortsOK
<1>4. CASE p = l
  <2>1. members'[p] = InsertAt(members[p], k, sel) /\ k \in 1..(Len(members[p]) + 1)
    BY <1>1, <1>4
  <2>2. sel \in MembersOf(p)
    BY <1>2, <1>4 DEF MembersOf
  <2> QED BY <1>2, <1>3, <1>4, <2>1, <2>2, InsertIs
<1>5. CASE p # l
  <2> DEFINE K == Interface \ {sel}
  <2>1. members'[p] = OnlyIn(members[p], K)
    BY <1>1, <1>5
  <2>2. /\ IsList(OnlyIn(members[p], K), MembersOf(p))
        /\ \A x : In(x, OnlyIn(members[p], K)) <=> In(x, members[p]) /\ x \in K
    <3> HIDE DEF K
    <3> QED BY <1>3, OnlyInIs
  <2> QED BY <1>5, <2>1, <2>2
<1> QED BY <1>4, <1>5

LEMMA JoinColumns ==
    ASSUME ColumnsInv, NEW l \in Lag, JoinLag(l)
    PROVE  RowsOK' /\ PortsOK' /\ CountsOK'
<1>1. /\ UNCHANGED <<uc, error, sel, prompt, undone>> /\ sel \in LagMembers[l]
      /\ ports' = ports \ {sel} /\ padmin' = [padmin EXCEPT ![sel] = "absent"]
      /\ members' = [p \in PortName |-> members'[p]]
  BY DEF JoinLag
<1>2. sel \in Interface /\ sel \notin Lag /\ sel \in PortName
  BY <1>1, CliAssumption DEF PortName
<1>3. \A p \in PortName : padmin'[p] = IF p = sel THEN "absent" ELSE padmin[p]
  BY <1>1 DEF ColumnsInv, SessionInv, AdminInv
<1>4. ports' \subseteq PortName /\ Lag \subseteq ports'
  BY <1>1, <1>2 DEF ColumnsInv, PortsOK
<1>5. ASSUME NEW p \in PortName
      PROVE  /\ padmin'[p] \in {"absent", "up", "down"}
             /\ IsList(members'[p], MembersOf(p))
             /\ p \notin ports' => members'[p] = <<>> /\ padmin'[p] = "absent"
  <2>1. /\ IsList(members'[p], MembersOf(p))
        /\ \A x : In(x, members'[p]) =>
              IF p = l THEN In(x, members[p]) \/ x = sel
              ELSE In(x, members[p]) /\ x \in Interface \ {sel}
    BY JoinIs
  <2>2. padmin'[p] \in {"absent", "up", "down"}
    BY <1>3 DEF ColumnsInv, PortsOK
  <2>3. ASSUME p \notin ports' PROVE members'[p] = <<>> /\ padmin'[p] = "absent"
    <3>1. p # l /\ (p = sel \/ p \notin ports)
      BY <1>1, <1>4, <2>3
    <3>2. p # sel => members[p] = <<>> /\ padmin[p] = "absent"
      BY <3>1 DEF ColumnsInv, PortsOK
    <3>3. IsList(members[p], MembersOf(p))
      BY DEF ColumnsInv, PortsOK
    <3>4. p = sel => \A x : In(x, members[p]) => x = sel
      BY <1>2, <3>3 DEF MembersOf, IsList, In
    <3>5. \A x : ~In(x, members'[p])
      BY <2>1, <3>1, <3>2, <3>4, EmptyList
    <3> QED BY <1>3, <2>1, <3>1, <3>2, <3>5, NothingIn
  <2> QED BY <2>1, <2>2, <2>3
<1>6. PortsOK'
  BY <1>1, <1>4, <1>5 DEF PortsOK, MembersOf
<1> QED BY <1>1, <1>6 DEF ColumnsInv, RowsOK, CountsOK

(* An answer.                                                              *)
LEMMA GoneIs ==
    ASSUME ColumnsInv, prompt.open
    PROVE  /\ sel \in Splittable /\ ParentOf[sel] = NoInterface
           /\ Splittable \subseteq Interface
           /\ \A i \in Interface : ParentOf[i] # NoInterface => i \notin Splittable
           /\ Children(sel) \subseteq Interface /\ IsFiniteSet(Children(sel)) /\ IsFiniteSet({sel})
<1>1. sel \in Splittable
  BY DEF ColumnsInv, SessionInv, PromptInv, NoPrompt
<1>2. \A i \in Splittable : i \in Interface /\ \E c \in Interface : ParentOf[c] = i
  BY CliAssumption
<1>3. NoInterface \notin Interface
  BY CliAssumption
<1>4. \A i \in Splittable : ParentOf[i] = NoInterface
  BY <1>2, <1>3, CliAssumption
<1> QED BY <1>1, <1>2, <1>4, CliAssumption, FS_Subset, FS_Singleton DEF Children

LEMMA AnswerColumns ==
    ASSUME ColumnsInv, AnswerYes,
           NEW gone, gone = IF prompt.no THEN Children(sel) ELSE {sel}
    PROVE  /\ RowsOK' /\ PortsOK' /\ CountsOK'
           /\ ports' = ports \ gone
           /\ \A p \in PortName :
                 members'[p] = MembersLeftAfter(p, gone)
           /\ gone \subseteq Interface /\ IsFiniteSet(gone)
<1>1. /\ prompt.open /\ prompt.no \in BOOLEAN
      /\ \A i \in Interface : IsConfig(prompt.uc[i]) /\ IsConfig(uc[i])
  BY DEF AnswerYes, ColumnsInv, SessionInv, PromptInv, NoPrompt, Pausing, RowsInv
<1>2. /\ sel \in Splittable /\ ParentOf[sel] = NoInterface
      /\ Splittable \subseteq Interface
      /\ \A i \in Interface : ParentOf[i] # NoInterface => i \notin Splittable
      /\ Children(sel) \subseteq Interface /\ IsFiniteSet(Children(sel)) /\ IsFiniteSet({sel})
  BY <1>1, GoneIs
<1>3. gone \subseteq Interface /\ IsFiniteSet(gone)
  BY <1>2
<1>4. /\ ports' = ports \ gone
      /\ members' = [p \in PortName |-> MembersLeftAfter(p, gone)]
      /\ padmin' = [p \in PortName |-> IF p \in gone THEN "absent" ELSE padmin[p]]
  BY <1>1 DEF AnswerYes, handle_port_config, remove_port_and_references
<1>5. /\ prompt' = NoPrompt /\ UNCHANGED <<error, sel>>
      /\ undone' = undone \/ undone' = undone \cup {sel}
  BY DEF AnswerYes
<1>6. CountsOK'
  BY <1>2, <1>5 DEF CountsOK, ColumnsInv, NoPrompt
<1>7. ASSUME NEW i \in Interface PROVE RowOK(i, uc'[i])
  <2>1. PICK v : /\ v = prompt.uc[i] \/ v = uc[i]
                 /\ uc'[i] = IF i = sel THEN SplitRow(prompt.no, v)
                             ELSE IF prompt.no /\ ParentOf[i] = sel
                             THEN [v EXCEPT !.admin = "down"] ELSE uc[i]
    <3> DEFINE Old(stale) == {sel} \cup IF prompt.no THEN stale ELSE {}
               Read(stale) == [j \in Interface |-> IF j \in Old(stale) THEN prompt.uc[j] ELSE uc[j]]
    <3>1. PICK stale : uc' = [j \in Interface |->
                                 IF j = sel THEN SplitRow(prompt.no, Read(stale)[j])
                                 ELSE IF prompt.no /\ ParentOf[j] = sel
                                 THEN [Read(stale)[j] EXCEPT !.admin = "down"] ELSE uc[j]]
      BY Zenon DEF AnswerYes
    <3>2. PICK old, read : old = Old(stale) /\ read = Read(stale)
      OBVIOUS
    <3>3. /\ read = [j \in Interface |-> IF j \in old THEN prompt.uc[j] ELSE uc[j]]
          /\ uc' = [j \in Interface |->
                      IF j = sel THEN SplitRow(prompt.no, read[j])
                      ELSE IF prompt.no /\ ParentOf[j] = sel
                      THEN [read[j] EXCEPT !.admin = "down"] ELSE uc[j]]
      BY <3>1, <3>2, Zenon
    <3>4. PICK v : v = read[i]
      OBVIOUS
    <3>5. v = prompt.uc[i] \/ v = uc[i]
      BY <3>3, <3>4
    <3>6. uc'[i] = IF i = sel THEN SplitRow(prompt.no, v)
                   ELSE IF prompt.no /\ ParentOf[i] = sel
                   THEN [v EXCEPT !.admin = "down"] ELSE uc[i]
      BY <3>3, <3>4
    <3> QED BY <3>5, <3>6
  <2>2. RowOK(i, v) /\ RowOK(i, uc[i]) /\ IsConfig(v)
    BY <1>1, <2>1 DEF ColumnsInv, RowsOK
  <2>3. CASE i = sel
    <3>1. uc'[i] = [v EXCEPT !.lane_split = IF prompt.no THEN "absent" ELSE "split"]
      BY <2>1, <2>3 DEF SplitRow
    <3> QED BY <1>1, <1>2, <2>2, <2>3, <3>1 DEF RowOK, IsConfig
  <2>4. CASE i # sel /\ prompt.no /\ ParentOf[i] = sel
    <3>1. uc'[i] = [v EXCEPT !.admin = "down"]
      BY <2>1, <2>4
    <3> QED BY <2>2, <3>1 DEF RowOK, IsConfig
  <2>5. CASE i # sel /\ ~(prompt.no /\ ParentOf[i] = sel)
    BY <2>1, <2>2, <2>5
  <2> QED BY <2>3, <2>4, <2>5
<1>8. RowsOK'
  BY <1>5, <1>7 DEF RowsOK, NoPrompt
<1>9. gone \cap Lag = {} /\ gone \subseteq PortName
  BY <1>3, CliAssumption DEF PortName
<1>10. ASSUME NEW p \in PortName
       PROVE  /\ padmin'[p] \in {"absent", "up", "down"}
              /\ IsList(members'[p], MembersOf(p))
              /\ p \notin ports' => members'[p] = <<>> /\ padmin'[p] = "absent"
  <2>1. /\ IsList(members[p], MembersOf(p)) /\ padmin[p] \in {"absent", "up", "down"}
        /\ p \notin ports => members[p] = <<>> /\ padmin[p] = "absent"
    BY DEF ColumnsInv, PortsOK
  <2>2. /\ IsList(members'[p], MembersOf(p))
        /\ \A x : In(x, members'[p]) => In(x, members[p])
        /\ p \in gone => members'[p] = <<>>
    BY <1>3, <1>4, <2>1, MembersLeftAfterIs
  <2>3. p \notin ports /\ p \notin gone => members'[p] = <<>>
    BY <2>1, <2>2, EmptyList, NothingIn
  <2> QED BY <1>4, <2>1, <2>2, <2>3
<1>11. PortsOK'
  <2>1. ports' \subseteq PortName /\ Lag \subseteq ports'
    BY <1>4, <1>9 DEF ColumnsInv, PortsOK
  <2>2. members' = [p \in PortName |-> members'[p]]
    BY <1>4
  <2> QED BY <1>10, <2>1, <2>2 DEF PortsOK, MembersOf
<1> QED BY <1>3, <1>4, <1>6, <1>8, <1>11

LEMMA RestColumns ==
    ASSUME ColumnsInv,
           \/ \E no \in BOOLEAN : cli_intf_split(no)
           \/ no_vtysh_interface \/ AnswerNo \/ IntfdCatchesUp \/ UNCHANGED vars
    PROVE  RowsOK' /\ PortsOK' /\ CountsOK'
<1>1. /\ UNCHANGED <<uc, ports, members, padmin, undone>>
      /\ error' = error \/ error' \in [Interface -> BOOLEAN]
      /\ \/ UNCHANGED prompt \/ prompt' = NoPrompt
         \/ prompt'.open /\ prompt'.uc = uc /\ prompt'.others = 0
  <2>1. ASSUME NEW no, cli_intf_split(no)
        PROVE  /\ UNCHANGED <<uc, ports, members, padmin, undone, error>>
               /\ prompt'.open /\ prompt'.uc = uc /\ prompt'.others = 0
    BY <2>1 DEF cli_intf_split
  <2>2. CASE IntfdCatchesUp
    BY <2>2 DEF IntfdCatchesUp
  <2>3. CASE no_vtysh_interface \/ AnswerNo \/ UNCHANGED vars
    BY <2>3 DEF no_vtysh_interface, AnswerNo, vars
  <2> QED BY <2>1, <2>2, <2>3
<1>2. PortsOK'
  BY <1>1 DEF ColumnsInv, PortsOK, MembersOf
<1>3. CountsOK'
  <2>1. error' \in [Interface -> BOOLEAN] /\ undone' \subseteq Splittable
    BY <1>1 DEF ColumnsInv, CountsOK
  <2>2. prompt'.open => prompt'.others \in 0..MaxOthers
    BY <1>1, CliAssumption DEF ColumnsInv, CountsOK, NoPrompt
  <2> QED BY <2>1, <2>2 DEF CountsOK
<1>4. RowsOK'
  BY <1>1 DEF ColumnsInv, RowsOK, NoPrompt
<1> QED BY <1>2, <1>3, <1>4

LEMMA ColumnsStep ==
    ColumnsInv /\ [Next]_vars => ColumnsInv'
<1> SUFFICES ASSUME ColumnsInv, [Next]_vars PROVE ColumnsInv'
  OBVIOUS
<1>1. SessionInv'
  BY SessionStep DEF ColumnsInv
<1>2. RowsOK' /\ PortsOK' /\ CountsOK'
  <2>1. ASSUME NEW i \in Interface, vtysh_interface(i) PROVE RowsOK' /\ PortsOK' /\ CountsOK'
    BY <2>1, SelectColumns
  <2>2. ASSUME NEW c, Configure(c) PROVE RowsOK' /\ PortsOK' /\ CountsOK'
    BY <2>2, ConfigureColumns
  <2>3. CASE AnswerYes
    BY <2>3, AnswerColumns
  <2>4. ASSUME NEW i \in Interface, NEW c, OtherSession(i, c)
        PROVE  RowsOK' /\ PortsOK' /\ CountsOK'
    BY <2>4, OtherColumns
  <2>5. ASSUME NEW l \in Lag, JoinLag(l) PROVE RowsOK' /\ PortsOK' /\ CountsOK'
    BY <2>5, JoinColumns
  <2>6. CASE \/ \E no \in BOOLEAN : cli_intf_split(no)
             \/ no_vtysh_interface \/ AnswerNo \/ IntfdCatchesUp \/ UNCHANGED vars
    BY <2>6, RestColumns
  <2> QED BY <2>1, <2>2, <2>3, <2>4, <2>5, <2>6 DEF Next
<1> QED BY <1>1, <1>2 DEF ColumnsInv

LEMMA ColumnsAreInvariant ==
    Spec => []ColumnsInv
BY InitColumns, ColumnsStep, PTL DEF Spec

(* What the commands store is of the kind the readers expect: a speed is   *)
(* one the hardware lists, mtu is in range and never the default, only     *)
(* what can be split is split; a port that is gone (remove_port_and_       *)
(* references, "lag") has left no members and no admin state behind, and   *)
(* no interface is twice in a port.                                        *)
THEOREM CliTypeOK ==
    Spec => []TypeOK
<1>1. ColumnsInv => TypeOK
  <2> SUFFICES ASSUME ColumnsInv PROVE TypeOK
    OBVIOUS
  <2>1. uc = [i \in Interface |-> uc[i]]
    BY DEF ColumnsInv, SessionInv, RowsInv, IsMap
  <2>2. ASSUME NEW i \in Interface
        PROVE  uc[i] \in
          [admin : {"absent", "up", "down"}, autoneg : {"absent", "on", "off"},
           pause : {"absent", "rx", "tx", "rxtx"}, duplex : {"absent", "half"},
           mtu : {NoMtu} \cup (MtuRange \ {INTFD_DEFAULT_MTU}),
           speeds : {<<>>} \cup {<<s>> : s \in Range(HwOf[i].speeds)},
           lane_split : {"absent"} \cup IF i \in Splittable THEN {"split"} ELSE {}]
    <3>1. PICK u : u = uc[i]
      OBVIOUS
    <3>2. IsConfig(u) /\ RowOK(i, u)
      BY <3>1 DEF ColumnsInv, RowsOK, SessionInv, RowsInv, Pausing
    <3>3. u.mtu \in {NoMtu} \cup (MtuRange \ {INTFD_DEFAULT_MTU})
      BY <3>2 DEF IsConfig, RowOK
    <3> QED BY <3>1, <3>2, <3>3 DEF IsConfig, RowOK
  <2>3. flow \in [Interface -> SUBSET {"send", "receive"}]
    <3>1. flow = [i \in Interface |-> flow[i]]
      BY DEF ColumnsInv, SessionInv, RowsInv, IsMap
    <3>2. ASSUME NEW i \in Interface PROVE flow[i] \subseteq {"send", "receive"}
      <4>1. PICK u : u = uc[i]
        OBVIOUS
      <4>2. IsConfig(u) /\ flow[i] = Directions(u)
        BY <4>1 DEF ColumnsInv, SessionInv, RowsInv, Pausing
      <4>3. u.pause \in {"absent", "rx", "tx", "rxtx"}
        BY <4>2 DEF IsConfig
      <4> QED BY <4>2, <4>3 DEF Directions
    <3> QED BY <3>1, <3>2
  <2>4. ASSUME NEW p \in PortName
        PROVE  /\ padmin[p] \in {"absent", "up", "down"}
               /\ p \notin ports => members[p] = <<>> /\ padmin[p] = "absent"
               /\ IsInjective(members[p])
    <3>1. IsList(members[p], MembersOf(p))
      BY DEF ColumnsInv, PortsOK
    <3>2. IsInjective(members[p])
      BY <3>1 DEF IsList, IsInjective
    <3> QED BY <3>2 DEF ColumnsInv, PortsOK
  <2>5. /\ error \in [Interface -> BOOLEAN] /\ ports \subseteq PortName
        /\ sel \in Interface \cup {NoInterface} /\ undone \subseteq Splittable
    BY DEF ColumnsInv, CountsOK, PortsOK, SessionInv
  <2>6. prompt.open => sel \in Splittable /\ prompt.others \in 0..MaxOthers
    BY DEF ColumnsInv, CountsOK, SessionInv, PromptInv, NoPrompt
  <2> QED BY <2>1, <2>2, <2>3, <2>4, <2>5, <2>6 DEF TypeOK
<1> QED BY <1>1, ColumnsAreInvariant, PTL

-----------------------------------------------------------------------------
(* Lanes in use.  A lane the user has selected can be used.                *)

LanesInv ==
    /\ ColumnsInv
    /\ sel # NoInterface => MaySelect(sel, uc)
    /\ LaneInUseNeedsSplit

(* No member of a LAG has a name with which a lane's begins.               *)
LagsTellLanes ==
    \A l \in Lag, i \in Interface :
        ParentOf[i] # NoInterface => \A m \in LagMembers[l] : <<m, i>> \notin PrefixOf

LEMMA PortOfIs ==
    ASSUME ColumnsInv
    PROVE  \A i : PortOf(i) = {p \in ports : In(i, members[p])}
<1>1. \A p \in ports : DOMAIN members[p] = 1..Len(members[p])
  BY DEF ColumnsInv, PortsOK, IsList
<1> QED BY <1>1 DEF PortOf, In

LEMMA InitLanes ==
    Init => LanesInv
<1> SUFFICES ASSUME Init PROVE LanesInv
  OBVIOUS
<1>1. ColumnsInv
  BY InitColumns
<1>2. sel = NoInterface /\ \A i \in Interface : uc[i].admin = "absent"
  BY DEF Init, NoUserConfig
<1>3. \A p \in ports : members[p] = <<>>
  BY DEF Init, PortName
<1>4. \A i \in Interface : PortOf(i) = {}
  BY <1>1, <1>3, PortOfIs, EmptyList
<1> QED BY <1>1, <1>2, <1>4 DEF LanesInv, LaneInUseNeedsSplit

(* Steps that split nothing and join nothing: an interface comes into use  *)
(* only when it may be selected.                                           *)
LEMMA UseIsAllowed ==
    ASSUME LanesInv, ColumnsInv', NEW i \in Interface, MaySelect(i, uc),
           \A j \in Interface : uc'[j].lane_split = uc[j].lane_split,
           \A j \in Interface : j # i => uc'[j].admin = uc[j].admin \/ uc'[j].admin = "down",
           \A j \in Interface, p \in ports' :
              j # i /\ In(j, members'[p]) => p \in ports /\ In(j, members[p])
    PROVE  /\ LaneInUseNeedsSplit'
           /\ \A j \in Interface : MaySelect(j, uc) => MaySelect(j, uc')
<1>1. \A j \in Interface : MaySelect(j, uc') <=> MaySelect(j, uc)
  BY CliAssumption DEF MaySelect, is_parent_interface_split
<1>2. ASSUME NEW j \in Interface, j # i, PortOf(j)' # {} PROVE PortOf(j) # {}
  <2>1. PICK p \in PortOf(j)' : TRUE
    BY <1>2
  <2>2. p \in ports' /\ In(j, members'[p])
    <3>1. p \in ports' /\ DOMAIN members'[p] = 1..Len(members'[p])
      BY <2>1 DEF PortOf, ColumnsInv, PortsOK, IsList
    <3> QED BY <2>1, <3>1 DEF PortOf, In
  <2> QED BY <1>2, <2>2, PortOfIs DEF LanesInv
<1>3. ASSUME NEW j \in Interface,
             PortOf(j)' # {} \/ (ParentOf[j] # NoInterface /\ uc'[j].admin = "up")
      PROVE  MaySelect(j, uc')
  <2>1. CASE j = i
    BY <1>1, <2>1
  <2>2. CASE j # i
    <3>1. PortOf(j) # {} \/ (ParentOf[j] # NoInterface /\ uc[j].admin = "up")
      BY <1>2, <1>3, <2>2
    <3> QED BY <1>1, <3>1 DEF LanesInv, LaneInUseNeedsSplit
  <2> QED BY <2>1, <2>2
<1> QED BY <1>1, <1>3 DEF LaneInUseNeedsSplit

LEMMA CommandLanes ==
    ASSUME LanesInv, ColumnsInv', NEW i \in Interface, NEW c, Apply(i, c), MaySelect(i, uc)
    PROVE  LanesInv'
<1>1. /\ \A j \in Interface : uc'[j].lane_split = uc[j].lane_split
      /\ \A j \in Interface : j # i => uc'[j] = uc[j]
      /\ UNCHANGED <<sel, ports, members>>
  BY ApplyColumns DEF LanesInv
<1>2. /\ LaneInUseNeedsSplit'
      /\ \A j \in Interface : MaySelect(j, uc) => MaySelect(j, uc')
  BY <1>1, UseIsAllowed
<1> QED BY <1>1, <1>2 DEF LanesInv, ColumnsInv, SessionInv

LEMMA SelectLanes ==
    ASSUME LanesInv, ColumnsInv', NEW i \in Interface, vtysh_interface(i)
    PROVE  LanesInv'
<1>1. /\ MaySelect(i, uc) /\ UNCHANGED uc /\ sel' = i
  BY DEF vtysh_interface
<1>2. \/ UNCHANGED <<ports, members>>
      \/ ports' = ports \cup {i} /\ members' = [members EXCEPT ![i] = <<i>>]
  BY SelectColumns DEF LanesInv
<1>3. i \in PortName /\ members = [p \in PortName |-> members[p]] /\ ports \subseteq PortName
  BY DEF LanesInv, ColumnsInv, PortsOK, PortName
<1>4. \A j : In(j, <<i>>) => j = i
  <2>1. Len(<<i>>) = 1 /\ \A k \in 1..1 : <<i>>[k] = i
    OBVIOUS
  <2> QED BY <2>1 DEF In
<1>5. ASSUME NEW j \in Interface, NEW p \in ports', j # i, In(j, members'[p])
      PROVE  p \in ports /\ In(j, members[p])
  BY <1>2, <1>3, <1>4, <1>5
<1>6. /\ LaneInUseNeedsSplit'
      /\ \A j \in Interface : MaySelect(j, uc) => MaySelect(j, uc')
  BY <1>1, <1>5, UseIsAllowed
<1> QED BY <1>1, <1>6 DEF LanesInv

LEMMA JoinLanes ==
    ASSUME LanesInv, ColumnsInv', NEW l \in Lag, JoinLag(l)
    PROVE  LanesInv'
<1>1. UNCHANGED <<uc, sel>> /\ ports' = ports \ {sel} /\ sel \in LagMembers[l]
  BY DEF JoinLag
<1>2. sel \in Interface /\ sel # NoInterface /\ MaySelect(sel, uc)
  BY <1>1, CliAssumption DEF LanesInv
<1>3. ASSUME NEW j \in Interface, NEW p \in ports', j # sel, In(j, members'[p])
      PROVE  p \in ports /\ In(j, members[p])
  <2>1. p \in ports /\ p \in PortName
    BY <1>1 DEF LanesInv, ColumnsInv, PortsOK
  <2>2. \A x : In(x, members'[p]) =>
           IF p = l THEN In(x, members[p]) \/ x = sel
           ELSE In(x, members[p]) /\ x \in Interface \ {sel}
    BY <2>1, JoinIs DEF LanesInv
  <2> QED BY <1>3, <2>1, <2>2
<1>4. /\ LaneInUseNeedsSplit'
      /\ \A j \in Interface : MaySelect(j, uc) => MaySelect(j, uc')
  BY <1>1, <1>2, <1>3, UseIsAllowed
<1> QED BY <1>1, <1>2, <1>4 DEF LanesInv

(* The answer splits the selected interface, or takes its lanes out of use *)
(* in the step in which it stops being split.                              *)
LEMMA AnswerLanes ==
    ASSUME LanesInv, ColumnsInv', AnswerYes, LagsTellLanes
    PROVE  LanesInv'
<1>1. /\ prompt.open /\ prompt.no \in BOOLEAN /\ UNCHANGED sel
      /\ sel \in Splittable /\ ParentOf[sel] = NoInterface /\ sel \in Interface
      /\ \A i \in Interface : IsConfig(uc[i]) /\ IsConfig(prompt.uc[i])
  <2>1. prompt.open /\ UNCHANGED sel
    BY DEF AnswerYes
  <2>2. sel \in Splittable /\ ParentOf[sel] = NoInterface /\ sel \in Interface
    BY <2>1, GoneIs DEF LanesInv
  <2>3. prompt.no \in BOOLEAN /\ \A i \in Interface : IsConfig(uc[i]) /\ IsConfig(prompt.uc[i])
    BY <2>1 DEF LanesInv, ColumnsInv, SessionInv, PromptInv, NoPrompt, RowsInv, Pausing
  <2> QED BY <2>1, <2>2, <2>3
<1> DEFINE gone == IF prompt.no THEN Children(sel) ELSE {sel}
<1>2. /\ ports' = ports \ gone
      /\ \A p \in PortName : members'[p] = MembersLeftAfter(p, gone)
      /\ gone \subseteq Interface /\ IsFiniteSet(gone)
  <2> HIDE DEF gone
  <2>1. gone = IF prompt.no THEN Children(sel) ELSE {sel}
    BY DEF gone
  <2> QED BY <2>1, AnswerColumns DEF LanesInv
<1>3. \A i \in Interface :
         \E v \in {prompt.uc[i], uc[i]} :
            uc'[i] = IF i = sel THEN SplitRow(prompt.no, v)
                     ELSE IF prompt.no /\ ParentOf[i] = sel
                     THEN [v EXCEPT !.admin = "down"] ELSE uc[i]
  BY DEF AnswerYes
<1>4. /\ \A i \in Interface : ParentOf[i] # sel /\ i # sel => uc'[i] = uc[i]
      /\ ~prompt.no => \A i \in Interface : i # sel => uc'[i] = uc[i]
      /\ prompt.no => \A i \in Interface : ParentOf[i] = sel => uc'[i].admin = "down"
      /\ ~prompt.no => uc'[sel].lane_split = "split"
  <2>1. \A i \in Interface : ParentOf[i] # sel /\ i # sel => uc'[i] = uc[i]
    BY <1>3
  <2>2. ~prompt.no => \A i \in Interface : i # sel => uc'[i] = uc[i]
    BY <1>3
  <2>3. ASSUME prompt.no, NEW i \in Interface, ParentOf[i] = sel PROVE uc'[i].admin = "down"
    <3>1. i # sel
      BY <1>1, <2>3, CliAssumption
    <3>2. PICK v \in {prompt.uc[i], uc[i]} : uc'[i] = [v EXCEPT !.admin = "down"]
      BY <1>3, <2>3, <3>1
    <3> QED BY <1>1, <3>2 DEF IsConfig
  <2>4. ASSUME ~prompt.no PROVE uc'[sel].lane_split = "split"
    <3>1. PICK v \in {prompt.uc[sel], uc[sel]} : uc'[sel] = SplitRow(prompt.no, v)
      BY <1>1, <1>3
    <3> QED BY <1>1, <2>4, <3>1 DEF IsConfig, SplitRow
  <2> QED BY <2>1, <2>2, <2>3, <2>4
<1>5. MaySelect(sel, uc')
  BY <1>1 DEF MaySelect
<1>6. ASSUME NEW j \in Interface, ParentOf[j] # sel \/ ~prompt.no, MaySelect(j, uc)
      PROVE  MaySelect(j, uc')
  <2>1. ParentOf[j] # NoInterface =>
           ParentOf[j] \in Interface /\ ParentOf[ParentOf[j]] = NoInterface
    BY CliAssumption
  <2>2. CASE ParentOf[j] = sel
    BY <1>4, <1>6, <2>2 DEF MaySelect, is_parent_interface_split
  <2>3. CASE ParentOf[j] # sel
    <3>1. ParentOf[j] # NoInterface => uc'[ParentOf[j]] = uc[ParentOf[j]]
      BY <1>1, <1>4, <2>1, <2>3, CliAssumption
    <3> QED BY <1>6, <3>1 DEF MaySelect
  <2> QED BY <2>2, <2>3
<1>7. ASSUME NEW j, PortOf(j)' # {} PROVE PortOf(j) # {}
  <2>1. PICK p : p \in ports' /\ p \in PortName /\ In(j, members'[p])
    <3>1. PICK p \in ports' : \E k \in DOMAIN members'[p] : members'[p][k] = j
      BY <1>7 DEF PortOf
    <3>2. p \in PortName /\ DOMAIN members'[p] = 1..Len(members'[p])
      BY <3>1 DEF ColumnsInv, PortsOK, IsList
    <3> QED BY <3>1, <3>2 DEF In
  <2>2. p \in ports /\ IsList(members[p], MembersOf(p))
    BY <1>2, <2>1 DEF LanesInv, ColumnsInv, PortsOK
  <2>3. In(j, members[p])
    <3> HIDE DEF gone
    <3> QED BY <1>2, <2>1, <2>2, MembersLeftAfterIs
  <2> QED BY <2>2, <2>3, PortOfIs DEF LanesInv
<1>8. ASSUME NEW j \in Interface, ParentOf[j] = sel, prompt.no PROVE PortOf(j)' = {}
  <2> SUFFICES ASSUME NEW p \in ports', NEW k \in DOMAIN members'[p], members'[p][k] = j
               PROVE  FALSE
    BY DEF PortOf
  <2>1. p \in PortName /\ DOMAIN members'[p] = 1..Len(members'[p])
    BY DEF ColumnsInv, PortsOK, IsList
  <2>2. In(j, members'[p]) /\ j \in gone /\ p \notin gone
    BY <1>2, <1>8, <2>1 DEF In, Children
  <2>3. IsList(members[p], MembersOf(p))
    BY <2>1 DEF LanesInv, ColumnsInv, PortsOK
  <2>4. /\ In(j, members[p])
        /\ ~NoPrefixOf(j, members[p])
    <3> HIDE DEF gone
    <3>1. /\ \A x : In(x, MembersLeftAfter(p, gone)) => In(x, members[p])
          /\ \A i \in gone : NoPrefixOf(i, members[p]) => ~In(i, MembersLeftAfter(p, gone))
      BY <1>2, <2>3, MembersLeftAfterIs
    <3>2. In(j, MembersLeftAfter(p, gone))
      BY <1>2, <2>1, <2>2
    <3> QED BY <2>2, <3>1, <3>2
  <2>5. CASE p \in Lag
    <3>1. \A m : In(m, members[p]) => m \in LagMembers[p]
      BY <2>3, <2>5 DEF IsList, In, MembersOf
    <3>2. ParentOf[j] # NoInterface
      BY <1>1, <1>8, CliAssumption
    <3> QED BY <2>4, <2>5, <3>1, <3>2 DEF LagsTellLanes, NoPrefixOf
  <2>6. CASE p \notin Lag
    <3>1. j = p
      BY <2>3, <2>4, <2>6 DEF IsList, In, MembersOf
    <3> QED BY <2>2, <3>1
  <2> QED BY <2>5, <2>6
<1>9. ASSUME NEW j \in Interface,
             PortOf(j)' # {} \/ (ParentOf[j] # NoInterface /\ uc'[j].admin = "up")
      PROVE  MaySelect(j, uc')
  <2>1. CASE j = sel
    BY <1>5, <2>1
  <2>2. CASE j # sel /\ ParentOf[j] = sel /\ prompt.no
    BY <1>4, <1>8, <1>9, <2>2
  <2>3. CASE j # sel /\ (ParentOf[j] # sel \/ ~prompt.no)
    <3>1. uc'[j] = uc[j]
      BY <1>4, <2>3
    <3>2. PortOf(j) # {} \/ (ParentOf[j] # NoInterface /\ uc[j].admin = "up")
      BY <1>7, <1>9, <3>1
    <3>3. MaySelect(j, uc)
      BY <3>2 DEF LanesInv, LaneInUseNeedsSplit
    <3> QED BY <1>6, <2>3, <3>3
  <2> QED BY <2>1, <2>2, <2>3
<1> QED BY <1>1, <1>5, <1>9 DEF LanesInv, LaneInUseNeedsSplit

LEMMA LanesStep ==
    ASSUME LagsTellLanes
    PROVE  LanesInv /\ [Next]_vars => LanesInv'
<1> SUFFICES ASSUME LanesInv, [Next]_vars PROVE LanesInv'
  OBVIOUS
<1>1. ColumnsInv'
  BY ColumnsStep DEF LanesInv
<1>2. ASSUME NEW i \in Interface, vtysh_interface(i) PROVE LanesInv'
  BY <1>1, <1>2, SelectLanes
<1>3. ASSUME NEW c, Configure(c) PROVE LanesInv'
  <2>1. sel \in Interface /\ Apply(sel, c) /\ MaySelect(sel, uc)
    BY <1>3 DEF Configure, LanesInv, ColumnsInv, SessionInv
  <2> QED BY <1>1, <2>1, CommandLanes
<1>4. CASE AnswerYes
  BY <1>1, <1>4, AnswerLanes
<1>5. ASSUME NEW i \in Interface, NEW c, OtherSession(i, c) PROVE LanesInv'
  <2>1. Apply(i, c) /\ MaySelect(i, uc)
    BY <1>5 DEF OtherSession
  <2> QED BY <1>1, <2>1, CommandLanes
<1>6. ASSUME NEW l \in Lag, JoinLag(l) PROVE LanesInv'
  BY <1>1, <1>6, JoinLanes
<1>7. CASE \/ \E no \in BOOLEAN : cli_intf_split(no)
           \/ no_vtysh_interface \/ AnswerNo \/ IntfdCatchesUp \/ UNCHANGED vars
  <2>1. UNCHANGED <<uc, ports, members>> /\ (sel' = sel \/ sel' = NoInterface)
    BY <1>7 DEF cli_intf_split, no_vtysh_interface, AnswerNo, IntfdCatchesUp, vars
  <2> QED BY <1>1, <2>1 DEF LanesInv, LaneInUseNeedsSplit, PortOf
<1> QED BY <1>2, <1>3, <1>4, <1>5, <1>6, <1>7 DEF Next

(* A lane is in a port, or not shut down, only while its parent is split,  *)
(* whatever two sessions do around the prompt of "split".  It takes that   *)
(* no member of a LAG has a name with which a lane's begins: otherwise     *)
(* remove_port_and_references can remove that member and pass over the     *)
(* lane, which is then left in the LAG.                                    *)
THEOREM LanesNeedSplit ==
    ASSUME LagsTellLanes
    PROVE  Spec => []LaneInUseNeedsSplit
<1>1. LanesInv => LaneInUseNeedsSplit
  BY DEF LanesInv
<1>2. LanesInv /\ [Next]_vars => LanesInv'
  BY LanesStep
<1> QED BY <1>1, <1>2, InitLanes, PTL DEF Spec

-----------------------------------------------------------------------------
(* The order of the rows.                                                  *)

Before(a, b) == compare_nodes_by_interface_name_and_tag(a, b) < 0

(* What compare_nodes_by_interface_name_and_tag says, in one line for each *)
(* of the pairs of kinds.                                                  *)
LEMMA BeforeIs ==
    ASSUME NEW a \in NameForm, NEW b \in NameForm
    PROVE  /\ a.kind \in {"bridge_normal", "number", "named"}
           /\ a.kind = "number" =>
                 /\ a.id \in Nat /\ a.ext \in Nat /\ a.sub \in Nat
                 /\ a = [kind |-> "number", id |-> a.id, ext |-> a.ext, sub |-> a.sub]
           /\ a.kind = "named" =>
                 /\ a.rank \in Nat /\ a.tag \in Nat
                 /\ a = [kind |-> "named", rank |-> a.rank, tag |-> a.tag]
           /\ a.kind = "bridge_normal" => a = [kind |-> "bridge_normal"]
           /\ a.kind = "bridge_normal" => Before(a, b)
           /\ a.kind # "bridge_normal" /\ b.kind = "bridge_normal" => ~Before(a, b)
           /\ a.kind = "number" /\ b.kind = "named" => Before(a, b)
           /\ a.kind = "named" /\ b.kind = "number" => ~Before(a, b)
           /\ a.kind = "number" /\ b.kind = "number" =>
                 (Before(a, b) <=> \/ a.id < b.id
                                   \/ a.id = b.id /\ a.ext < b.ext
                                   \/ a.id = b.id /\ a.ext = b.ext /\ a.sub < b.sub)
           /\ a.kind = "named" /\ b.kind = "named" =>
                 (Before(a, b) <=> a.rank < b.rank \/ (a.rank = b.rank /\ a.tag < b.tag))
<1>1. \A x \in NameForm :
         /\ x.kind \in {"bridge_normal", "number", "named"}
         /\ x.kind = "number" =>
               /\ x.id \in Nat /\ x.ext \in Nat /\ x.sub \in Nat
               /\ x = [kind |-> "number", id |-> x.id, ext |-> x.ext, sub |-> x.sub]
         /\ x.kind = "named" =>
               /\ x.rank \in Nat /\ x.tag \in Nat
               /\ x = [kind |-> "named", rank |-> x.rank, tag |-> x.tag]
         /\ x.kind = "bridge_normal" => x = [kind |-> "bridge_normal"]
  BY DEF NameForm
<1>2. /\ a.kind = "bridge_normal" => Before(a, b)
      /\ a.kind # "bridge_normal" /\ b.kind = "bridge_normal" => ~Before(a, b)
      /\ a.kind = "number" /\ b.kind = "named" => Before(a, b)
      /\ a.kind = "named" /\ b.kind = "number" => ~Before(a, b)
  BY <1>1 DEF Before, compare_nodes_by_interface_name_and_tag
<1>3. ASSUME a.kind = "number", b.kind = "number"
      PROVE  Before(a, b) <=> \/ a.id < b.id
                              \/ a.id = b.id /\ a.ext < b.ext
                              \/ a.id = b.id /\ a.ext = b.ext /\ a.sub < b.sub
  <2>1. Before(a, b) <=> compare_both_intf_numbers(a, b) < 0
    BY <1>3 DEF Before, compare_nodes_by_interface_name_and_tag
  <2> QED BY <1>1, <1>3, <2>1 DEF compare_both_intf_numbers, Sign
<1>4. ASSUME a.kind = "named", b.kind = "named"
      PROVE  Before(a, b) <=> a.rank < b.rank \/ (a.rank = b.rank /\ a.tag < b.tag)
  <2>1. Before(a, b) <=> compare_both_proper_intf_names(a, b) < 0
    BY <1>4 DEF Before, compare_nodes_by_interface_name_and_tag
  <2> QED BY <1>1, <1>4, <2>1 DEF compare_both_proper_intf_names, Sign
<1> QED BY <1>1, <1>2, <1>3, <1>4

RowOrder == {r \in Interface \X Interface : Before(NameOf[r[1]], NameOf[r[2]])}

LEMMA NamesAreOrdered ==
    /\ \A a, b \in NameForm : a # b => Before(a, b) \/ Before(b, a)
    /\ \A a, b, c \in NameForm : Before(a, b) /\ Before(b, c) => Before(a, c)
<1>1. ASSUME NEW a \in NameForm, NEW b \in NameForm, a # b PROVE Before(a, b) \/ Before(b, a)
  <2>1. /\ a.kind = "bridge_normal" => Before(a, b)
        /\ b.kind = "bridge_normal" => Before(b, a)
        /\ a.kind = "number" /\ b.kind = "named" => Before(a, b)
        /\ b.kind = "number" /\ a.kind = "named" => Before(b, a)
    BY BeforeIs
  <2>2. CASE a.kind = "number" /\ b.kind = "number"
    <3>1. /\ a.id \in Nat /\ a.ext \in Nat /\ a.sub \in Nat
          /\ a = [kind |-> "number", id |-> a.id, ext |-> a.ext, sub |-> a.sub]
          /\ b.id \in Nat /\ b.ext \in Nat /\ b.sub \in Nat
          /\ b = [kind |-> "number", id |-> b.id, ext |-> b.ext, sub |-> b.sub]
      BY <2>2, BeforeIs
    <3>2. a.id # b.id \/ a.ext # b.ext \/ a.sub # b.sub
      BY <1>1, <3>1
    <3>3. /\ Before(a, b) <=> \/ a.id < b.id
                              \/ a.id = b.id /\ a.ext < b.ext
                              \/ a.id = b.id /\ a.ext = b.ext /\ a.sub < b.sub
          /\ Before(b, a) <=> \/ b.id < a.id
                              \/ b.id = a.id /\ b.ext < a.ext
                              \/ b.id = a.id /\ b.ext = a.ext /\ b.sub < a.sub
      BY <2>2, BeforeIs
    <3> QED BY <3>1, <3>2, <3>3
  <2>3. CASE a.kind = "named" /\ b.kind = "named"
    <3>1. /\ a.rank \in Nat /\ a.tag \in Nat
          /\ a = [kind |-> "named", rank |-> a.rank, tag |-> a.tag]
          /\ b.rank \in Nat /\ b.tag \in Nat
          /\ b = [kind |-> "named", rank |-> b.rank, tag |-> b.tag]
      BY <2>3, BeforeIs
    <3>2. a.rank # b.rank \/ a.tag # b.tag
      BY <1>1, <3>1
    <3>3. /\ Before(a, b) <=> a.rank < b.rank \/ (a.rank = b.rank /\ a.tag < b.tag)
          /\ Before(b, a) <=> b.rank < a.rank \/ (b.rank = a.rank /\ b.tag < a.tag)
      BY <2>3, BeforeIs
    <3> QED BY <3>1, <3>2, <3>3
  <2>4. /\ a.kind \in {"bridge_normal", "number", "named"}
        /\ b.kind \in {"bridge_normal", "number", "named"}
    BY BeforeIs
  <2> QED BY <2>1, <2>2, <2>3, <2>4
<1>2. ASSUME NEW a \in NameForm, NEW b \in NameForm, NEW c \in NameForm, Before(a, b), Before(b, c)
      PROVE  Before(a, c)
  <2>1. \A x, y \in NameForm :
           /\ x.kind \in {"bridge_normal", "number", "named"}
           /\ x.kind = "bridge_normal" => Before(x, y)
           /\ x.kind # "bridge_normal" /\ y.kind = "bridge_normal" => ~Before(x, y)
           /\ x.kind = "number" /\ y.kind = "named" => Before(x, y)
           /\ x.kind = "named" /\ y.kind = "number" => ~Before(x, y)
    BY BeforeIs
  <2>2. CASE a.kind = "number" /\ b.kind = "number" /\ c.kind = "number"
    <3>1. \A x \in {a, b, c} : x.id \in Nat /\ x.ext \in Nat /\ x.sub \in Nat
      BY <2>2, BeforeIs
    <3>2. \A x, y \in {a, b, c} :
             Before(x, y) <=> \/ x.id < y.id
                              \/ x.id = y.id /\ x.ext < y.ext
                              \/ x.id = y.id /\ x.ext = y.ext /\ x.sub < y.sub
      BY <2>2, BeforeIs
    <3> QED BY <1>2, <3>1, <3>2
  <2>3. CASE a.kind = "named" /\ b.kind = "named" /\ c.kind = "named"
    <3>1. \A x \in {a, b, c} : x.rank \in Nat /\ x.tag \in Nat
      BY <2>3, BeforeIs
    <3>2. \A x, y \in {a, b, c} :
             Before(x, y) <=> x.rank < y.rank \/ (x.rank = y.rank /\ x.tag < y.tag)
      BY <2>3, BeforeIs
    <3> QED BY <1>2, <3>1, <3>2
  <2> QED BY <1>2, <2>1, <2>2, <2>3
<1> QED BY <1>1, <1>2

(* sort_interface lists every interface once, and each before its lanes.   *)
LEMMA SortIs ==
    /\ Cardinality(Interface) \in Nat
    /\ sort_interface \in [1..Cardinality(Interface) -> Interface]
    /\ IsList(sort_interface, Interface) /\ Len(sort_interface) = Cardinality(Interface)
    /\ \A i \in Interface : In(i, sort_interface)
    /\ \A j, k \in 1..Cardinality(Interface) :
          ParentOf[sort_interface[k]] = sort_interface[j] => j < k
<1> DEFINE n == Cardinality(Interface)
           Sorted(s) == /\ IsInjective(s)
                        /\ \A j, k \in DOMAIN s : j < k => Before(NameOf[s[j]], NameOf[s[k]])
<1>1. n \in Nat /\ IsFiniteSet(Interface)
  BY FS_CardinalityType, CliAssumption
<1>2. \A i \in Interface : NameOf[i] \in NameForm
  BY CliAssumption
<1>3. \A i, j \in Interface : i # j => NameOf[i] # NameOf[j]
  BY CliAssumption DEF IsInjective
<1>4. KeepLoop!StrictOrder(RowOrder, Interface)
  <2>1. \A i, j \in Interface : <<i, j>> \in RowOrder <=> Before(NameOf[i], NameOf[j])
    BY DEF RowOrder
  <2>2. \A i, j \in Interface : i # j => <<i, j>> \in RowOrder \/ <<j, i>> \in RowOrder
    BY <1>2, <1>3, <2>1, NamesAreOrdered
  <2>3. \A i, j, k \in Interface :
           <<i, j>> \in RowOrder /\ <<j, k>> \in RowOrder => <<i, k>> \in RowOrder
    BY <1>2, <2>1, NamesAreOrdered
  <2> QED BY <2>2, <2>3 DEF KeepLoop!StrictOrder
<1>5. \E s : KeepLoop!Lists(s, Interface) /\ KeepLoop!InOrder(s, Interface, RowOrder)
  <2>1. KeepLoop!IsFiniteSet(Interface)
    BY <1>1 DEF KeepLoop!IsFiniteSet, IsFiniteSet
  <2> QED BY <1>4, <2>1, KeepLoop!CanBeSorted
<1>6. KeepLoop!Cardinality(Interface) = n
  BY DEF KeepLoop!Cardinality, Cardinality
<1>7. \E s \in [1..n -> Interface] : Sorted(s)
  <2>1. PICK s : KeepLoop!Lists(s, Interface) /\ KeepLoop!InOrder(s, Interface, RowOrder)
    BY <1>5
  <2>2. s \in [1..n -> Interface] /\ IsInjective(s)
    BY <1>6, <2>1 DEF KeepLoop!Lists, IsInjective
  <2>3. \A j, k \in DOMAIN s : j < k => Before(NameOf[s[j]], NameOf[s[k]])
    BY <1>6, <2>1, <2>2 DEF KeepLoop!InOrder, RowOrder
  <2> QED BY <2>2, <2>3
<1>8. sort_interface = CHOOSE s \in [1..n -> Interface] : Sorted(s)
  BY DEF sort_interface, Before
<1> HIDE DEF Sorted
<1>9. sort_interface \in [1..n -> Interface] /\ Sorted(sort_interface)
  BY <1>7, <1>8
<1> DEFINE s == sort_interface
<1>10. \A j, k \in 1..n : (s[j] = s[k] => j = k)
                           /\ (j < k => Before(NameOf[s[j]], NameOf[s[k]]))
  BY <1>9 DEF Sorted, IsInjective
<1>11. s \in Seq(Interface) /\ Len(s) = n
  BY <1>1, <1>9
<1> HIDE DEF s
<1>12. IsList(s, Interface)
  BY <1>10, <1>11 DEF IsList
<1>13. \A i \in Interface : \E k \in 1..n : s[k] = i
  <2>1. s \in Injection(1..n, Interface)
    BY <1>9, <1>10 DEF Injection, IsInjective, s
  <2>2. Cardinality(1..n) = n
    BY <1>1, FS_Interval
  <2>3. s \in Surjection(1..n, Interface)
    BY <1>1, <2>1, <2>2, FS_Injection
  <2> QED BY <2>3 DEF Surjection
<1>14. ASSUME NEW j \in 1..n, NEW k \in 1..n, ParentOf[s[k]] = s[j] PROVE j < k
  <2>1. s[j] \in Interface /\ s[k] \in Interface
    BY <1>9 DEF s
  <2>2. /\ ParentOf[s[k]] # NoInterface /\ ParentOf[ParentOf[s[k]]] = NoInterface
        /\ LanesFollow(s[k])
    BY <1>14, <2>1, CliAssumption
  <2>3. s[j] # s[k]
    BY <1>14, <2>2
  <2> DEFINE a == NameOf[s[j]]
             b == NameOf[s[k]]
  <2>4. a.kind = "number" /\ b.kind = "number" /\ a.id = b.id /\ a.ext < b.ext
    BY <1>14, <2>2 DEF LanesFollow
  <2>5. a \in NameForm /\ b \in NameForm
    BY <1>2, <2>1
  <2> HIDE DEF a, b
  <2>6. /\ b.id \in Nat /\ a.id \in Nat /\ a.ext \in Nat /\ b.ext \in Nat
        /\ Before(b, a) <=> \/ b.id < a.id
                            \/ b.id = a.id /\ b.ext < a.ext
                            \/ b.id = a.id /\ b.ext = a.ext /\ b.sub < a.sub
    BY <2>4, <2>5, BeforeIs
  <2>7. ~Before(b, a)
    BY <2>4, <2>6
  <2> QED BY <1>10, <2>3, <2>7, <1>1 DEF a, b
<1> QED BY <1>1, <1>9, <1>11, <1>12, <1>13, <1>14 DEF s, In

-----------------------------------------------------------------------------
(* Entering commands: those of "show running-config" (shown is FALSE) or   *)
(* those of "show running-config interface", which has more of them.       *)

EnterStep(shown, r, c) == IF shown THEN EnterShown(r, c) ELSE Enter(r, c)
EnterLoop == INSTANCE Loops WITH Step <- EnterStep

Speeds == UNION {Range(HwOf[i].speeds) : i \in Interface}

(* The commands printed for a user_config, ...                             *)
RowCommands ==
    {Cmd("shutdown", "", TRUE), Cmd("split", "", FALSE), Cmd("duplex", "half", FALSE),
     ReceiveOn, SendOn, Cmd("autonegotiation", "off", FALSE)}
    \cup {CmdN("speed", s, FALSE) : s \in Speeds} \cup {CmdN("mtu", m, FALSE) : m \in MtuRange}

(* ... for other columns, ...                                              *)
QosValues == UNION {{qos[p][key] : key \in QosKeys} : p \in PortName}
QosCommands == UNION {{Cmd(k, v, FALSE) : v \in QosValues} : k \in QosKeys}

OtherCommands ==
    {Cmd("routing", "", TRUE)} \cup {Cmd("ip address", p, FALSE) : p \in PortName}
    \cup {Cmd("lag", l, FALSE) : l \in Lag}
    \cup QosCommands

(* ... and those that begin and end a section.                             *)
Heads == {Cmd("interface", i, FALSE) : i \in Interface}
Ends == {Cmd("exit", "", FALSE)} \cup {Cmd("interface lag", l, FALSE) : l \in Lag}

Commands(shown) ==
    RowCommands \cup Heads \cup IF shown THEN OtherCommands \cup Ends ELSE {}

(* The columns of a row, and what a row can be.                            *)
Row(a, n, p, d, m, s, l) ==
    [admin |-> a, autoneg |-> n, pause |-> p, duplex |-> d, mtu |-> m, speeds |-> s,
     lane_split |-> l]

Rows ==
    [admin : {"absent", "up", "down"}, autoneg : {"absent", "on", "off"},
     pause : {"absent", "rx", "tx", "rxtx"}, duplex : {"absent", "half"},
     mtu : {NoMtu} \cup MtuRange, speeds : {<<>>} \cup {<<s>> : s \in Speeds},
     lane_split : {"absent", "split"}]

States == [sel : Interface \cup {NoInterface}, uc : [Interface -> Rows]]

(* What a command makes of the row of the selected interface.              *)
EnterRow(i, c, u) ==
    IF c.name = "split" THEN IF i \in Splittable THEN SplitRow(c.no, u) ELSE u
    ELSE RowAfter(c, u, HwOf[i])

LEMMA CommandsAre ==
    ASSUME NEW c \in RowCommands
    PROVE  /\ c.name \in {"shutdown", "split", "duplex", "flowcontrol", "autonegotiation",
                          "speed", "mtu"}
           /\ c.name = "shutdown" => c.no = TRUE
           /\ c.name # "shutdown" => c.no = FALSE
           /\ c.name = "speed" => c.arg = "" /\ c.number \in Speeds
           /\ c.name = "mtu" => c.number \in MtuRange
           /\ c.name = "duplex" => c.arg = "half"
           /\ c.name = "autonegotiation" => c.arg = "off"
           /\ c.name = "flowcontrol" => c.arg \in {"receive", "send"}
<1>1. CASE c \in {CmdN("speed", s, FALSE) : s \in Speeds}
  <2>1. PICK s \in Speeds : c = [name |-> "speed", arg |-> "", number |-> s, no |-> FALSE]
    BY <1>1 DEF CmdN
  <2> QED BY <2>1
<1>2. CASE c \in {CmdN("mtu", m, FALSE) : m \in MtuRange}
  <2>1. PICK m \in MtuRange : c = [name |-> "mtu", arg |-> "", number |-> m, no |-> FALSE]
    BY <1>2 DEF CmdN
  <2> QED BY <2>1
<1>3. CASE c \in {Cmd("shutdown", "", TRUE), Cmd("split", "", FALSE), Cmd("duplex", "half", FALSE),
                  ReceiveOn, SendOn, Cmd("autonegotiation", "off", FALSE)}
  <2>1. \/ c = [name |-> "shutdown", arg |-> "", number |-> 0, no |-> TRUE]
        \/ c = [name |-> "split", arg |-> "", number |-> 0, no |-> FALSE]
        \/ c = [name |-> "duplex", arg |-> "half", number |-> 0, no |-> FALSE]
        \/ c = [name |-> "flowcontrol", arg |-> "receive", number |-> 0, no |-> FALSE]
        \/ c = [name |-> "flowcontrol", arg |-> "send", number |-> 0, no |-> FALSE]
        \/ c = [name |-> "autonegotiation", arg |-> "off", number |-> 0, no |-> FALSE]
    BY <1>3 DEF Cmd, ReceiveOn, SendOn
  <2>2. CASE c = [name |-> "shutdown", arg |-> "", number |-> 0, no |-> TRUE]
    BY <2>2
  <2>3. CASE c = [name |-> "split", arg |-> "", number |-> 0, no |-> FALSE]
    BY <2>3
  <2>4. CASE c = [name |-> "duplex", arg |-> "half", number |-> 0, no |-> FALSE]
    BY <2>4
  <2>5. CASE c = [name |-> "flowcontrol", arg |-> "receive", number |-> 0, no |-> FALSE]
    BY <2>5
  <2>6. CASE c = [name |-> "flowcontrol", arg |-> "send", number |-> 0, no |-> FALSE]
    BY <2>6
  <2>7. CASE c = [name |-> "autonegotiation", arg |-> "off", number |-> 0, no |-> FALSE]
    BY <2>7
  <2> QED BY <2>1, <2>2, <2>3, <2>4, <2>5, <2>6, <2>7
<1> QED BY <1>1, <1>2, <1>3 DEF RowCommands

(* ... and the others.                                                     *)
LEMMA OthersAre ==
    ASSUME NEW c
    PROVE  /\ c \in OtherCommands => c.name \in {"routing", "ip address", "lag"} \cup QosKeys
           /\ c \in Ends => c.name \in {"exit", "interface lag"}
           /\ c \in Heads => c.name = "interface" /\ c.arg \in Interface
<1>2. ASSUME c \in OtherCommands PROVE c.name \in {"routing", "ip address", "lag"} \cup QosKeys
  <2>1. CASE c \in {Cmd("routing", "", TRUE)}
    <3>1. c = [name |-> "routing", arg |-> "", number |-> 0, no |-> TRUE]
      BY <2>1 DEF Cmd
    <3> QED BY <3>1
  <2>2. CASE c \in {Cmd("ip address", p, FALSE) : p \in PortName}
    <3>1. PICK p : c = [name |-> "ip address", arg |-> p, number |-> 0, no |-> FALSE]
      BY <2>2 DEF Cmd
    <3> QED BY <3>1
  <2>3. CASE c \in {Cmd("lag", l, FALSE) : l \in Lag}
    <3>1. PICK l : c = [name |-> "lag", arg |-> l, number |-> 0, no |-> FALSE]
      BY <2>3 DEF Cmd
    <3> QED BY <3>1
  <2>4. CASE c \in QosCommands
    <3>1. PICK k, v : k \in QosKeys /\ c = [name |-> k, arg |-> v, number |-> 0, no |-> FALSE]
      BY <2>4 DEF QosCommands, Cmd
    <3> QED BY <3>1
  <2> QED BY <1>2, <2>1, <2>2, <2>3, <2>4 DEF OtherCommands
<1>3. ASSUME c \in Ends PROVE c.name \in {"exit", "interface lag"}
  <2>1. CASE c \in {Cmd("exit", "", FALSE)}
    <3>1. c = [name |-> "exit", arg |-> "", number |-> 0, no |-> FALSE]
      BY <2>1 DEF Cmd
    <3> QED BY <3>1
  <2>2. CASE c \in {Cmd("interface lag", l, FALSE) : l \in Lag}
    <3>1. PICK l : c = [name |-> "interface lag", arg |-> l, number |-> 0, no |-> FALSE]
      BY <2>2 DEF Cmd
    <3> QED BY <3>1
  <2> QED BY <1>3, <2>1, <2>2 DEF Ends
<1>4. ASSUME c \in Heads PROVE c.name = "interface" /\ c.arg \in Interface
  <2>1. PICK i \in Interface : c = [name |-> "interface", arg |-> i, number |-> 0, no |-> FALSE]
    BY <1>4 DEF Heads, Cmd
  <2> QED BY <2>1
<1> QED BY <1>2, <1>3, <1>4

LEMMA RowsAre ==
    ASSUME NEW u \in Rows
    PROVE  /\ u = Row(u.admin, u.autoneg, u.pause, u.duplex, u.mtu, u.speeds, u.lane_split)
           /\ u.admin \in {"absent", "up", "down"} /\ u.autoneg \in {"absent", "on", "off"}
           /\ u.pause \in {"absent", "rx", "tx", "rxtx"} /\ u.duplex \in {"absent", "half"}
           /\ u.mtu \in {NoMtu} \cup MtuRange /\ u.speeds \in {<<>>} \cup {<<s>> : s \in Speeds}
           /\ u.lane_split \in {"absent", "split"}
BY DEF Rows, Row

LEMMA EnterRowKeeps ==
    ASSUME NEW i \in Interface, NEW c \in RowCommands, NEW u \in Rows
    PROVE  EnterRow(i, c, u) \in Rows
<1>1. /\ c.name \in {"shutdown", "split", "duplex", "flowcontrol", "autonegotiation",
                     "speed", "mtu"}
      /\ c.no \in BOOLEAN
      /\ c.name = "speed" => c.number \in Speeds
      /\ c.name = "mtu" => c.number \in MtuRange
      /\ c.name = "duplex" => c.arg = "half"
      /\ c.name = "autonegotiation" => c.arg = "off"
  BY CommandsAre
<1>2. PICK v : v = EnterRow(i, c, u)
  OBVIOUS
<1>3. PICK hw : hw = HwOf[i]
  OBVIOUS
<1>4. \/ v = u
      \/ c.name = "split" /\ v = SplitRow(c.no, u)
      \/ c.name = "shutdown" /\ v = cli_intf_shutdown(c, u)
      \/ c.name = "speed" /\ v = cli_intf_speed(c, u, hw)
      \/ c.name = "mtu" /\ v = cli_intf_mtu(c, u)
      \/ c.name = "duplex" /\ v = cli_intf_duplex(c, u)
      \/ c.name = "flowcontrol" /\ v = cli_intf_flowcontrol(c, u)
      \/ c.name = "autonegotiation" /\ v = cli_intf_autoneg(c, u)
  BY <1>1, <1>2, <1>3 DEF EnterRow, RowAfter
<1>5. CASE c.name = "split" /\ v = SplitRow(c.no, u)
  BY <1>1, <1>2, <1>5 DEF SplitRow, Rows
<1>6. CASE c.name = "shutdown" /\ v = cli_intf_shutdown(c, u)
  BY <1>1, <1>2, <1>6 DEF cli_intf_shutdown, Rows
<1>7. CASE c.name = "speed" /\ v = cli_intf_speed(c, u, hw)
  BY <1>1, <1>2, <1>7 DEF cli_intf_speed, Rows
<1>8. CASE c.name = "mtu" /\ v = cli_intf_mtu(c, u)
  <2>1. PICK m : m = MtuOf(c, u.mtu)
    OBVIOUS
  <2>2. v = [u EXCEPT !.mtu = m]
    BY <1>8, <2>1 DEF cli_intf_mtu
  <2>3. m \in {NoMtu} \cup MtuRange
    BY <1>1, <2>1, RowsAre DEF MtuOf
  <2> QED BY <1>2, <2>2, <2>3 DEF Rows
<1>9. CASE c.name = "duplex" /\ v = cli_intf_duplex(c, u)
  BY <1>1, <1>2, <1>9 DEF cli_intf_duplex, Rows
<1>10. CASE c.name = "flowcontrol" /\ v = cli_intf_flowcontrol(c, u)
  <2>1. PICK p \in {"absent", "rx", "tx", "rxtx"} : v = [u EXCEPT !.pause = p]
    BY <1>10 DEF cli_intf_flowcontrol
  <2> QED BY <1>2, <2>1 DEF Rows
<1>11. CASE c.name = "autonegotiation" /\ v = cli_intf_autoneg(c, u)
  BY <1>1, <1>2, <1>11 DEF cli_intf_autoneg, Rows
<1> QED BY <1>2, <1>4, <1>5, <1>6, <1>7, <1>8, <1>9, <1>10, <1>11

(* The commands printed, on a row whose other columns they leave alone.    *)
Up == Cmd("shutdown", "", TRUE)
Split == Cmd("split", "", FALSE)
SetSpeed(x) == CmdN("speed", x, FALSE)
SetMtu(x) == CmdN("mtu", x, FALSE)
Half == Cmd("duplex", "half", FALSE)
Off == Cmd("autonegotiation", "off", FALSE)

LEMMA EnterUp ==
    ASSUME NEW i \in Interface, NEW a, NEW n, NEW p, NEW d, NEW m, NEW s, NEW l
    PROVE  EnterRow(i, Up, Row(a, n, p, d, m, s, l)) = Row("up", n, p, d, m, s, l)
BY DEF EnterRow, RowAfter, cli_intf_shutdown, Cmd, Row, Up

LEMMA EnterSplit ==
    ASSUME NEW i \in Splittable, NEW a, NEW n, NEW p, NEW d, NEW m, NEW s, NEW l
    PROVE  EnterRow(i, Split, Row(a, n, p, d, m, s, l)) = Row(a, n, p, d, m, s, "split")
BY DEF EnterRow, SplitRow, Cmd, Row, Split

LEMMA NotSplit ==
    ASSUME NEW a, NEW n, NEW p, NEW d, NEW m, NEW s
    PROVE  ~is_parent_interface_split(Row(a, n, p, d, m, s, "absent"))
BY DEF is_parent_interface_split, Row

LEMMA EnterSpeed ==
    ASSUME NEW i \in Interface, NEW a, NEW n, NEW p, NEW d, NEW m, NEW s,
           NEW x \in Range(HwOf[i].speeds)
    PROVE  EnterRow(i, SetSpeed(x), Row(a, n, p, d, m, s, "absent")) = Row(a, n, p, d, m, <<x>>, "absent")
<1>1. \E k \in DOMAIN HwOf[i].speeds : HwOf[i].speeds[k] = x
  BY DEF Range
<1>2. EnterRow(i, SetSpeed(x), Row(a, n, p, d, m, s, "absent"))
         = [Row(a, n, p, d, m, s, "absent") EXCEPT !.speeds = <<x>>]
  BY <1>1, NotSplit DEF EnterRow, RowAfter, cli_intf_speed, CmdN, SetSpeed
<1> QED BY <1>2 DEF Row

LEMMA EnterMtu ==
    ASSUME NEW i \in Interface, NEW a, NEW n, NEW p, NEW d, NEW m, NEW s,
           NEW x \in MtuRange \ {INTFD_DEFAULT_MTU}
    PROVE  EnterRow(i, SetMtu(x), Row(a, n, p, d, m, s, "absent")) = Row(a, n, p, d, x, s, "absent")
<1>1. MtuOf(SetMtu(x), m) = x
  BY DEF MtuOf, CmdN, SetMtu
<1>2. EnterRow(i, SetMtu(x), Row(a, n, p, d, m, s, "absent"))
         = cli_intf_mtu(SetMtu(x), Row(a, n, p, d, m, s, "absent"))
  BY NotSplit DEF EnterRow, RowAfter, CmdN, SetMtu
<1> QED BY <1>1, <1>2 DEF Row, cli_intf_mtu

LEMMA EnterHalf ==
    ASSUME NEW i \in Interface, NEW a, NEW n, NEW p, NEW d, NEW m, NEW s
    PROVE  EnterRow(i, Half, Row(a, n, p, d, m, s, "absent")) = Row(a, n, p, "half", m, s, "absent")
<1>1. EnterRow(i, Half, Row(a, n, p, d, m, s, "absent"))
         = [Row(a, n, p, d, m, s, "absent") EXCEPT !.duplex = "half"]
  BY NotSplit DEF EnterRow, RowAfter, cli_intf_duplex, Cmd, Half
<1> QED BY <1>1 DEF Row

LEMMA EnterReceive ==
    ASSUME NEW i \in Interface, NEW a, NEW n, NEW d, NEW m, NEW s
    PROVE  EnterRow(i, ReceiveOn, Row(a, n, "absent", d, m, s, "absent"))
              = Row(a, n, "rx", d, m, s, "absent")
<1> DEFINE r == Row(a, n, "absent", d, m, s, "absent")
<1>1. EnterRow(i, ReceiveOn, r) = cli_intf_flowcontrol(ReceiveOn, r)
  BY NotSplit DEF EnterRow, RowAfter, ReceiveOn, Cmd
<1>2. ~ReceiveOn.no /\ ReceiveOn.arg = "receive" /\ r.pause = "absent"
  BY DEF ReceiveOn, Cmd, Row
<1>3. cli_intf_flowcontrol(ReceiveOn, r) = [r EXCEPT !.pause = "rx"]
  BY <1>2 DEF cli_intf_flowcontrol
<1> QED BY <1>1, <1>3 DEF Row

LEMMA EnterSend ==
    ASSUME NEW i \in Interface, NEW a, NEW n, NEW p \in {"absent", "rx"}, NEW d, NEW m, NEW s
    PROVE  EnterRow(i, SendOn, Row(a, n, p, d, m, s, "absent"))
              = Row(a, n, IF p = "rx" THEN "rxtx" ELSE "tx", d, m, s, "absent")
<1> DEFINE r == Row(a, n, p, d, m, s, "absent")
<1>1. EnterRow(i, SendOn, r) = cli_intf_flowcontrol(SendOn, r)
  BY NotSplit DEF EnterRow, RowAfter, SendOn, Cmd
<1>2. ~SendOn.no /\ SendOn.arg = "send" /\ r.pause = p
  BY DEF SendOn, Cmd, Row
<1>3. cli_intf_flowcontrol(SendOn, r) = [r EXCEPT !.pause = IF p = "rx" THEN "rxtx" ELSE "tx"]
  BY <1>2 DEF cli_intf_flowcontrol
<1> QED BY <1>1, <1>3 DEF Row

LEMMA EnterOff ==
    ASSUME NEW i \in Interface, NEW a, NEW n, NEW p, NEW d, NEW m, NEW s
    PROVE  EnterRow(i, Off, Row(a, n, p, d, m, s, "absent")) = Row(a, "off", p, d, m, s, "absent")
<1>1. EnterRow(i, Off, Row(a, n, p, d, m, s, "absent"))
         = [Row(a, n, p, d, m, s, "absent") EXCEPT !.autoneg = "off"]
  BY NotSplit DEF EnterRow, RowAfter, cli_intf_autoneg, Cmd, Off
<1> QED BY <1>1 DEF Row

(* A split interface refuses all but shutdown and split.                   *)
LEMMA SplitRefuses ==
    ASSUME NEW i, NEW c \in RowCommands, c.name \notin {"shutdown", "split"}, NEW u,
           is_parent_interface_split(u)
    PROVE  EnterRow(i, c, u) = u
BY DEF EnterRow, RowAfter

(* What one command does.                                                  *)
LEMMA StepIs ==
    ASSUME NEW shown \in BOOLEAN, NEW r \in States, NEW c \in Commands(shown)
    PROVE  /\ EnterStep(shown, r, c) \in States
           /\ c \in RowCommands =>
                 EnterStep(shown, r, c) =
                    IF r.sel = NoInterface THEN r
                    ELSE [sel |-> r.sel, uc |-> [r.uc EXCEPT ![r.sel] = EnterRow(r.sel, c, @)]]
           /\ c \in OtherCommands => EnterStep(shown, r, c) = r
           /\ c \in Heads => EnterStep(shown, r, c) =
                                IF MaySelect(c.arg, r.uc) THEN [sel |-> c.arg, uc |-> r.uc] ELSE r
           /\ c \in Ends => EnterStep(shown, r, c) = [sel |-> NoInterface, uc |-> r.uc]
<1>1. /\ r = [sel |-> r.sel, uc |-> r.uc] /\ r.sel \in Interface \cup {NoInterface}
      /\ r.uc \in [Interface -> Rows]
  BY DEF States
<1>2. ASSUME c \in RowCommands
      PROVE  EnterStep(shown, r, c) =
                IF r.sel = NoInterface THEN r
                ELSE [sel |-> r.sel, uc |-> [r.uc EXCEPT ![r.sel] = EnterRow(r.sel, c, @)]]
  <2>1. c.name \in {"shutdown", "split", "duplex", "flowcontrol", "autonegotiation",
                    "speed", "mtu"}
    BY <1>2, CommandsAre
  <2>2. EnterStep(shown, r, c) = Enter(r, c)
    BY <2>1 DEF EnterStep, EnterShown, QosKeys
  <2>3. CASE r.sel = NoInterface
    BY <2>1, <2>2, <2>3 DEF Enter
  <2>4. CASE r.sel # NoInterface
    <3>1. r.sel \in Interface
      BY <1>1, <2>4
    <3>2. PICK i, g, v : i = r.sel /\ g = r.uc /\ v = EnterRow(i, c, g[i])
      OBVIOUS
    <3>3. \/ Enter(r, c) = [r EXCEPT !.uc[i] = v]
          \/ Enter(r, c) = r /\ v = g[i]
      BY <2>1, <2>4, <3>2 DEF Enter, EnterRow
    <3>4. [r EXCEPT !.uc[i] = v] = [sel |-> i, uc |-> [g EXCEPT ![i] = v]]
      BY <1>1, <3>2
    <3>5. v = g[i] => r = [sel |-> i, uc |-> [g EXCEPT ![i] = v]]
      BY <1>1, <3>1, <3>2
    <3> QED BY <2>2, <2>4, <3>2, <3>3, <3>4, <3>5
  <2> QED BY <2>3, <2>4
<1>3. ASSUME c \in OtherCommands, shown
      PROVE  EnterStep(shown, r, c) = r
  <2>1. c.name \in {"routing", "ip address", "lag"} \cup QosKeys
    BY <1>3, OthersAre
  <2> QED BY <1>3, <2>1 DEF EnterStep, EnterShown, QosKeys
<1>4. ASSUME c \in Heads
      PROVE  /\ EnterStep(shown, r, c) =
                   IF MaySelect(c.arg, r.uc) THEN [sel |-> c.arg, uc |-> r.uc] ELSE r
             /\ c.arg \in Interface
  <2>1. c.name = "interface" /\ c.arg \in Interface
    BY <1>4, OthersAre
  <2>2. EnterStep(shown, r, c) = Enter(r, c)
    BY <2>1 DEF EnterStep, EnterShown, QosKeys
  <2> QED BY <1>1, <2>1, <2>2 DEF Enter
<1>5. ASSUME c \in Ends, shown
      PROVE  EnterStep(shown, r, c) = [sel |-> NoInterface, uc |-> r.uc]
  <2>1. c.name \in {"exit", "interface lag"}
    BY <1>5, OthersAre
  <2>2. EnterShown(r, c) = [r EXCEPT !.sel = NoInterface]
    BY <2>1 DEF EnterShown, QosKeys
  <2> QED BY <1>1, <1>5, <2>2 DEF EnterStep
<1>6. c \in OtherCommands \/ c \in Ends => shown
  <2>1. /\ c \in RowCommands \cup Heads => c.name \in {"shutdown", "split", "duplex", "flowcontrol",
              "autonegotiation", "speed", "mtu", "interface"}
    BY CommandsAre, OthersAre
  <2>2. c \in OtherCommands \cup Ends => c.name \in {"exit", "interface lag", "routing", "ip address",
              "lag", "trust", "schedule", "cos", "dscp"}
    BY OthersAre DEF QosKeys
  <2> QED BY <2>1, <2>2 DEF Commands
<1>7. EnterStep(shown, r, c) \in States
  <2>1. c \in RowCommands \/ c \in OtherCommands \/ c \in Heads \/ c \in Ends
    BY DEF Commands
  <2>2. ASSUME c \in RowCommands PROVE EnterStep(shown, r, c) \in States
    <3>1. r.sel \in Interface => EnterRow(r.sel, c, r.uc[r.sel]) \in Rows
      BY <1>1, <2>2, EnterRowKeeps
    <3> QED BY <1>1, <1>2, <2>2, <3>1 DEF States
  <2>3. ASSUME c \in Heads PROVE EnterStep(shown, r, c) \in States
    BY <1>1, <1>4, <2>3 DEF States
  <2>4. ASSUME c \in Ends PROVE EnterStep(shown, r, c) \in States
    <3>1. EnterStep(shown, r, c) = [sel |-> NoInterface, uc |-> r.uc]
      BY <1>5, <1>6, <2>4
    <3> QED BY <1>1, <3>1 DEF States
  <2> QED BY <1>3, <1>6, <2>1, <2>2, <2>3, <2>4
<1> QED BY <1>2, <1>3, <1>4, <1>5, <1>6, <1>7

-----------------------------------------------------------------------------
(* Entering a list of commands.                                            *)

Entered(shown, r, list) == EnterLoop!Result(shown, r, list)

LEMMA EnteredIs ==
    ASSUME NEW shown \in BOOLEAN, NEW r \in States
    PROVE  /\ Entered(shown, r, <<>>) = r
           /\ \A c \in Commands(shown) : Entered(shown, r, <<c>>) = EnterStep(shown, r, c)
           /\ \A s, t \in Seq(Commands(shown)) :
                 /\ Entered(shown, r, s) \in States
                 /\ Entered(shown, r, s \o t) = Entered(shown, Entered(shown, r, s), t)
<1> DEFINE X == Commands(shown)
<1>1. \A q \in States, c \in X : EnterStep(shown, q, c) \in States
  BY StepIs
<1> HIDE DEF X
<1>2. Entered(shown, r, <<>>) = r
  BY <1>1, EnterLoop!ResultOfNone DEF Entered
<1>5. \A s \in Seq(X), c \in X :
         EnterLoop!Result(shown, r, Append(s, c)) = EnterStep(shown, EnterLoop!Result(shown, r, s), c)
  <2> DEFINE T == States
  <2>1. r \in T /\ \A q \in T, c \in X : EnterStep(shown, q, c) \in T
    BY <1>1
  <2> HIDE DEF T
  <2> QED BY <2>1, EnterLoop!ResultOfAppend
<1>3. ASSUME NEW c \in X PROVE Entered(shown, r, <<c>>) = EnterStep(shown, r, c)
  <2>1. <<c>> = Append(<<>>, c) /\ <<>> \in Seq(X)
    OBVIOUS
  <2> DEFINE s == <<>>
  <2>2. s \in Seq(X) /\ s = <<>>
    OBVIOUS
  <2> HIDE DEF s
  <2>3. EnterLoop!Result(shown, r, Append(s, c)) = EnterStep(shown, EnterLoop!Result(shown, r, s), c)
    BY <1>5, <2>2
  <2> QED BY <1>2, <2>1, <2>2, <2>3 DEF Entered
<1>4. ASSUME NEW s \in Seq(X), NEW t \in Seq(X)
      PROVE  /\ Entered(shown, r, s) \in States
             /\ Entered(shown, r, s \o t) = Entered(shown, Entered(shown, r, s), t)
  BY <1>1, EnterLoop!ResultInSet, EnterLoop!ResultOfConcat DEF Entered
<1> QED BY <1>2, <1>3, <1>4 DEF X

LEMMA EnterBoth ==
    ASSUME NEW shown, shown = TRUE, NEW r \in States,
           NEW s \in Seq(Commands(shown)), NEW t \in Seq(Commands(shown))
    PROVE  Entered(shown, r, s \o t) = Entered(shown, Entered(shown, r, s), t)
BY EnteredIs

(* With i selected, the commands in the list make u of its row v.          *)
At(i, g, u) == [sel |-> i, uc |-> [g EXCEPT ![i] = u]]

Makes(shown, i, g, v, list, u) ==
    /\ list \in Seq(Commands(shown)) /\ v \in Rows /\ u \in Rows
    /\ Entered(shown, At(i, g, v), list) = At(i, g, u)

LEMMA AtIs ==
    ASSUME NEW i \in Interface, NEW g \in [Interface -> Rows], NEW u \in Rows
    PROVE  At(i, g, u) \in States
BY DEF At, States

LEMMA MakesNone ==
    ASSUME NEW shown \in BOOLEAN, NEW i \in Interface, NEW g \in [Interface -> Rows], NEW u \in Rows
    PROVE  Makes(shown, i, g, u, <<>>, u)
<1>1. At(i, g, u) \in States
  BY AtIs
<1> QED BY <1>1, EnteredIs DEF Makes

LEMMA MakesBoth ==
    ASSUME NEW shown \in BOOLEAN, NEW i \in Interface, NEW g \in [Interface -> Rows],
           NEW v, NEW u, NEW w, NEW s, NEW t,
           Makes(shown, i, g, v, s, u), Makes(shown, i, g, u, t, w)
    PROVE  Makes(shown, i, g, v, s \o t, w)
<1> DEFINE a == At(i, g, v)
<1>1. a \in States
  BY AtIs DEF Makes
<1>2. s \in Seq(Commands(shown)) /\ t \in Seq(Commands(shown))
  BY DEF Makes
<1> HIDE DEF a
<1>3. Entered(shown, a, s \o t) = Entered(shown, Entered(shown, a, s), t)
  BY <1>1, <1>2, EnteredIs
<1> QED BY <1>2, <1>3 DEF Makes, a

LEMMA MakesWhen ==
    ASSUME NEW shown \in BOOLEAN, NEW i \in Interface, NEW g \in [Interface -> Rows],
           NEW u \in Rows, NEW b \in BOOLEAN, NEW c, b => c \in RowCommands,
           NEW w, w = IF b THEN EnterRow(i, c, u) ELSE u
    PROVE  Makes(shown, i, g, u, When(b, <<c>>), w)
<1>1. CASE ~b
  BY <1>1, MakesNone DEF When
<1>2. CASE b
  <2>1. c \in RowCommands /\ c \in Commands(shown) /\ w = EnterRow(i, c, u) /\ When(b, <<c>>) = <<c>>
    BY <1>2 DEF Commands, When
  <2>2. w \in Rows
    BY <2>1, EnterRowKeeps
  <2> DEFINE a == At(i, g, u)
  <2>3. a \in States /\ a.sel = i /\ a.uc = [g EXCEPT ![i] = u] /\ i # NoInterface
    BY AtIs, CliAssumption DEF At
  <2>4. a.uc[i] = u /\ [a.uc EXCEPT ![i] = w] = [g EXCEPT ![i] = w]
    BY <2>3
  <2> HIDE DEF a
  <2>5. EnterStep(shown, a, c) = [sel |-> i, uc |-> [a.uc EXCEPT ![i] = w]]
    <3>1. EnterStep(shown, a, c) =
             IF a.sel = NoInterface THEN a
             ELSE [sel |-> a.sel, uc |-> [a.uc EXCEPT ![a.sel] = EnterRow(a.sel, c, @)]]
      BY <2>1, <2>3, StepIs
    <3> QED BY <2>1, <2>3, <2>4, <3>1
  <2>6. Entered(shown, a, <<c>>) = At(i, g, w)
    BY <2>1, <2>3, <2>4, <2>5, EnteredIs DEF At
  <2>7. <<c>> \in Seq(Commands(shown))
    BY <2>1
  <2> QED BY <2>1, <2>2, <2>6, <2>7 DEF Makes, a
<1> QED BY <1>1, <1>2

LEMMA MakesMore ==
    ASSUME NEW shown \in BOOLEAN, NEW i \in Interface, NEW g \in [Interface -> Rows],
           NEW v, NEW u, NEW s, Makes(shown, i, g, v, s, u),
           NEW b \in BOOLEAN, NEW c, b => c \in RowCommands,
           NEW w, w = IF b THEN EnterRow(i, c, u) ELSE u
    PROVE  Makes(shown, i, g, v, s \o When(b, <<c>>), w)
<1>1. u \in Rows
  BY DEF Makes
<1>2. Makes(shown, i, g, u, When(b, <<c>>), w)
  BY <1>1, MakesWhen
<1> QED BY <1>2, MakesBoth

(* Line k, if it is printed, makes w of u.                                 *)
Enters(i, b, k, c, u, w) ==
    /\ b[k] \in BOOLEAN /\ (b[k] => c \in RowCommands)
    /\ w = IF b[k] THEN EnterRow(i, c, u) ELSE u

LEMMA LineMakes ==
    ASSUME NEW shown \in BOOLEAN, NEW i \in Interface, NEW g \in [Interface -> Rows],
           NEW u \in Rows, NEW b, NEW k, NEW c, NEW w, Enters(i, b, k, c, u, w)
    PROVE  Makes(shown, i, g, u, When(b[k], <<c>>), w)
BY MakesWhen DEF Enters

LEMMA MoreMakes ==
    ASSUME NEW shown \in BOOLEAN, NEW i \in Interface, NEW g \in [Interface -> Rows],
           NEW v, NEW u, NEW s, Makes(shown, i, g, v, s, u),
           NEW b, NEW k, NEW c, NEW w, Enters(i, b, k, c, u, w)
    PROVE  Makes(shown, i, g, v, s \o When(b[k], <<c>>), w)
BY MakesMore DEF Enters

(* What is left of a user_config when it is printed and entered.           *)
Kept(u) ==
    IF u.lane_split = "split"
    THEN Row(IF u.admin = "up" THEN "up" ELSE "absent", "absent", "absent", "absent", NoMtu, <<>>,
             "split")
    ELSE Row(IF u.admin = "up" THEN "up" ELSE "absent", IF u.autoneg = "off" THEN "off" ELSE "absent",
             u.pause, u.duplex, u.mtu, u.speeds, "absent")

(* The commands printed for a row u are all known, and enter as expected.  *)
LEMMA PrintedAre ==
    ASSUME NEW i \in Interface, NEW u \in Rows, RowOK(i, u)
    PROVE  /\ u.speeds # <<>> => /\ u.speeds = <<u.speeds[1]>>
                                 /\ u.speeds[1] \in Range(HwOf[i].speeds)
                                 /\ SetSpeed(u.speeds[1]) \in RowCommands
           /\ u.mtu \notin {NoMtu, INTFD_DEFAULT_MTU} <=> u.mtu # NoMtu
           /\ u.mtu # NoMtu => /\ u.mtu \in MtuRange \ {INTFD_DEFAULT_MTU}
                               /\ SetMtu(u.mtu) \in RowCommands
           /\ u.lane_split = "split" => i \in Splittable
           /\ {Up, Split, Half, ReceiveOn, SendOn, Off} \subseteq RowCommands
<1>1. ASSUME u.speeds # <<>>
      PROVE  /\ u.speeds = <<u.speeds[1]>> /\ u.speeds[1] \in Range(HwOf[i].speeds)
             /\ SetSpeed(u.speeds[1]) \in RowCommands
  <2>1. PICK x \in Range(HwOf[i].speeds) : u.speeds = <<x>>
    BY <1>1 DEF RowOK
  <2>2. u.speeds[1] = x /\ x \in Speeds
    BY <2>1 DEF Speeds
  <2>3. SetSpeed(x) \in RowCommands
    BY <2>2 DEF RowCommands, SetSpeed
  <2> QED BY <2>1, <2>2, <2>3
<1>2. u.mtu # NoMtu => u.mtu \in MtuRange \ {INTFD_DEFAULT_MTU}
  BY RowsAre DEF RowOK
<1>3. u.mtu # NoMtu => SetMtu(u.mtu) \in RowCommands
  BY <1>2 DEF RowCommands, SetMtu
<1>4. /\ u.mtu # INTFD_DEFAULT_MTU
      /\ u.lane_split = "split" => i \in Splittable
  BY DEF RowOK
<1>5. {Up, Split, Half, ReceiveOn, SendOn, Off} \subseteq RowCommands
  BY DEF RowCommands, Up, Split, Half, Off
<1> QED BY <1>1, <1>2, <1>3, <1>4, <1>5

LEMMA NoUserConfigIs ==
    /\ NoUserConfig = Row("absent", "absent", "absent", "absent", NoMtu, <<>>, "absent")
    /\ NoUserConfig \in Rows
BY DEF NoUserConfig, Row, Rows

(* The lines of show running-config, one after the other; b says which of  *)
(* them are printed, c and d are the two that carry a number.              *)
Lines(b, c, d) ==
    When(b[1], <<Up>>) \o When(b[2], <<Split>>) \o When(b[3], <<c>>) \o When(b[4], <<d>>)
    \o When(b[5], <<Half>>) \o When(b[6], <<ReceiveOn>>) \o When(b[7], <<SendOn>>)
    \o When(b[8], <<Off>>)

LEMMA LinesMake ==
    ASSUME NEW shown \in BOOLEAN, NEW i \in Interface, NEW g \in [Interface -> Rows],
           NEW b, NEW c, NEW d, NEW r0 \in Rows, NEW r1, NEW r2, NEW r3, NEW r4, NEW r5, NEW r6, NEW r7, NEW r8,
           Enters(i, b, 1, Up, r0, r1), Enters(i, b, 2, Split, r1, r2), Enters(i, b, 3, c, r2, r3),
           Enters(i, b, 4, d, r3, r4), Enters(i, b, 5, Half, r4, r5),
           Enters(i, b, 6, ReceiveOn, r5, r6), Enters(i, b, 7, SendOn, r6, r7),
           Enters(i, b, 8, Off, r7, r8)
    PROVE  Makes(shown, i, g, r0, Lines(b, c, d), r8)
<1> DEFINE l1 == When(b[1], <<Up>>)
           l2 == l1 \o When(b[2], <<Split>>)
           n3 == l2 \o When(b[3], <<c>>)
           l4 == n3 \o When(b[4], <<d>>)
           l5 == l4 \o When(b[5], <<Half>>)
           l6 == l5 \o When(b[6], <<ReceiveOn>>)
           l7 == l6 \o When(b[7], <<SendOn>>)
           l8 == l7 \o When(b[8], <<Off>>)
<1>1. l8 = Lines(b, c, d)
  BY DEF Lines
<1>2. Makes(shown, i, g, r0, l1, r1)
  BY LineMakes
<1> HIDE DEF l1
<1>3. Makes(shown, i, g, r0, l2, r2)
  BY <1>2, MoreMakes
<1> HIDE DEF l2
<1>4. Makes(shown, i, g, r0, n3, r3)
  BY <1>3, MoreMakes
<1> HIDE DEF n3
<1>5. Makes(shown, i, g, r0, l4, r4)
  BY <1>4, MoreMakes
<1> HIDE DEF l4
<1>6. Makes(shown, i, g, r0, l5, r5)
  BY <1>5, MoreMakes
<1> HIDE DEF l5
<1>7. Makes(shown, i, g, r0, l6, r6)
  BY <1>6, MoreMakes
<1> HIDE DEF l6
<1>8. Makes(shown, i, g, r0, l7, r7)
  BY <1>7, MoreMakes
<1> HIDE DEF l7
<1>9. Makes(shown, i, g, r0, l8, r8)
  BY <1>8, MoreMakes
<1> QED BY <1>1, <1>9

-----------------------------------------------------------------------------
(* Which lines of the row u are printed.                                   *)
Printed(u) ==
    [k \in 1..8 |->
        \/ k = 1 /\ u.admin = "up"
        \/ k = 2 /\ u.lane_split = "split"
        \/ k = 3 /\ u.speeds # <<>>
        \/ k = 4 /\ u.mtu # NoMtu
        \/ k = 5 /\ u.duplex = "half"
        \/ k = 6 /\ u.pause \in {"rx", "rxtx"}
        \/ k = 7 /\ u.pause \in {"tx", "rxtx"}
        \/ k = 8 /\ u.autoneg = "off"]

LEMMA PrintedIs ==
    ASSUME NEW u, NEW b, b = Printed(u)
    PROVE  /\ b \in [1..8 -> BOOLEAN]
           /\ b[1] <=> u.admin = "up"
           /\ b[2] <=> u.lane_split = "split"
           /\ b[3] <=> u.speeds # <<>>
           /\ b[4] <=> u.mtu # NoMtu
           /\ b[5] <=> u.duplex = "half"
           /\ b[6] <=> u.pause \in {"rx", "rxtx"}
           /\ b[7] <=> u.pause \in {"tx", "rxtx"}
           /\ b[8] <=> u.autoneg = "off"
<1>1. b \in [1..8 -> BOOLEAN]
  BY DEF Printed
<1>2. /\ 1 \in 1..8 /\ 2 \in 1..8 /\ 3 \in 1..8 /\ 4 \in 1..8
      /\ 5 \in 1..8 /\ 6 \in 1..8 /\ 7 \in 1..8 /\ 8 \in 1..8
  OBVIOUS
<1>3. b[1] <=> u.admin = "up"
  BY <1>2 DEF Printed
<1>4. b[2] <=> u.lane_split = "split"
  BY <1>2 DEF Printed
<1>5. b[3] <=> u.speeds # <<>>
  BY <1>2 DEF Printed
<1>6. b[4] <=> u.mtu # NoMtu
  BY <1>2 DEF Printed
<1>7. b[5] <=> u.duplex = "half"
  BY <1>2 DEF Printed
<1>8. b[6] <=> u.pause \in {"rx", "rxtx"}
  BY <1>2 DEF Printed
<1>9. b[7] <=> u.pause \in {"tx", "rxtx"}
  BY <1>2 DEF Printed
<1>10. b[8] <=> u.autoneg = "off"
  BY <1>2 DEF Printed
<1> QED BY <1>1, <1>3, <1>4, <1>5, <1>6, <1>7, <1>8, <1>9, <1>10

LEMMA LinesAre ==
    ASSUME NEW i \in Interface, NEW u \in Rows, RowOK(i, u)
    PROVE  ConfigLines(u) = Lines(Printed(u), SetSpeed(u.speeds[1]), SetMtu(u.mtu))
<1>1. PICK b : b = Printed(u)
  OBVIOUS
<1>2. u.mtu \notin {NoMtu, INTFD_DEFAULT_MTU} <=> b[4]
  BY <1>1, PrintedAre, PrintedIs
<1>3. When(b[1], <<Up>>) = When(u.admin = "up", <<Cmd("shutdown", "", TRUE)>>)
  BY <1>1, PrintedIs DEF When, Up
<1>4. When(b[2], <<Split>>) = When(u.lane_split = "split", <<Cmd("split", "", FALSE)>>)
  BY <1>1, PrintedIs DEF When, Split
<1>5. When(b[3], <<SetSpeed(u.speeds[1])>>) = When(u.speeds # <<>>, <<CmdN("speed", u.speeds[1], FALSE)>>)
  BY <1>1, PrintedIs DEF When, SetSpeed
<1>6. When(b[4], <<SetMtu(u.mtu)>>)
        = When(u.mtu \notin {NoMtu, INTFD_DEFAULT_MTU}, <<CmdN("mtu", u.mtu, FALSE)>>)
  BY <1>2 DEF When, SetMtu
<1>7. When(b[5], <<Half>>) = When(u.duplex = "half", <<Cmd("duplex", "half", FALSE)>>)
  BY <1>1, PrintedIs DEF When, Half
<1>8. When(b[6], <<ReceiveOn>>) = When(u.pause \in {"rx", "rxtx"}, <<ReceiveOn>>)
  BY <1>1, PrintedIs DEF When
<1>9. When(b[7], <<SendOn>>) = When(u.pause \in {"tx", "rxtx"}, <<SendOn>>)
  BY <1>1, PrintedIs DEF When
<1>10. When(b[8], <<Off>>) = When(u.autoneg = "off", <<Cmd("autonegotiation", "off", FALSE)>>)
  BY <1>1, PrintedIs DEF When, Off
<1> QED BY <1>1, <1>3, <1>4, <1>5, <1>6, <1>7, <1>8, <1>9, <1>10 DEF ConfigLines, Lines

LEMMA ConfigLinesMake ==
    ASSUME NEW shown \in BOOLEAN, NEW i \in Interface, NEW g \in [Interface -> Rows],
           NEW u \in Rows, RowOK(i, u)
    PROVE  Makes(shown, i, g, NoUserConfig, ConfigLines(u), Kept(u))
<1>1. PICK b : b = Printed(u)
  OBVIOUS
<1>2. PICK c, d : c = SetSpeed(u.speeds[1]) /\ d = SetMtu(u.mtu)
  OBVIOUS
<1>3. /\ b \in [1..8 -> BOOLEAN]
      /\ b[3] => c \in RowCommands
      /\ b[4] => d \in RowCommands
      /\ {Up, Split, Half, ReceiveOn, SendOn, Off} \subseteq RowCommands
  BY <1>1, <1>2, PrintedAre, PrintedIs
<1>4. ConfigLines(u) = Lines(b, c, d)
  BY <1>1, <1>2, LinesAre
<1>5. /\ u.pause \in {"absent", "rx", "tx", "rxtx"} /\ u.duplex \in {"absent", "half"}
      /\ u.lane_split \in {"absent", "split"}
  BY RowsAre
<1> DEFINE A == IF u.admin = "up" THEN "up" ELSE "absent"
           N == IF u.autoneg = "off" THEN "off" ELSE "absent"
           P == IF u.pause \in {"rx", "rxtx"} THEN "rx" ELSE "absent"
           r0 == Row("absent", "absent", "absent", "absent", NoMtu, <<>>, "absent")
           r1 == Row(A, "absent", "absent", "absent", NoMtu, <<>>, "absent")
           r2 == Row(A, "absent", "absent", "absent", NoMtu, <<>>, u.lane_split)
<1>6. r0 = NoUserConfig /\ r0 \in Rows
  BY NoUserConfigIs
<1>7. r1 = IF b[1] THEN EnterRow(i, Up, r0) ELSE r0
  BY <1>1, PrintedIs, EnterUp
<1>8. r2 = IF b[2] THEN EnterRow(i, Split, r1) ELSE r1
  <2> HIDE DEF A
  <2>1. b[2] <=> u.lane_split = "split"
    BY <1>1, PrintedIs
  <2>2. u.lane_split = "split" => i \in Splittable
    BY PrintedAre
  <2>3. i \in Splittable => EnterRow(i, Split, r1) = Row(A, "absent", "absent", "absent", NoMtu, <<>>, "split")
    BY EnterSplit
  <2> QED BY <1>5, <2>1, <2>2, <2>3
<1> HIDE DEF A
<1>10. CASE u.lane_split = "split"
  <2>1. r2 = Kept(u)
    BY <1>10 DEF Kept, A
  <2>2. is_parent_interface_split(r2)
    BY <1>10 DEF is_parent_interface_split, Row
  <2> HIDE DEF r1, r2
  <2>3. /\ c.name = "speed" /\ d.name = "mtu" /\ Half.name = "duplex" /\ ReceiveOn.name = "flowcontrol"
        /\ SendOn.name = "flowcontrol" /\ Off.name = "autonegotiation"
    BY <1>2 DEF CmdN, Cmd, ReceiveOn, SendOn, Half, Off, SetSpeed, SetMtu
  <2>4. \A e \in RowCommands : e.name \notin {"shutdown", "split"} => EnterRow(i, e, r2) = r2
    BY <2>2, SplitRefuses
  <2>5. /\ r2 = IF b[3] THEN EnterRow(i, c, r2) ELSE r2
        /\ r2 = IF b[4] THEN EnterRow(i, d, r2) ELSE r2
        /\ r2 = IF b[5] THEN EnterRow(i, Half, r2) ELSE r2
        /\ r2 = IF b[6] THEN EnterRow(i, ReceiveOn, r2) ELSE r2
        /\ r2 = IF b[7] THEN EnterRow(i, SendOn, r2) ELSE r2
        /\ r2 = IF b[8] THEN EnterRow(i, Off, r2) ELSE r2
    BY <1>3, <2>3, <2>4
  <2> HIDE DEF r0
  <2>6. Makes(shown, i, g, r0, Lines(b, c, d), r2)
    <3>1. /\ Enters(i, b, 1, Up, r0, r1) /\ Enters(i, b, 2, Split, r1, r2)
          /\ Enters(i, b, 3, c, r2, r2) /\ Enters(i, b, 4, d, r2, r2)
          /\ Enters(i, b, 5, Half, r2, r2) /\ Enters(i, b, 6, ReceiveOn, r2, r2)
          /\ Enters(i, b, 7, SendOn, r2, r2) /\ Enters(i, b, 8, Off, r2, r2)
      BY <1>3, <1>7, <1>8, <2>5 DEF Enters
    <3> QED BY <1>6, <3>1, LinesMake
  <2> QED BY <1>4, <1>6, <2>1, <2>6
<1>11. CASE u.lane_split # "split"
  <2> DEFINE r3 == Row(A, "absent", "absent", "absent", NoMtu, u.speeds, "absent")
             r4 == Row(A, "absent", "absent", "absent", u.mtu, u.speeds, "absent")
             r5 == Row(A, "absent", "absent", u.duplex, u.mtu, u.speeds, "absent")
             r6 == Row(A, "absent", P, u.duplex, u.mtu, u.speeds, "absent")
             r7 == Row(A, "absent", u.pause, u.duplex, u.mtu, u.speeds, "absent")
             r8 == Row(A, N, u.pause, u.duplex, u.mtu, u.speeds, "absent")
  <2>1. r2 = r1 /\ r8 = Kept(u)
    BY <1>5, <1>11 DEF Kept, A
  <2>2. r3 = IF b[3] THEN EnterRow(i, c, r2) ELSE r2
    <3>1. b[3] <=> u.speeds # <<>>
      BY <1>1, PrintedIs
    <3>2. CASE b[3]
      <4>1. PICK x \in Range(HwOf[i].speeds) : u.speeds = <<x>> /\ c = SetSpeed(x)
        BY <1>2, <3>1, <3>2, PrintedAre
      <4>2. EnterRow(i, SetSpeed(x), r1) = Row(A, "absent", "absent", "absent", NoMtu, <<x>>, "absent")
        BY EnterSpeed
      <4> QED BY <2>1, <3>2, <4>1, <4>2
    <3>3. CASE ~b[3]
      BY <2>1, <3>1, <3>3
    <3> QED BY <1>3, <3>2, <3>3
  <2>3. r4 = IF b[4] THEN EnterRow(i, d, r3) ELSE r3
    <3>1. b[4] <=> u.mtu # NoMtu
      BY <1>1, PrintedIs
    <3>2. CASE b[4]
      <4>1. PICK x \in MtuRange \ {INTFD_DEFAULT_MTU} : u.mtu = x /\ d = SetMtu(x)
        BY <1>2, <3>1, <3>2, PrintedAre
      <4>2. EnterRow(i, SetMtu(x), r3) = Row(A, "absent", "absent", "absent", x, u.speeds, "absent")
        BY EnterMtu
      <4> QED BY <3>2, <4>1, <4>2
    <3>3. CASE ~b[4]
      BY <3>1, <3>3
    <3> QED BY <1>3, <3>2, <3>3
  <2>4. r5 = IF b[5] THEN EnterRow(i, Half, r4) ELSE r4
    <3>1. b[5] <=> u.duplex = "half"
      BY <1>1, PrintedIs
    <3> QED BY <1>5, <3>1, EnterHalf
  <2>5. r6 = IF b[6] THEN EnterRow(i, ReceiveOn, r5) ELSE r5
    <3>1. b[6] <=> u.pause \in {"rx", "rxtx"}
      BY <1>1, PrintedIs
    <3> QED BY <3>1, EnterReceive
  <2>6. r7 = IF b[7] THEN EnterRow(i, SendOn, r6) ELSE r6
    <3>1. b[7] <=> u.pause \in {"tx", "rxtx"}
      BY <1>1, PrintedIs
    <3>2. P \in {"absent", "rx"}
      OBVIOUS
    <3>3. u.pause = IF b[7] THEN IF P = "rx" THEN "rxtx" ELSE "tx" ELSE P
      BY <1>5, <3>1
    <3> HIDE DEF P
    <3>4. EnterRow(i, SendOn, r6)
            = Row(A, "absent", IF P = "rx" THEN "rxtx" ELSE "tx", u.duplex, u.mtu, u.speeds, "absent")
      BY <3>2, EnterSend
    <3> QED BY <3>3, <3>4
  <2>7. r8 = IF b[8] THEN EnterRow(i, Off, r7) ELSE r7
    <3>1. b[8] <=> u.autoneg = "off"
      BY <1>1, PrintedIs
    <3> QED BY <3>1, EnterOff
  <2> HIDE DEF r0, r1, r2, r3, r4, r5, r6, r7, r8
  <2>8. Makes(shown, i, g, r0, Lines(b, c, d), r8)
    <3>1. /\ Enters(i, b, 1, Up, r0, r1) /\ Enters(i, b, 2, Split, r1, r2)
          /\ Enters(i, b, 3, c, r2, r3) /\ Enters(i, b, 4, d, r3, r4)
      BY <1>3, <1>7, <1>8, <2>2, <2>3 DEF Enters
    <3>2. /\ Enters(i, b, 5, Half, r4, r5) /\ Enters(i, b, 6, ReceiveOn, r5, r6)
          /\ Enters(i, b, 7, SendOn, r6, r7) /\ Enters(i, b, 8, Off, r7, r8)
      BY <1>3, <2>4, <2>5, <2>6, <2>7 DEF Enters
    <3> QED BY <1>6, <3>1, <3>2, LinesMake
  <2> QED BY <1>4, <1>6, <2>1, <2>8
<1> QED BY <1>10, <1>11

-----------------------------------------------------------------------------
(* Sections entered one after the other: what each makes of its own row,   *)
(* if the row of its parent is already there.                              *)
RestoresRow(old, new, i, want) ==
    old[i] = NoUserConfig /\ (ParentOf[i] # NoInterface => old[ParentOf[i]] = want[ParentOf[i]])
        => new = [old EXCEPT ![i] = want[i]]

LEMMA RowsAreRestored ==
    ASSUME NEW g, NEW want,
           \A k \in 0..Cardinality(Interface) : g[k] \in [Interface -> Rows],
           g[0] = [i \in Interface |-> NoUserConfig],
           \A k \in 1..Cardinality(Interface) : RestoresRow(g[k - 1], g[k], sort_interface[k], want)
    PROVE  \A i \in Interface : g[Cardinality(Interface)][i] = want[i]
<1> DEFINE n == Cardinality(Interface)
           s == sort_interface
           Done(k) == \A j \in 1..n : g[k][s[j]] = IF j <= k THEN want[s[j]] ELSE NoUserConfig
           S == {k \in 0..n : Done(k)}
<1>1. /\ n \in Nat /\ \A k \in 1..n : s[k] \in Interface
      /\ \A j, k \in 1..n : s[j] = s[k] => j = k
      /\ \A i \in Interface : \E k \in 1..n : s[k] = i
      /\ \A j, k \in 1..n : ParentOf[s[k]] = s[j] => j < k
  BY SortIs DEF IsList, In
<1> HIDE DEF n, s
<1>2. 0 \in S
  BY <1>1 DEF n
<1>3. ASSUME NEW k \in 1..n, k - 1 \in S PROVE k \in S
  <2>1. /\ k \in 0..n /\ k - 1 \in 0..n /\ Done(k - 1)
    BY <1>1, <1>3
  <2> DEFINE i == s[k]
             old == g[k - 1]
  <2>2. i \in Interface /\ old[i] = NoUserConfig
    BY <1>1, <2>1
  <2>3. ASSUME ParentOf[i] # NoInterface PROVE old[ParentOf[i]] = want[ParentOf[i]]
    <3>1. ParentOf[i] \in Interface
      BY <2>2, <2>3, CliAssumption
    <3>2. PICK j \in 1..n : s[j] = ParentOf[i]
      BY <1>1, <3>1
    <3>3. j < k
      BY <1>1, <3>2
    <3> QED BY <1>1, <2>1, <3>2, <3>3
  <2>4. g[k] = [old EXCEPT ![i] = want[i]]
    <3>1. RestoresRow(old, g[k], i, want)
      BY DEF n, s
    <3> QED BY <2>2, <2>3, <3>1 DEF RestoresRow
  <2>5. old \in [Interface -> Rows]
    BY <2>1 DEF n
  <2>6. ASSUME NEW j \in 1..n PROVE g[k][s[j]] = IF j <= k THEN want[s[j]] ELSE NoUserConfig
    <3>1. CASE j = k
      BY <2>2, <2>4, <2>5, <3>1
    <3>2. CASE j # k
      <4>1. s[j] # i /\ s[j] \in Interface
        BY <1>1, <3>2
      <4>2. g[k][s[j]] = old[s[j]]
        BY <2>4, <2>5, <4>1
      <4>3. j <= k - 1 <=> j <= k
        BY <1>1, <3>2
      <4> QED BY <2>1, <4>2, <4>3
    <3> QED BY <3>1, <3>2
  <2> QED BY <2>1, <2>6
<1> HIDE DEF S
<1>4. n \in S
  <2>1. \A k \in 0..n : k \in S
    BY <1>1, <1>2, <1>3, EnterLoop!InductionUpTo
  <2> QED BY <1>1, <2>1
<1>5. Done(n)
  BY <1>4 DEF S
<1> QED BY <1>1, <1>5 DEF n

(* What the commands printed for an interface leave of its row.            *)
Left(i) == IF MaySelect(i, uc) THEN Kept(uc[i]) ELSE NoUserConfig
LeftRows == [i \in Interface |-> Left(i)]

LEMMA RowsOf ==
    ASSUME ColumnsInv, NEW i \in Interface
    PROVE  uc[i] \in Rows /\ RowOK(i, uc[i])
<1>1. PICK u : u = uc[i]
  OBVIOUS
<1>2. IsConfig(u) /\ RowOK(i, u)
  BY <1>1 DEF ColumnsInv, RowsOK, SessionInv, RowsInv, Pausing
<1>3. u.speeds \in {<<>>} \cup {<<s>> : s \in Speeds}
  BY <1>2 DEF RowOK, Speeds
<1> QED BY <1>1, <1>2, <1>3 DEF IsConfig, RowOK, Rows

LEMMA KeptIs ==
    ASSUME NEW u \in Rows
    PROVE  Kept(u) \in Rows /\ Kept(u).lane_split = u.lane_split
<1>1. PICK A, N : /\ A = (IF u.admin = "up" THEN "up" ELSE "absent")
                  /\ N = IF u.autoneg = "off" THEN "off" ELSE "absent"
  OBVIOUS
<1>2. /\ A \in {"absent", "up", "down"} /\ N \in {"absent", "on", "off"}
  BY <1>1
<1>3. CASE u.lane_split = "split"
  BY <1>1, <1>2, <1>3 DEF Kept, Row, Rows
<1>4. CASE u.lane_split # "split"
  <2>1. u.lane_split = "absent"
    BY <1>4, RowsAre
  <2> QED BY <1>1, <1>2, <1>4, <2>1, RowsAre DEF Kept, Row, Rows
<1> QED BY <1>3, <1>4

(* Once its parent's row is as it is to be, a lane is selected as now.     *)
LEMMA SelectsAsNow ==
    ASSUME ColumnsInv, NEW i \in Interface, NEW g,
           ParentOf[i] # NoInterface => g[ParentOf[i]] = LeftRows[ParentOf[i]]
    PROVE  MaySelect(i, g) <=> MaySelect(i, uc)
<1>1. CASE ParentOf[i] = NoInterface
  BY <1>1 DEF MaySelect
<1>2. CASE ParentOf[i] # NoInterface
  <2>1. PICK p \in Interface : p = ParentOf[i] /\ ParentOf[p] = NoInterface
    BY <1>2, CliAssumption
  <2>2. g[p] = Kept(uc[p])
    BY <1>2, <2>1 DEF LeftRows, Left, MaySelect
  <2>3. g[p].lane_split = uc[p].lane_split
    BY <2>2, RowsOf, KeptIs
  <2> QED BY <2>1, <2>3 DEF MaySelect, is_parent_interface_split
<1> QED BY <1>1, <1>2

LEMMA SectionRestores ==
    ASSUME ColumnsInv, NEW i \in Interface, NEW shown, shown = FALSE, NEW r \in States
    PROVE  LET c == vtysh_intf_context_clientcallback(i)
           IN /\ c \in Seq(Commands(shown))
              /\ RestoresRow(r.uc, Entered(shown, r, c).uc, i, LeftRows)
<1>1. PICK u, c, g : u = uc[i] /\ c = vtysh_intf_context_clientcallback(i) /\ g = r.uc
  OBVIOUS
<1>2. u \in Rows /\ RowOK(i, u)
  BY <1>1, RowsOf
<1>3. g \in [Interface -> Rows] /\ r.sel \in Interface \cup {NoInterface}
  BY <1>1 DEF States
<1>4. Makes(shown, i, g, NoUserConfig, ConfigLines(u), Kept(u))
  BY <1>2, <1>3, ConfigLinesMake
<1>5. PICK lines : lines = ConfigLines(u) /\ lines \in Seq(Commands(shown))
  BY <1>4 DEF Makes
<1>6. Cmd("interface", i, FALSE) \in Heads /\ Heads \subseteq Commands(shown)
  BY DEF Heads, Commands
<1>7. PICK head \in Heads : head = Cmd("interface", i, FALSE)
  BY <1>6
<1>8. head.arg = i /\ <<head>> \in Seq(Commands(shown)) /\ head \in Commands(shown)
  <2>1. head.arg = i
    BY <1>7 DEF Cmd
  <2> DEFINE X == Commands(shown)
  <2>2. head \in X
    BY <1>6
  <2> HIDE DEF X
  <2>3. <<head>> \in Seq(X)
    BY <2>2
  <2> QED BY <2>1, <2>2, <2>3 DEF X
<1>9. LeftRows[i] = Left(i)
  BY DEF LeftRows
<1>10. CASE ~MaySelect(i, uc) \/ lines = <<>>
  <2>1. c = <<>>
    BY <1>1, <1>5, <1>10 DEF vtysh_intf_context_clientcallback
  <2>2. Entered(shown, r, c) = r
    BY <2>1, EnteredIs
  <2>3. ASSUME g[i] = NoUserConfig PROVE g = [g EXCEPT ![i] = LeftRows[i]]
    <3>1. Left(i) = NoUserConfig
      <4>1. CASE ~MaySelect(i, uc)
        BY <4>1 DEF Left
      <4>2. CASE lines = <<>>
        <5>1. PICK v, w : v = NoUserConfig /\ w = Kept(u)
          OBVIOUS
        <5>2. At(i, g, v) \in States
          BY <1>3, <5>1, AtIs, NoUserConfigIs
        <5>3. Entered(shown, At(i, g, v), lines) = At(i, g, v)
          BY <4>2, <5>2, EnteredIs
        <5>4. At(i, g, v) = At(i, g, w)
          BY <1>4, <1>5, <5>1, <5>3 DEF Makes
        <5>5. At(i, g, v).uc[i] = v /\ At(i, g, w).uc[i] = w
          BY <1>3 DEF At
        <5> QED BY <1>1, <5>1, <5>4, <5>5 DEF Left
      <4> QED BY <1>10, <4>1, <4>2
    <3> QED BY <1>3, <1>9, <2>3, <3>1
  <2>4. c \in Seq(Commands(shown))
    BY <2>1
  <2> QED BY <1>1, <2>2, <2>3, <2>4 DEF RestoresRow
<1>11. CASE MaySelect(i, uc) /\ lines # <<>>
  <2>1. c = <<head>> \o lines
    BY <1>1, <1>5, <1>7, <1>11 DEF vtysh_intf_context_clientcallback
  <2>2. c \in Seq(Commands(shown))
    <3> DEFINE X == Commands(shown)
    <3>1. <<head>> \in Seq(X) /\ lines \in Seq(X)
      BY <1>5, <1>8
    <3> HIDE DEF X
    <3>2. <<head>> \o lines \in Seq(X)
      BY <3>1
    <3> QED BY <2>1, <3>2 DEF X
  <2>3. Entered(shown, r, c) = Entered(shown, EnterStep(shown, r, head), lines)
    <3>1. PICK h : h = <<head>>
      OBVIOUS
    <3>2. Entered(shown, r, h) = EnterStep(shown, r, head) /\ h \in Seq(Commands(shown))
      BY <1>8, <3>1, EnteredIs
    <3>3. Entered(shown, r, h \o lines) = Entered(shown, Entered(shown, r, h), lines)
      BY <1>5, <3>2, EnteredIs
    <3> QED BY <2>1, <3>1, <3>2, <3>3
  <2>4. ASSUME g[i] = NoUserConfig, ParentOf[i] # NoInterface => g[ParentOf[i]] = LeftRows[ParentOf[i]]
        PROVE  Entered(shown, r, c).uc = [g EXCEPT ![i] = LeftRows[i]]
    <3>1. MaySelect(i, g)
      BY <1>11, <2>4, SelectsAsNow
    <3>2. EnterStep(shown, r, head) = [sel |-> i, uc |-> g]
      <4>1. EnterStep(shown, r, head) =
               IF MaySelect(head.arg, r.uc) THEN [sel |-> head.arg, uc |-> r.uc] ELSE r
        BY <1>8, StepIs
      <4> QED BY <1>1, <1>8, <3>1, <4>1
    <3>3. [sel |-> i, uc |-> g] = At(i, g, NoUserConfig)
      BY <1>3, <2>4 DEF At
    <3>4. Entered(shown, At(i, g, NoUserConfig), lines) = At(i, g, Kept(u))
      BY <1>4, <1>5 DEF Makes
    <3>5. At(i, g, Kept(u)).uc = [g EXCEPT ![i] = Kept(u)]
      BY DEF At
    <3> QED BY <1>1, <1>9, <1>11, <2>3, <3>2, <3>3, <3>4, <3>5 DEF Left
  <2> QED BY <1>1, <2>2, <2>4 DEF RestoresRow
<1> QED BY <1>10, <1>11

-----------------------------------------------------------------------------
(* A switch without configuration.                                         *)
Fresh == [sel |-> NoInterface, uc |-> [i \in Interface |-> NoUserConfig]]

LEMMA FreshIs ==
    Fresh \in States /\ Fresh.uc = [i \in Interface |-> NoUserConfig] /\ Fresh.sel = NoInterface
BY NoUserConfigIs DEF Fresh, States

LEMMA RestoredIs ==
    ASSUME NEW shown, shown = FALSE
    PROVE  Restored = Entered(shown, Fresh, RunningConfig).uc
BY DEF Restored, Entered, Fresh, EnterLoop!Result, EnterStep, FoldLeft, EnterLoop!FoldLeft,
       MapThenFoldSet, EnterLoop!MapThenFoldSet, Max, EnterLoop!Max

LEMMA RunningConfigIs ==
    RunningConfig = EnterLoop!Joined([k \in 1..Cardinality(Interface) |->
                        vtysh_intf_context_clientcallback(sort_interface[k])])
<1>1. DOMAIN sort_interface = 1..Cardinality(Interface)
  BY SortIs
<1> QED BY <1>1 DEF RunningConfig, FlattenSeq, EnterLoop!FlattenSeq, EnterLoop!Joined

LEMMA RestoredRows ==
    ASSUME ColumnsInv, NEW i \in Interface
    PROVE  Restored[i] = Left(i)
<1>1. PICK shown : shown = FALSE
  OBVIOUS
<1>2. PICK n, s : n = Cardinality(Interface) /\ s = sort_interface
  OBVIOUS
<1>3. n \in Nat /\ s \in [1..n -> Interface]
  BY <1>2, SortIs
<1> DEFINE seqs == [k \in 1..n |-> vtysh_intf_context_clientcallback(s[k])]
           X == Commands(shown)
<1>4. ASSUME NEW k \in 1..n PROVE seqs[k] \in Seq(X)
  BY <1>1, <1>3, SectionRestores, FreshIs
<1>5. seqs \in Seq(Seq(X)) /\ Len(seqs) = n
  <2> HIDE DEF X
  <2>1. seqs \in [1..n -> Seq(X)]
    BY <1>4
  <2> QED BY <1>3, <2>1
<1>6. \A r \in States, c \in X : EnterStep(shown, r, c) \in States
  BY <1>1, StepIs
<1>7. RunningConfig = EnterLoop!Joined(seqs)
  BY <1>2, RunningConfigIs
<1> HIDE DEF X
<1>8. PICK f \in [0..n -> States] :
         /\ f[0] = Fresh
         /\ \A k \in 1..n : f[k] = Entered(shown, f[k - 1], seqs[k])
         /\ Entered(shown, Fresh, RunningConfig) = f[n]
  <2> HIDE DEF seqs
  <2> DEFINE T == States
  <2>1. Fresh \in T /\ \A r \in T, c \in X : EnterStep(shown, r, c) \in T
    BY <1>6, FreshIs
  <2> HIDE DEF T
  <2>2. PICK f \in [0..Len(seqs) -> T] : EnterLoop!RunsOver(f, shown, Fresh, seqs)
    BY <1>5, <2>1, EnterLoop!ResultOfFlatten
  <2> QED BY <1>5, <1>7, <2>2 DEF T, Entered, EnterLoop!RunsOver
<1> DEFINE g == [k \in 0..n |-> f[k].uc]
<1>9. \A k \in 0..n : g[k] \in [Interface -> Rows]
  BY <1>8 DEF States
<1>10. g[0] = [j \in Interface |-> NoUserConfig]
  BY <1>3, <1>8, FreshIs
<1>11. ASSUME NEW k \in 1..n PROVE RestoresRow(g[k - 1], g[k], s[k], LeftRows)
  <2>1. k \in 0..n /\ k - 1 \in 0..n /\ s[k] \in Interface
    BY <1>3
  <2>2. PICK r \in States, j \in Interface : r = f[k - 1] /\ j = s[k]
    BY <1>8, <2>1
  <2>3. PICK c : c = vtysh_intf_context_clientcallback(j)
    OBVIOUS
  <2>4. RestoresRow(r.uc, Entered(shown, r, c).uc, j, LeftRows)
    BY <1>1, <2>3, SectionRestores
  <2>5. g[k - 1] = r.uc /\ g[k] = Entered(shown, r, c).uc
    BY <1>8, <2>1, <2>2, <2>3
  <2> QED BY <2>2, <2>4, <2>5
<1>12. g[n] = Restored
  <2>1. g[n] = f[n].uc
    BY <1>3
  <2>2. Restored = Entered(shown, Fresh, RunningConfig).uc
    BY <1>1, RestoredIs
  <2> QED BY <1>8, <2>1, <2>2
<1> HIDE DEF g
<1>13. g[n][i] = LeftRows[i]
  BY <1>2, <1>9, <1>10, <1>11, RowsAreRestored
<1> QED BY <1>12, <1>13 DEF LeftRows

(* What is left says to intfd what can be printed.                         *)
PrintableRow(u) ==
    IF is_parent_interface_split(u)
    THEN [NoUserConfig EXCEPT !.admin = u.admin, !.lane_split = "split"]
    ELSE [u EXCEPT !.autoneg = IF @ = "on" THEN "absent" ELSE @]

LEMMA KeptSays ==
    ASSUME NEW u \in Rows, NEW hw, NEW maxMtu
    PROVE  intfd_parse_user_cfg(Kept(u), hw, maxMtu) = intfd_parse_user_cfg(PrintableRow(u), hw, maxMtu)
<1>1. PICK k, p : k = Kept(u) /\ p = PrintableRow(u)
  OBVIOUS
<1>2. /\ u.admin \in {"absent", "up", "down"} /\ u.autoneg \in {"absent", "on", "off"}
      /\ u.lane_split \in {"absent", "split"}
  BY RowsAre
<1>3. /\ k.admin = "up" <=> p.admin = "up"
      /\ k.autoneg = p.autoneg /\ k.pause = p.pause /\ k.duplex = p.duplex /\ k.mtu = p.mtu
      /\ k.speeds = p.speeds /\ k.lane_split = p.lane_split
  <2>1. CASE u.lane_split = "split"
    <3>1. p = [NoUserConfig EXCEPT !.admin = u.admin, !.lane_split = "split"]
      BY <1>1, <2>1 DEF PrintableRow, is_parent_interface_split
    <3> QED BY <1>1, <2>1, <3>1 DEF Kept, Row, NoUserConfig
  <2>2. CASE u.lane_split # "split"
    <3>1. p = [u EXCEPT !.autoneg = IF @ = "on" THEN "absent" ELSE @]
      BY <1>1, <2>2 DEF PrintableRow, is_parent_interface_split
    <3>2. /\ p.admin = u.admin /\ p.pause = u.pause /\ p.duplex = u.duplex /\ p.mtu = u.mtu
          /\ p.speeds = u.speeds /\ p.lane_split = u.lane_split
          /\ p.autoneg = IF u.autoneg = "on" THEN "absent" ELSE u.autoneg
      BY <3>1 DEF Rows
    <3> QED BY <1>1, <1>2, <2>2, <3>2 DEF Kept, Row
  <2> QED BY <2>1, <2>2
<1>4. ParsedSpeeds(k, hw) = ParsedSpeeds(p, hw) /\ ParsedMtu(k, maxMtu) = ParsedMtu(p, maxMtu)
  BY <1>3 DEF ParsedSpeeds, ParsedMtu
<1> QED BY <1>1, <1>3, <1>4 DEF intfd_parse_user_cfg

(* Entering the output of "show running-config" on a switch without        *)
(* configuration gives intfd what it reads now, but for what cannot be     *)
(* printed: the interfaces are printed in the order of their names, so a   *)
(* lane comes after its parent's "split", and each section makes of its    *)
(* own row what its commands say.                                          *)
THEOREM RunningConfigIsRestored ==
    Spec => []RunningConfigRestores
<1>1. ASSUME ColumnsInv, NEW i \in Interface
      PROVE  intfd_parse_user_cfg(Restored[i], HwOf[i], MaxMtu)
                = intfd_parse_user_cfg(Printable(i), HwOf[i], MaxMtu)
  <2>1. Restored[i] = Left(i)
    BY <1>1, RestoredRows
  <2>2. CASE ~MaySelect(i, uc)
    BY <2>1, <2>2 DEF Left, Printable
  <2>3. CASE MaySelect(i, uc)
    <3>1. PICK u \in Rows : u = uc[i]
      BY <1>1, RowsOf
    <3>2. Printable(i) = PrintableRow(u)
      BY <2>3, <3>1 DEF Printable, PrintableRow
    <3> QED BY <2>1, <2>3, <3>1, <3>2, KeptSays DEF Left
  <2> QED BY <2>2, <2>3
<1>2. ColumnsInv => RunningConfigRestores
  BY <1>1 DEF RunningConfigRestores
<1> QED BY <1>2, ColumnsAreInvariant, PTL
=============================================================================
