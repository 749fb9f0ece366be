--------------------------- MODULE IntfShowProofs ---------------------------
(***************************************************************************)
(* Theorems about IntfShow, for any database the commands can have left:   *)
(* what "show running-config interface" prints, entered again, gives the   *)
(* same rows; with a name it prints the section of that name; the outputs  *)
(* of the show commands agree with each other and with what intfd makes of *)
(* the row; the totals of the LAGs are sums over their members.            *)
(***************************************************************************)
EXTENDS IntfCliProofs

-----------------------------------------------------------------------------
(* The lists made of sets, and of lists of lists.                          *)
LEMMA SetListed ==
    ASSUME NEW S, IsFiniteSet(S)
    PROVE  /\ SetToSeq(S) \in Seq(S)
           /\ IsList(SetToSeq(S), S)
           /\ \A x \in S : In(x, SetToSeq(S))
<1> DEFINE list == SetToSeq(S)
<1>1. /\ EnterLoop!Lists(EnterLoop!SetToSeq(S), S)
      /\ EnterLoop!SetToSeq(S) \in Seq(S)
      /\ Len(EnterLoop!SetToSeq(S)) = EnterLoop!Cardinality(S)
  <2>1. EnterLoop!IsFiniteSet(S)
    BY DEF EnterLoop!IsFiniteSet, IsFiniteSet
  <2> QED BY <2>1, EnterLoop!SetToSeqLists
<1>2. EnterLoop!SetToSeq(S) = list
  BY DEF SetToSeq, EnterLoop!SetToSeq, Cardinality, EnterLoop!Cardinality,
         IsInjective, EnterLoop!IsInjective
<1>3. /\ EnterLoop!Lists(list, S) /\ list \in Seq(S)
      /\ Len(list) = EnterLoop!Cardinality(S)
  BY <1>1, <1>2
<1> HIDE DEF list
<1>4. IsList(list, S)
  BY <1>3 DEF EnterLoop!Lists, IsList
<1>5. \A x \in S : In(x, list)
  BY <1>3 DEF EnterLoop!Lists, In
<1> QED BY <1>3, <1>4, <1>5 DEF list

LEMMA FlattenStays ==
    ASSUME NEW X, NEW seqs \in Seq(Seq(X))
    PROVE  FlattenSeq(seqs) \in Seq(X)
<1>1. PICK f \in [0..Len(seqs) -> Seq(X)] :
         EnterLoop!Joins(f, seqs) /\ EnterLoop!FlattenSeq(seqs) = f[Len(seqs)]
  BY EnterLoop!FlattenJoins
<1>2. EnterLoop!FlattenSeq(seqs) = FlattenSeq(seqs)
  BY DEF FlattenSeq, EnterLoop!FlattenSeq
<1>3. Len(seqs) \in 0..Len(seqs)
  OBVIOUS
<1> QED BY <1>1, <1>2, <1>3

LEMMA WhenStays ==
    ASSUME NEW X, NEW b, NEW s \in Seq(X)
    PROVE  When(b, s) \in Seq(X)
BY DEF When

LEMMA SingleStays ==
    ASSUME NEW X, NEW c \in X
    PROVE  <<c>> \in Seq(X)
OBVIOUS

LEMMA EnteredBoth ==
    ASSUME NEW shown \in BOOLEAN, NEW r \in States,
           NEW s \in Seq(Commands(shown)), NEW t \in Seq(Commands(shown))
    PROVE  Entered(shown, r, s \o t) = Entered(shown, Entered(shown, r, s), t)
BY EnteredIs

(* Commands that change nothing: those of other columns, and, as long as   *)
(* no interface is selected, all that select none.                         *)
Quiet == RowCommands \cup OtherCommands \cup Ends

LEMMA QuietCommands ==
    ASSUME NEW shown, shown = TRUE, NEW r \in States, NEW list
    PROVE  /\ list \in Seq(OtherCommands) => Entered(shown, r, list) = r
           /\ r.sel = NoInterface /\ list \in Seq(Quiet) => Entered(shown, r, list) = r
           /\ OtherCommands \subseteq Commands(shown) /\ Quiet \subseteq Commands(shown)
<1>1. OtherCommands \subseteq Commands(shown) /\ Quiet \subseteq Commands(shown)
  BY DEF Commands, Quiet
<1>2. r = [sel |-> r.sel, uc |-> r.uc]
  BY DEF States
<1>3. \A c \in OtherCommands : EnterStep(shown, r, c) = r
  BY <1>1, StepIs
<1>4. ASSUME r.sel = NoInterface, NEW c \in Quiet PROVE EnterStep(shown, r, c) = r
  <2>1. c \in Commands(shown)
    BY <1>1
  <2>2. CASE c \in RowCommands
    BY <1>4, <2>1, <2>2, StepIs
  <2>3. CASE c \in Ends
    BY <1>2, <1>4, <2>1, <2>3, StepIs
  <2> QED BY <1>3, <2>2, <2>3 DEF Quiet
<1> DEFINE T == {r}
<1>5. ASSUME NEW X, \A c \in X : EnterStep(shown, r, c) = r, list \in Seq(X)
      PROVE  Entered(shown, r, list) = r
  <2>1. r \in T /\ \A q \in T, c \in X : EnterStep(shown, q, c) \in T
    BY <1>5
  <2> HIDE DEF T
  <2>2. EnterLoop!Result(shown, r, list) \in T
    BY <1>5, <2>1, EnterLoop!ResultInSet
  <2> QED BY <2>2 DEF T, Entered
<1>6. list \in Seq(OtherCommands) => Entered(shown, r, list) = r
  BY <1>3, <1>5
<1>7. r.sel = NoInterface /\ list \in Seq(Quiet) => Entered(shown, r, list) = r
  BY <1>4, <1>5
<1> QED BY <1>1, <1>6, <1>7

-----------------------------------------------------------------------------
(* What a section and the LAGs consist of.                                 *)

LEMMA QosLinesAre ==
    ASSUME NEW p \in PortName
    PROVE  qos_port_show_running_config(p) \in Seq(OtherCommands)
<1> DEFINE X == OtherCommands
           keys == <<"trust", "schedule", "cos", "dscp">>
           lines(k) == When(qos[p][keys[k]] # "absent", <<Cmd(keys[k], qos[p][keys[k]], FALSE)>>)
           seqs == [k \in 1..4 |-> lines(k)]
<1>1. ASSUME NEW k \in 1..4 PROVE lines(k) \in Seq(X)
  <2>1. PICK key \in QosKeys : key = keys[k]
    BY DEF QosKeys
  <2>5. PICK v : v = qos[p][key] /\ v \in QosValues
    BY DEF QosValues
  <2>2. Cmd(key, v, FALSE) \in X
    <3>1. Cmd(key, v, FALSE) \in QosCommands
      <4>1. Cmd(key, v, FALSE) \in {Cmd(key, w, FALSE) : w \in QosValues}
        BY <2>5
      <4> QED BY <4>1 DEF QosCommands
    <3> QED BY <3>1 DEF OtherCommands
  <2> HIDE DEF X
  <2>3. PICK c \in X : c = Cmd(key, qos[p][key], FALSE)
    BY <2>2, <2>5
  <2>4. <<c>> \in Seq(X)
    BY <2>3, SingleStays
  <2> QED BY <2>1, <2>3, <2>4, WhenStays
<1>2. seqs \in Seq(Seq(X))
  <2> HIDE DEF X, lines
  <2> QED BY <1>1
<1>3. FlattenSeq(seqs) \in Seq(X)
  <2> HIDE DEF X, seqs
  <2> QED BY <1>2, FlattenStays
<1>4. \/ qos_port_show_running_config(p) = <<>>
      \/ qos_port_show_running_config(p) = FlattenSeq(seqs)
  BY DEF qos_port_show_running_config
<1>5. <<>> \in Seq(X)
  OBVIOUS
<1> HIDE DEF seqs
<1> QED BY <1>3, <1>4, <1>5

LEMMA L3LinesAre ==
    ASSUME NEW i \in Interface
    PROVE  parse_l3config(i) \in Seq(OtherCommands)
<1> DEFINE X == OtherCommands
<1>1. PICK a \in X, b \in X : a = Cmd("routing", "", TRUE) /\ b = Cmd("ip address", i, FALSE)
  BY DEF OtherCommands, PortName
<1>2. PICK s, t : /\ s = When(i \in ports /\ l3[i] = "bridged", <<a>>)
                  /\ t = When(i \in ports /\ l3[i] = "address", <<b>>)
  OBVIOUS
<1> HIDE DEF X
<1>3. s \in Seq(X) /\ t \in Seq(X)
  BY <1>2 DEF When
<1>4. s \o t \in Seq(X)
  BY <1>3
<1> QED BY <1>1, <1>2, <1>4 DEF X, parse_l3config

LEMMA LagLineIs ==
    ASSUME NEW i \in Interface
    PROVE  print_interface_lag(i) \in Seq(OtherCommands)
<1> DEFINE S == {l \in ports \cap Lag : l \in PortOf(i)}
           lags == SetToSeq(S)
           X == OtherCommands
<1>1. lags \in Seq(S)
  <2>1. IsFiniteSet(S)
    BY FS_Subset, CliAssumption
  <2> HIDE DEF S
  <2> QED BY <2>1, SetListed
<1>2. print_interface_lag(i) = [k \in DOMAIN lags |-> Cmd("lag", lags[k], FALSE)]
  BY DEF print_interface_lag
<1>3. \A l \in S : Cmd("lag", l, FALSE) \in X
  BY DEF OtherCommands
<1> HIDE DEF X, S, lags
<1>4. [k \in DOMAIN lags |-> Cmd("lag", lags[k], FALSE)] \in Seq(X)
  <2>1. DOMAIN lags = 1..Len(lags) /\ Len(lags) \in Nat /\ \A k \in 1..Len(lags) : lags[k] \in S
    BY <1>1
  <2>2. PICK f : f = [k \in DOMAIN lags |-> Cmd("lag", lags[k], FALSE)]
    OBVIOUS
  <2>3. f \in [1..Len(lags) -> X]
    BY <1>3, <2>1, <2>2
  <2>4. f \in Seq(X)
    BY <2>1, <2>3
  <2> QED BY <2>2, <2>4
<1> QED BY <1>2, <1>4 DEF X

LEMMA LagsAreQuiet ==
    parse_lag(All) \in Seq(Quiet)
<1> DEFINE S == ports \cap Lag
           lags == SetToSeq(S)
           seqs == [k \in DOMAIN lags |-> LagLines(lags[k], All)]
<1>1. lags \in Seq(S)
  <2>1. IsFiniteSet(S)
    BY FS_Subset, CliAssumption
  <2> HIDE DEF S
  <2> QED BY <2>1, SetListed
<1>2. parse_lag(All) = FlattenSeq(seqs)
  BY CliAssumption DEF parse_lag, All
<1>3. ASSUME NEW l \in S PROVE LagLines(l, All) \in Seq(Quiet)
  <2> DEFINE X == Quiet
  <2>1. PICK h \in X, u \in X, b \in X, a \in X :
           /\ h = Cmd("interface lag", l, FALSE) /\ u = Cmd("shutdown", "", TRUE)
           /\ b = Cmd("routing", "", TRUE) /\ a = Cmd("ip address", l, FALSE)
    BY DEF Quiet, Ends, RowCommands, OtherCommands, PortName
  <2>2. PICK q : q = qos_port_show_running_config(l) /\ q \in Seq(X)
    <3>1. qos_port_show_running_config(l) \in Seq(OtherCommands)
      BY QosLinesAre DEF PortName
    <3> QED BY <3>1 DEF Quiet
  <2> HIDE DEF X
  <2>3. PICK s, t, w :
           /\ s = When(padmin[l] = "up", <<u>>) /\ t = When(l3[l] = "bridged", <<b>>)
           /\ w = When(l3[l] = "address", <<a>>)
    OBVIOUS
  <2>7. s \in Seq(X)
    BY <2>3, WhenStays, SingleStays
  <2>8. t \in Seq(X)
    BY <2>3, WhenStays, SingleStays
  <2>9. w \in Seq(X)
    BY <2>3, WhenStays, SingleStays
  <2>4. <<h>> \o s \o t \o q \in Seq(X)
    BY <2>2, <2>7, <2>8
  <2>5. PICK v \in Seq(X) : v = When(All \in {All, l} \/ <<All, l>> \in PrefixOf, <<h>> \o s \o t \o q)
    BY <2>4 DEF When
  <2>6. v \o w \in Seq(X)
    BY <2>5, <2>9
  <2> QED BY <2>1, <2>2, <2>3, <2>5, <2>6 DEF X, LagLines
<1> HIDE DEF lags, S
<1>4. seqs \in Seq(Seq(Quiet))
  <2>1. DOMAIN lags = 1..Len(lags) /\ Len(lags) \in Nat /\ \A k \in 1..Len(lags) : lags[k] \in S
    BY <1>1
  <2>2. seqs \in [1..Len(lags) -> Seq(Quiet)]
    BY <1>3, <2>1
  <2> QED BY <2>1, <2>2
<1> QED
  <2> HIDE DEF seqs
  <2> QED BY <1>2, <1>4, FlattenStays

-----------------------------------------------------------------------------
(* The section of an interface.                                            *)
SectionLines(i) == BeforePause(i) \o PauseLines(i) \o AfterPause(i)

ShowSection(i) ==
    IF SectionLines(i) = <<>> /\ i \notin ports THEN <<>> ELSE Header(i) \o SectionLines(i) \o Exit

(* All that is kept of a user_config: only "autonegotiation on" is not.    *)
Full(u) ==
    Row(IF u.admin = "up" THEN "up" ELSE "absent", IF u.autoneg = "off" THEN "off" ELSE "absent",
        u.pause, u.duplex, u.mtu, u.speeds, u.lane_split)

LEMMA MakesQuietly ==
    ASSUME NEW shown, shown = TRUE, NEW i \in Interface, NEW g \in [Interface -> Rows],
           NEW u \in Rows, NEW list \in Seq(OtherCommands)
    PROVE  Makes(shown, i, g, u, list, u)
<1>1. At(i, g, u) \in States
  BY AtIs
<1>2. Entered(shown, At(i, g, u), list) = At(i, g, u) /\ OtherCommands \subseteq Commands(shown)
  BY <1>1, QuietCommands
<1>3. list \in Seq(Commands(shown))
  <2> DEFINE X == Commands(shown)
             Y == OtherCommands
  <2>1. list \in Seq(Y) /\ Y \subseteq X
    BY <1>2
  <2> HIDE DEF X, Y
  <2>2. list \in Seq(X)
    BY <2>1
  <2> QED BY <2>2 DEF X
<1> QED BY <1>2, <1>3 DEF Makes

LEMMA MoreQuietly ==
    ASSUME NEW shown, shown = TRUE, NEW i \in Interface, NEW g \in [Interface -> Rows],
           NEW v, NEW u, NEW s, Makes(shown, i, g, v, s, u), NEW t \in Seq(OtherCommands)
    PROVE  Makes(shown, i, g, v, s \o t, u)
<1>1. u \in Rows /\ shown \in BOOLEAN
  BY DEF Makes
<1>2. Makes(shown, i, g, u, t, u)
  BY <1>1, MakesQuietly
<1> QED BY <1>1, <1>2, MakesBoth

(* The lines of an interface, with q for its QoS, a for its addresses and  *)
(* lag for its LAG.                                                        *)
ShowLines(b, c, d, q, a, lag) ==
    (When(b[1], <<Up>>) \o When(b[3], <<c>>) \o When(b[4], <<d>>) \o When(b[5], <<Half>>) \o q)
    \o (When(b[6], <<ReceiveOn>>) \o When(b[7], <<SendOn>>))
    \o (When(b[8], <<Off>>) \o When(b[2], <<Split>>) \o a \o lag)

LEMMA ShowLinesMake ==
    ASSUME NEW shown, shown = TRUE, NEW i \in Interface, NEW g \in [Interface -> Rows],
           NEW b, NEW c, NEW d,
           NEW q \in Seq(OtherCommands), NEW a \in Seq(OtherCommands), NEW lag \in Seq(OtherCommands),
           NEW r0 \in Rows, NEW r1, NEW r3, NEW r4, NEW r5, NEW r6, NEW r7, NEW r8, NEW r9,
           Enters(i, b, 1, Up, r0, r1), Enters(i, b, 3, c, r1, r3), Enters(i, b, 4, d, r3, r4),
           Enters(i, b, 5, Half, r4, r5), Enters(i, b, 6, ReceiveOn, r5, r6),
           Enters(i, b, 7, SendOn, r6, r7), Enters(i, b, 8, Off, r7, r8), Enters(i, b, 2, Split, r8, r9)
    PROVE  Makes(shown, i, g, r0, ShowLines(b, c, d, q, a, lag), r9)
<1> DEFINE l1 == When(b[1], <<Up>>)
           n3 == l1 \o When(b[3], <<c>>)
           l4 == n3 \o When(b[4], <<d>>)
           l5 == l4 \o When(b[5], <<Half>>)
           lq == l5 \o q
           l6 == When(b[6], <<ReceiveOn>>)
           l7 == l6 \o When(b[7], <<SendOn>>)
           l8 == When(b[8], <<Off>>)
           l9 == l8 \o When(b[2], <<Split>>)
           la == l9 \o a
           ll == la \o lag
           lp == lq \o l7
<1>1. shown \in BOOLEAN
  OBVIOUS
<1>2. lp \o ll = ShowLines(b, c, d, q, a, lag)
  BY DEF ShowLines
<1>3. Makes(shown, i, g, r0, l1, r1)
  BY <1>1, LineMakes
<1> HIDE DEF l1
<1>4. Makes(shown, i, g, r0, n3, r3)
  BY <1>1, <1>3, MoreMakes
<1> HIDE DEF n3
<1>5. Makes(shown, i, g, r0, l4, r4)
  BY <1>1, <1>4, MoreMakes
<1> HIDE DEF l4
<1>6. Makes(shown, i, g, r0, l5, r5)
  BY <1>1, <1>5, MoreMakes
<1>7. r5 \in Rows
  BY <1>6 DEF Makes
<1> HIDE DEF l5
<1>8. Makes(shown, i, g, r0, lq, r5)
  BY <1>1, <1>6, MoreQuietly
<1> HIDE DEF lq
<1>9. Makes(shown, i, g, r5, l6, r6)
  BY <1>1, <1>7, LineMakes
<1> HIDE DEF l6
<1>10. Makes(shown, i, g, r5, l7, r7)
  BY <1>1, <1>9, MoreMakes
<1>11. r7 \in Rows
  BY <1>10 DEF Makes
<1> HIDE DEF l7
<1>12. Makes(shown, i, g, r7, l8, r8)
  BY <1>1, <1>11, LineMakes
<1> HIDE DEF l8
<1>13. Makes(shown, i, g, r7, l9, r9)
  BY <1>1, <1>12, MoreMakes
<1> HIDE DEF l9
<1>14. Makes(shown, i, g, r7, la, r9)
  BY <1>1, <1>13, MoreQuietly
<1> HIDE DEF la
<1>15. Makes(shown, i, g, r7, ll, r9)
  BY <1>1, <1>14, MoreQuietly
<1> HIDE DEF ll
<1>16. Makes(shown, i, g, r0, lp, r7)
  BY <1>1, <1>8, <1>10, MakesBoth
<1> HIDE DEF lp
<1>17. Makes(shown, i, g, r0, lp \o ll, r9)
  BY <1>1, <1>15, <1>16, MakesBoth
<1> QED BY <1>2, <1>17

(* The parts of the section of a row, by what its values are.             *)
OfParts(i, b, c, d) ==
    /\ BeforePause(i) = When(b[1], <<Up>>) \o When(b[3], <<c>>) \o When(b[4], <<d>>)
                        \o When(b[5], <<Half>>) \o qos_port_show_running_config(i)
    /\ PauseLines(i) = When(b[6], <<ReceiveOn>>) \o When(b[7], <<SendOn>>)
    /\ AfterPause(i) = When(b[8], <<Off>>) \o When(b[2], <<Split>>)
                       \o parse_l3config(i) \o print_interface_lag(i)

LEMMA LinesOfParts ==
    ASSUME NEW i \in Interface, NEW u, u = uc[i], u \in Rows, RowOK(i, u), NEW b, b = Printed(u),
           NEW c, c = SetSpeed(u.speeds[1]), NEW d, d = SetMtu(u.mtu)
    PROVE  OfParts(i, b, c, d)
<1>2. u.mtu \notin {NoMtu, INTFD_DEFAULT_MTU} <=> b[4]
  BY PrintedAre, PrintedIs
<1>3. When(b[1], <<Up>>) = When(u.admin = "up", <<Cmd("shutdown", "", TRUE)>>)
  BY PrintedIs DEF When, Up
<1>4. When(b[2], <<Split>>) = When(u.lane_split = "split", <<Cmd("split", "", FALSE)>>)
  BY PrintedIs DEF When, Split
<1>5. When(b[3], <<c>>) = When(u.speeds # <<>>, <<CmdN("speed", u.speeds[1], FALSE)>>)
  BY PrintedIs DEF When, SetSpeed
<1>6. When(b[4], <<d>>) = When(u.mtu \notin {NoMtu, INTFD_DEFAULT_MTU}, <<CmdN("mtu", u.mtu, FALSE)>>)
  BY <1>2 DEF When, SetMtu
<1>7. When(b[5], <<Half>>) = When(u.duplex = "half", <<Cmd("duplex", "half", FALSE)>>)
  BY PrintedIs DEF When, Half
<1>8. When(b[6], <<ReceiveOn>>) = When(u.pause \in {"rx", "rxtx"}, <<ReceiveOn>>)
  BY PrintedIs DEF When
<1>9. When(b[7], <<SendOn>>) = When(u.pause \in {"tx", "rxtx"}, <<SendOn>>)
  BY PrintedIs DEF When
<1>10. When(b[8], <<Off>>) = When(u.autoneg = "off", <<Cmd("autonegotiation", "off", FALSE)>>)
  BY PrintedIs DEF When, Off
<1>11. BeforePause(i) = When(b[1], <<Up>>) \o When(b[3], <<c>>) \o When(b[4], <<d>>)
                        \o When(b[5], <<Half>>) \o qos_port_show_running_config(i)
  BY <1>3, <1>5, <1>6, <1>7 DEF BeforePause
<1>12. PauseLines(i) = When(b[6], <<ReceiveOn>>) \o When(b[7], <<SendOn>>)
  BY <1>8, <1>9 DEF PauseLines
<1>13. AfterPause(i) = When(b[8], <<Off>>) \o When(b[2], <<Split>>)
                       \o parse_l3config(i) \o print_interface_lag(i)
  BY <1>4, <1>10 DEF AfterPause
<1> QED BY <1>11, <1>12, <1>13 DEF OfParts

LEMMA ShowLinesAre ==
    ASSUME NEW i \in Interface, NEW u, u = uc[i], u \in Rows, RowOK(i, u)
    PROVE  SectionLines(i) = ShowLines(Printed(u), SetSpeed(u.speeds[1]), SetMtu(u.mtu),
                                qos_port_show_running_config(i), parse_l3config(i),
                                print_interface_lag(i))
<1>1. PICK b, c, d : b = Printed(u) /\ c = SetSpeed(u.speeds[1]) /\ d = SetMtu(u.mtu)
  OBVIOUS
<1>2. OfParts(i, b, c, d)
  BY <1>1, LinesOfParts
<1> QED BY <1>1, <1>2, Zenon DEF SectionLines, ShowLines, OfParts

-----------------------------------------------------------------------------
LEMMA SectionMakes ==
    ASSUME NEW shown, shown = TRUE, NEW i \in Interface, NEW g \in [Interface -> Rows],
           NEW u, u = uc[i], u \in Rows, RowOK(i, u)
    PROVE  Makes(shown, i, g, NoUserConfig, SectionLines(i), Full(u))
<1>1. PICK b : b = Printed(u)
  OBVIOUS
<1>2. PICK c, d : c = SetSpeed(u.speeds[1]) /\ d = SetMtu(u.mtu)
  OBVIOUS
<1>3. PICK q, a, lag : /\ q = qos_port_show_running_config(i) /\ a = parse_l3config(i)
                       /\ lag = print_interface_lag(i)
  OBVIOUS
<1>4. q \in Seq(OtherCommands) /\ a \in Seq(OtherCommands) /\ lag \in Seq(OtherCommands)
  <2>1. i \in PortName
    BY DEF PortName
  <2> QED BY <1>3, <2>1, QosLinesAre, L3LinesAre, LagLineIs
<1>5. SectionLines(i) = ShowLines(b, c, d, q, a, lag)
  BY <1>1, <1>2, <1>3, ShowLinesAre
<1>6. /\ b \in [1..8 -> BOOLEAN]
      /\ b[1] \in BOOLEAN /\ b[2] \in BOOLEAN /\ b[3] \in BOOLEAN /\ b[4] \in BOOLEAN
      /\ b[5] \in BOOLEAN /\ b[6] \in BOOLEAN /\ b[7] \in BOOLEAN /\ b[8] \in BOOLEAN
      /\ b[3] => c \in RowCommands
      /\ b[4] => d \in RowCommands
      /\ Up \in RowCommands /\ Split \in RowCommands /\ Half \in RowCommands
      /\ ReceiveOn \in RowCommands /\ SendOn \in RowCommands /\ Off \in RowCommands
  <2>1. b \in [1..8 -> BOOLEAN]
    BY <1>1, PrintedIs
  <2>2. /\ b[3] => c \in RowCommands
        /\ b[4] => d \in RowCommands
        /\ {Up, Split, Half, ReceiveOn, SendOn, Off} \subseteq RowCommands
    BY <1>1, <1>2, PrintedAre, PrintedIs
  <2> QED BY <2>1, <2>2
<1>7. /\ u.pause \in {"absent", "rx", "tx", "rxtx"} /\ u.duplex \in {"absent", "half"}
      /\ u.lane_split \in {"absent", "split"}
  BY RowsAre
<1> DEFINE A == IF u.admin = "up" THEN "up" ELSE "absent"
           N == IF u.autoneg = "off" THEN "off" ELSE "absent"
           P == IF u.pause \in {"rx", "rxtx"} THEN "rx" ELSE "absent"
           r0 == Row("absent", "absent", "absent", "absent", NoMtu, <<>>, "absent")
           r1 == Row(A, "absent", "absent", "absent", NoMtu, <<>>, "absent")
           r3 == Row(A, "absent", "absent", "absent", NoMtu, u.speeds, "absent")
           r4 == Row(A, "absent", "absent", "absent", u.mtu, u.speeds, "absent")
           r5 == Row(A, "absent", "absent", u.duplex, u.mtu, u.speeds, "absent")
           r6 == Row(A, "absent", P, u.duplex, u.mtu, u.speeds, "absent")
           r7 == Row(A, "absent", u.pause, u.duplex, u.mtu, u.speeds, "absent")
           r8 == Row(A, N, u.pause, u.duplex, u.mtu, u.speeds, "absent")
           r9 == Row(A, N, u.pause, u.duplex, u.mtu, u.speeds, u.lane_split)
<1>8. r0 = NoUserConfig /\ r0 \in Rows
  BY NoUserConfigIs
<1>9. r9 = Full(u)
  BY DEF Full
<1>10. Enters(i, b, 1, Up, r0, r1)
  <2>1. b[1] <=> u.admin = "up"
    BY <1>1, PrintedIs
  <2> QED BY <1>6, <2>1, EnterUp DEF Enters
<1> HIDE DEF A
<1>11. Enters(i, b, 3, c, r1, r3)
  <2>1. b[3] <=> u.speeds # <<>>
    BY <1>1, PrintedIs
  <2>2. CASE b[3]
    <3>1. PICK x \in Range(HwOf[i].speeds) : u.speeds = <<x>> /\ c = SetSpeed(x)
      BY <1>2, <2>1, <2>2, PrintedAre
    <3>2. EnterRow(i, SetSpeed(x), r1) = Row(A, "absent", "absent", "absent", NoMtu, <<x>>, "absent")
      BY EnterSpeed
    <3> QED BY <1>6, <2>2, <3>1, <3>2 DEF Enters
  <2>3. CASE ~b[3]
    BY <1>6, <2>1, <2>3 DEF Enters
  <2> QED BY <1>6, <2>2, <2>3
<1>12. Enters(i, b, 4, d, r3, r4)
  <2>1. b[4] <=> u.mtu # NoMtu
    BY <1>1, PrintedIs
  <2>2. CASE b[4]
    <3>1. PICK x \in MtuRange \ {INTFD_DEFAULT_MTU} : u.mtu = x /\ d = SetMtu(x)
      BY <1>2, <2>1, <2>2, PrintedAre
    <3>2. EnterRow(i, SetMtu(x), r3) = Row(A, "absent", "absent", "absent", x, u.speeds, "absent")
      BY EnterMtu
    <3> QED BY <1>6, <2>2, <3>1, <3>2 DEF Enters
  <2>3. CASE ~b[4]
    BY <1>6, <2>1, <2>3 DEF Enters
  <2> QED BY <1>6, <2>2, <2>3
<1>13. Enters(i, b, 5, Half, r4, r5)
  <2>1. b[5] <=> u.duplex = "half"
    BY <1>1, PrintedIs
  <2> QED BY <1>6, <1>7, <2>1, EnterHalf DEF Enters
<1>14. Enters(i, b, 6, ReceiveOn, r5, r6)
  <2>1. b[6] <=> u.pause \in {"rx", "rxtx"}
    BY <1>1, PrintedIs
  <2> QED BY <1>6, <2>1, EnterReceive DEF Enters
<1>15. Enters(i, b, 7, SendOn, r6, r7)
  <2>1. b[7] <=> u.pause \in {"tx", "rxtx"}
    BY <1>1, PrintedIs
  <2>2. P \in {"absent", "rx"}
    OBVIOUS
  <2>3. u.pause = IF b[7] THEN IF P = "rx" THEN "rxtx" ELSE "tx" ELSE P
    BY <1>7, <2>1
  <2> HIDE DEF P
  <2>4. EnterRow(i, SendOn, r6)
          = Row(A, "absent", IF P = "rx" THEN "rxtx" ELSE "tx", u.duplex, u.mtu, u.speeds, "absent")
    BY <2>2, EnterSend
  <2> QED BY <1>6, <2>3, <2>4 DEF Enters
<1>16. Enters(i, b, 8, Off, r7, r8)
  <2>1. b[8] <=> u.autoneg = "off"
    BY <1>1, PrintedIs
  <2> QED BY <1>6, <2>1, EnterOff DEF Enters
<1> HIDE DEF N
<1>17. Enters(i, b, 2, Split, r8, r9)
  <2>1. b[2] <=> u.lane_split = "split"
    BY <1>1, PrintedIs
  <2>2. b[2] => i \in Splittable
    BY <2>1, PrintedAre
  <2>3. b[2] => EnterRow(i, Split, r8) = Row(A, N, u.pause, u.duplex, u.mtu, u.speeds, "split")
    BY <2>2, EnterSplit
  <2> QED BY <1>6, <1>7, <2>1, <2>3 DEF Enters
<1> HIDE DEF r0, r1, r3, r4, r5, r6, r7, r8, r9
<1>18. Makes(shown, i, g, r0, ShowLines(b, c, d, q, a, lag), r9)
  BY <1>4, <1>8, <1>10, <1>11, <1>12, <1>13, <1>14, <1>15, <1>16, <1>17, ShowLinesMake
<1> QED BY <1>5, <1>8, <1>9, <1>18

(* A section holds settings, ...                                           *)
Settings == RowCommands \cup OtherCommands

LEMMA SectionIsSettings ==
    ASSUME NEW i \in Interface, NEW u, u = uc[i], u \in Rows, RowOK(i, u)
    PROVE  /\ BeforePause(i) \in Seq(Settings) /\ PauseLines(i) \in Seq(Settings)
           /\ AfterPause(i) \in Seq(Settings) /\ SectionLines(i) \in Seq(Settings)
<1>1. PICK b, c, d : b = Printed(u) /\ c = SetSpeed(u.speeds[1]) /\ d = SetMtu(u.mtu)
  OBVIOUS
<1>2. PICK q, a, lag : /\ q = qos_port_show_running_config(i) /\ a = parse_l3config(i)
                       /\ lag = print_interface_lag(i)
  OBVIOUS
<1>4. /\ b[3] => c \in Settings
      /\ b[4] => d \in Settings
      /\ Up \in Settings /\ Split \in Settings /\ Half \in Settings
      /\ ReceiveOn \in Settings /\ SendOn \in Settings /\ Off \in Settings
  <2>1. /\ b[3] => c \in RowCommands
        /\ b[4] => d \in RowCommands
        /\ {Up, Split, Half, ReceiveOn, SendOn, Off} \subseteq RowCommands
    BY <1>1, PrintedAre, PrintedIs
  <2> QED BY <2>1 DEF Settings
<1>5. OtherCommands \subseteq Settings
  BY DEF Settings
<1> DEFINE X == Settings
           Y == OtherCommands
<1>6. q \in Seq(Y) /\ a \in Seq(Y) /\ lag \in Seq(Y)
  <2>1. i \in PortName
    BY DEF PortName
  <2> QED BY <1>2, <2>1, QosLinesAre, L3LinesAre, LagLineIs
<1>7. Y \subseteq X
  BY <1>5
<1> HIDE DEF X, Y
<1>8. q \in Seq(X) /\ a \in Seq(X) /\ lag \in Seq(X)
  BY <1>6, <1>7
<1>9. PICK w1, w2, w3, w4 : /\ w1 = When(b[1], <<Up>>) /\ w2 = When(b[2], <<Split>>)
                            /\ w3 = When(b[3], <<c>>) /\ w4 = When(b[4], <<d>>)
  OBVIOUS
<1>10. PICK w5, w6, w7, w8 : /\ w5 = When(b[5], <<Half>>) /\ w6 = When(b[6], <<ReceiveOn>>)
                             /\ w7 = When(b[7], <<SendOn>>) /\ w8 = When(b[8], <<Off>>)
  OBVIOUS
<1>11. w1 \in Seq(X) /\ w2 \in Seq(X)
  BY <1>4, <1>9, WhenStays, SingleStays DEF X
<1>12. w3 \in Seq(X)
  BY <1>4, <1>9, SingleStays DEF X, When
<1>13. w4 \in Seq(X)
  BY <1>4, <1>9, SingleStays DEF X, When
<1>14. w5 \in Seq(X) /\ w6 \in Seq(X)
  BY <1>4, <1>10, WhenStays, SingleStays DEF X
<1>15. w7 \in Seq(X) /\ w8 \in Seq(X)
  BY <1>4, <1>10, WhenStays, SingleStays DEF X
<1>16. w1 \o w3 \o w4 \o w5 \o q \in Seq(X)
  BY <1>8, <1>11, <1>12, <1>13, <1>14
<1>17. w8 \o w2 \o a \o lag \in Seq(X)
  BY <1>8, <1>11, <1>15
<1>18. w6 \o w7 \in Seq(X)
  BY <1>14, <1>15
<1>19. /\ BeforePause(i) = w1 \o w3 \o w4 \o w5 \o q
       /\ PauseLines(i) = w6 \o w7
       /\ AfterPause(i) = w8 \o w2 \o a \o lag
  <2>1. OfParts(i, b, c, d)
    BY <1>1, LinesOfParts
  <2>2. BeforePause(i) = w1 \o w3 \o w4 \o w5 \o q
    BY <1>2, <1>9, <1>10, <2>1, Zenon DEF OfParts
  <2>3. PauseLines(i) = w6 \o w7
    BY <1>10, <2>1, Zenon DEF OfParts
  <2>4. AfterPause(i) = w8 \o w2 \o a \o lag
    BY <1>2, <1>9, <1>10, <2>1, Zenon DEF OfParts
  <2> QED BY <2>2, <2>3, <2>4
<1>20. PICK s1, s2, s3 : s1 = BeforePause(i) /\ s2 = PauseLines(i) /\ s3 = AfterPause(i)
  OBVIOUS
<1>21. s1 \in Seq(X) /\ s2 \in Seq(X) /\ s3 \in Seq(X)
  BY <1>16, <1>17, <1>18, <1>19, <1>20
<1>22. SectionLines(i) = (s1 \o s2) \o s3
  BY <1>20 DEF SectionLines
<1>23. (s1 \o s2) \o s3 \in Seq(X)
  BY <1>21
<1> QED BY <1>20, <1>21, <1>22, <1>23 DEF X

(* ... which change nothing as long as no interface is selected.           *)
LEMMA SectionIsQuiet ==
    ASSUME NEW i \in Interface, NEW u, u = uc[i], u \in Rows, RowOK(i, u)
    PROVE  SectionLines(i) \in Seq(Quiet)
<1> DEFINE X == Quiet
           Y == Settings
<1>1. SectionLines(i) \in Seq(Y)
  BY SectionIsSettings
<1>2. Y \subseteq X
  BY DEF Quiet, Settings
<1> HIDE DEF X, Y
<1>3. SectionLines(i) \in Seq(X)
  BY <1>1, <1>2
<1> QED BY <1>3 DEF X

-----------------------------------------------------------------------------
(* Entering a section, on a switch of which r is what has been configured. *)
Wanted(i) == IF MaySelect(i, uc) THEN Full(uc[i]) ELSE NoUserConfig
WantedRows == [i \in Interface |-> Wanted(i)]

LEMMA FullIs ==
    ASSUME NEW u \in Rows
    PROVE  Full(u) \in Rows /\ Full(u).lane_split = u.lane_split
<1>1. PICK A, N : /\ A = (IF u.admin = "up" THEN "up" ELSE "absent")
                  /\ N = IF u.autoneg = "off" THEN "off" ELSE "absent"
  OBVIOUS
<1>2. /\ A \in {"absent", "up", "down"} /\ N \in {"absent", "on", "off"}
  BY <1>1
<1> QED BY <1>1, <1>2, RowsAre DEF Full, Row, Rows

LEMMA WantedSelects ==
    ASSUME ColumnsInv, NEW i \in Interface, NEW g,
           ParentOf[i] # NoInterface => g[ParentOf[i]] = WantedRows[ParentOf[i]]
    PROVE  MaySelect(i, g) <=> MaySelect(i, uc)
<1>1. CASE ParentOf[i] = NoInterface
  BY <1>1 DEF MaySelect
<1>2. CASE ParentOf[i] # NoInterface
  <2>1. PICK p \in Interface : p = ParentOf[i] /\ ParentOf[p] = NoInterface
    BY <1>2, CliAssumption
  <2>2. g[p] = Full(uc[p])
    BY <1>2, <2>1 DEF WantedRows, Wanted, MaySelect
  <2>3. g[p].lane_split = uc[p].lane_split
    BY <2>2, RowsOf, FullIs
  <2> QED BY <2>1, <2>3 DEF MaySelect, is_parent_interface_split
<1> QED BY <1>1, <1>2

LEMMA ConcatStays ==
    ASSUME NEW X, NEW s \in Seq(X), NEW t \in Seq(X)
    PROVE  s \o t \in Seq(X)
OBVIOUS

Associates(s, t, u, v) == ((s \o t) \o u) \o v = s \o ((t \o u) \o v)

LEMMA ConcatAssociates ==
    ASSUME NEW X, NEW s \in Seq(X), NEW t \in Seq(X), NEW u \in Seq(X), NEW v \in Seq(X)
    PROVE  Associates(s, t, u, v)
<1>1. ((s \o t) \o u) \o v = s \o ((t \o u) \o v)
  OBVIOUS
<1> QED BY <1>1, Zenon DEF Associates

LEMMA ShowSectionRestores ==
    ASSUME ColumnsInv, NEW i \in Interface, NEW shown, shown = TRUE, NEW r \in States,
           r.sel = NoInterface
    PROVE  /\ ShowSection(i) \in Seq(Commands(shown))
           /\ Entered(shown, r, ShowSection(i)).sel = NoInterface
           /\ RestoresRow(r.uc, Entered(shown, r, ShowSection(i)).uc, i, WantedRows)
<1>1. PICK u, c, g, lines : /\ u = uc[i] /\ c = ShowSection(i) /\ g = r.uc
                            /\ lines = SectionLines(i)
  OBVIOUS
<1>2. u \in Rows /\ RowOK(i, u) /\ shown \in BOOLEAN
  BY <1>1, RowsOf
<1>3. g \in [Interface -> Rows] /\ r = [sel |-> NoInterface, uc |-> g]
  BY <1>1 DEF States
<1>4. Makes(shown, i, g, NoUserConfig, lines, Full(u))
  BY <1>1, <1>2, <1>3, SectionMakes
<1>5. lines \in Seq(Commands(shown)) /\ lines \in Seq(Quiet)
  BY <1>1, <1>2, <1>4, SectionIsQuiet DEF Makes
<1>6. WantedRows[i] = Wanted(i)
  BY DEF WantedRows
<1>7. CASE lines = <<>> /\ i \notin ports
  <2>1. c = <<>>
    BY <1>1, <1>7 DEF ShowSection
  <2>2. Entered(shown, r, c) = r
    BY <1>2, <2>1, EnteredIs
  <2>3. ASSUME g[i] = NoUserConfig PROVE g = [g EXCEPT ![i] = WantedRows[i]]
    <3>1. Full(u) = NoUserConfig
      <4>1. PICK v, w : v = NoUserConfig /\ w = Full(u)
        OBVIOUS
      <4>2. At(i, g, v) \in States
        BY <1>3, <4>1, AtIs, NoUserConfigIs
      <4>3. Entered(shown, At(i, g, v), lines) = At(i, g, v)
        BY <1>2, <1>7, <4>2, EnteredIs
      <4>4. At(i, g, v) = At(i, g, w)
        BY <1>4, <4>1, <4>3 DEF Makes
      <4>5. At(i, g, v).uc[i] = v /\ At(i, g, w).uc[i] = w
        BY <1>3 DEF At
      <4> QED BY <4>1, <4>4, <4>5
    <3>2. Wanted(i) = NoUserConfig
      BY <1>1, <3>1 DEF Wanted
    <3> QED BY <1>3, <1>6, <2>3, <3>2
  <2>4. c \in Seq(Commands(shown))
    BY <2>1
  <2> QED BY <1>1, <2>2, <2>3, <2>4 DEF RestoresRow
<1>8. CASE ~(lines = <<>> /\ i \notin ports)
  <2>1. PICK head \in Heads, exit \in Ends :
           /\ head = Cmd("interface", i, FALSE) /\ exit = Cmd("exit", "", FALSE)
    BY DEF Heads, Ends
  <2>2. head.arg = i /\ head \in Commands(shown) /\ exit \in Commands(shown)
    <3>1. head.arg = i
      BY <2>1 DEF Cmd
    <3> QED BY <3>1 DEF Commands
  <2>3. PICK h, e : h = <<head>> /\ e = <<exit>>
    OBVIOUS
  <2>4. h \in Seq(Commands(shown)) /\ e \in Seq(Commands(shown))
    BY <2>2, <2>3, SingleStays
  <2>5. c = h \o lines \o e
    BY <1>1, <1>8, <2>1, <2>3 DEF ShowSection, Header, Exit
  <2>6. PICK r1, r2, r3 : /\ r1 = Entered(shown, r, h) /\ r2 = Entered(shown, r1, lines)
                          /\ r3 = Entered(shown, r2, e)
    OBVIOUS
  <2>7. r1 = IF MaySelect(i, g) THEN [sel |-> i, uc |-> g] ELSE r
    <3>1. r1 = EnterStep(shown, r, head)
      BY <1>2, <2>2, <2>3, <2>6, EnteredIs
    <3>2. EnterStep(shown, r, head) =
             IF MaySelect(head.arg, r.uc) THEN [sel |-> head.arg, uc |-> r.uc] ELSE r
      BY <1>2, <2>2, StepIs
    <3> QED BY <1>1, <2>2, <3>1, <3>2
  <2>8. r1 \in States /\ r2 \in States
    <3>1. r1 \in States
      BY <1>2, <2>4, <2>6, EnteredIs
    <3> QED BY <1>2, <1>5, <2>6, <3>1, EnteredIs
  <2>9. r3 = [sel |-> NoInterface, uc |-> r2.uc]
    <3>1. r3 = EnterStep(shown, r2, exit)
      <4>1. Entered(shown, r2, <<exit>>) = EnterStep(shown, r2, exit)
        BY <1>2, <2>2, <2>8, EnteredIs
      <4> QED BY <2>3, <2>6, <4>1
    <3> QED BY <1>2, <2>2, <2>8, <3>1, StepIs
  <2>10. Entered(shown, r, c) = r3 /\ c \in Seq(Commands(shown))
    <3>1. PICK hl : hl = h \o lines
      OBVIOUS
    <3>2. hl \in Seq(Commands(shown))
      BY <1>5, <2>4, <3>1, ConcatStays
    <3>3. Entered(shown, r, hl) = r2
      <4>1. Entered(shown, r, h \o lines) = Entered(shown, Entered(shown, r, h), lines)
        BY <1>2, <1>5, <2>4, EnterBoth
      <4> QED BY <2>6, <3>1, <4>1
    <3>4. hl \o e \in Seq(Commands(shown))
      BY <2>4, <3>2, ConcatStays
    <3>5. Entered(shown, r, hl \o e) = r3
      <4>1. Entered(shown, r, hl \o e) = Entered(shown, Entered(shown, r, hl), e)
        BY <1>2, <2>4, <3>2, EnterBoth
      <4> QED BY <2>6, <3>3, <4>1
    <3> QED BY <2>5, <3>1, <3>4, <3>5
  <2>11. ASSUME g[i] = NoUserConfig,
                ParentOf[i] # NoInterface => g[ParentOf[i]] = WantedRows[ParentOf[i]]
         PROVE  r2.uc = [g EXCEPT ![i] = WantedRows[i]]
    <3>1. MaySelect(i, g) <=> MaySelect(i, uc)
      BY <2>11, WantedSelects
    <3>2. CASE MaySelect(i, uc)
      <4>1. r1 = At(i, g, NoUserConfig)
        BY <1>3, <2>7, <2>11, <3>1, <3>2 DEF At
      <4>2. r2 = At(i, g, Full(u))
        BY <1>4, <2>6, <4>1 DEF Makes
      <4>3. r2.uc = [g EXCEPT ![i] = Full(u)]
        BY <4>2 DEF At
      <4> QED BY <1>1, <1>6, <3>2, <4>3 DEF Wanted
    <3>3. CASE ~MaySelect(i, uc)
      <4>1. r1 = r
        BY <2>7, <3>1, <3>3
      <4>2. r2 = r
        BY <1>5, <2>6, <4>1, QuietCommands
      <4>3. g = [g EXCEPT ![i] = NoUserConfig]
        BY <1>3, <2>11
      <4> QED BY <1>1, <1>6, <3>3, <4>2, <4>3 DEF Wanted
    <3> QED BY <3>2, <3>3
  <2>12. r3.sel = NoInterface /\ r3.uc = r2.uc
    BY <2>9
  <2>13. RestoresRow(g, r3.uc, i, WantedRows)
    BY <2>11, <2>12 DEF RestoresRow
  <2> QED BY <1>1, <2>10, <2>12, <2>13
<1> QED BY <1>7, <1>8

-----------------------------------------------------------------------------
(* The loop over the rows without a filter: one section after the other.   *)
ShowLoop == INSTANCE Loops WITH Step <- ShowRunStep
ShowStart == [out |-> <<>>, done |-> FALSE]

LEMMA ShowStepIs ==
    ASSUME NEW i \in Interface, NEW X, NEW out \in Seq(X), ShowSection(i) \in Seq(X),
           SectionLines(i) \in Seq(X), Header(i) \in Seq(X), Exit \in Seq(X),
           NEW r, r = [out |-> out, done |-> FALSE]
    PROVE  ShowRunStep(All, r, i) = [out |-> out \o ShowSection(i), done |-> FALSE]
<1>1. CASE SectionLines(i) = <<>> /\ i \notin ports
  <2>1. ShowRunStep(All, r, i) = r /\ ShowSection(i) = <<>>
    BY <1>1 DEF ShowRunStep, SectionLines, ShowSection
  <2>2. out \o <<>> = out
    OBVIOUS
  <2> QED BY <2>1, <2>2
<1>2. CASE ~(SectionLines(i) = <<>> /\ i \notin ports)
  <2>1. PICK h, l, e : h = Header(i) /\ l = SectionLines(i) /\ e = Exit
    OBVIOUS
  <2>2. ShowSection(i) = (h \o l) \o e
    BY <1>2, <2>1 DEF ShowSection
  <2>3. ShowRunStep(All, r, i) = [out |-> ((out \o h) \o l) \o e, done |-> FALSE]
    BY <1>2, <2>1 DEF ShowRunStep, SectionLines
  <2>4. h \in Seq(X) /\ l \in Seq(X) /\ e \in Seq(X)
    BY <2>1
  <2>5. ((out \o h) \o l) \o e = out \o ((h \o l) \o e)
    <3>1. Associates(out, h, l, e)
      BY <2>4, ConcatAssociates
    <3> QED BY <3>1, Zenon DEF Associates
  <2> QED BY <2>2, <2>3, <2>5
<1> QED BY <1>1, <1>2

LEMMA SectionLinesAre ==
    ASSUME ColumnsInv, NEW i \in Interface, NEW shown, shown = TRUE
    PROVE  /\ SectionLines(i) \in Seq(Commands(shown))
           /\ Header(i) \in Seq(Commands(shown)) /\ Exit \in Seq(Commands(shown))
           /\ ShowSection(i) \in Seq(Commands(shown))
<1>1. SectionLines(i) \in Seq(Quiet)
  BY RowsOf, SectionIsQuiet
<1>2. Cmd("interface", i, FALSE) \in Commands(shown) /\ Cmd("exit", "", FALSE) \in Commands(shown)
  BY DEF Commands, Heads, Ends
<1>3. Header(i) \in Seq(Commands(shown)) /\ Exit \in Seq(Commands(shown))
  BY <1>2, SingleStays DEF Header, Exit
<1>4. Quiet \subseteq Commands(shown)
  BY DEF Quiet, Commands
<1> DEFINE X == Commands(shown)
           Y == Quiet
<1>5. SectionLines(i) \in Seq(Y) /\ Y \subseteq X
  BY <1>1, <1>4
<1> HIDE DEF X, Y
<1>6. SectionLines(i) \in Seq(X)
  BY <1>5
<1>7. ShowSection(i) \in Seq(Commands(shown))
  BY ShowSectionRestores, FreshIs
<1> QED BY <1>3, <1>6, <1>7 DEF X

LEMMA ShowRuns ==
    ASSUME ColumnsInv, NEW shown, shown = TRUE, NEW n, n = Cardinality(Interface)
    PROVE  \E f \in [0..n -> Seq(Commands(shown))] :
              /\ f[0] = <<>>
              /\ \A k \in 1..n : f[k] = f[k - 1] \o ShowSection(sort_interface[k])
              /\ cli_show_run_interface_exec(All) = f[n] \o parse_lag(All)
<1> DEFINE X == Commands(shown)
           T == [out : Seq(X), done : {FALSE}]
           s == sort_interface
<1>1. n \in Nat /\ IsList(s, Interface) /\ Len(s) = n /\ s \in Seq(Interface)
  BY SortIs DEF IsList
<1>2. ASSUME NEW r \in T, NEW i \in Interface
      PROVE  ShowRunStep(All, r, i) = [out |-> r.out \o ShowSection(i), done |-> FALSE]
  <2>1. PICK out : out = r.out
    OBVIOUS
  <2>2. out \in Seq(X) /\ r = [out |-> out, done |-> FALSE]
    BY <2>1
  <2>3. /\ SectionLines(i) \in Seq(X) /\ Header(i) \in Seq(X) /\ Exit \in Seq(X)
        /\ ShowSection(i) \in Seq(X)
    BY SectionLinesAre
  <2> HIDE DEF X, T
  <2>4. ShowRunStep(All, r, i) = [out |-> out \o ShowSection(i), done |-> FALSE]
    BY <2>2, <2>3, ShowStepIs
  <2> QED BY <2>1, <2>4
<1>3. ASSUME NEW r \in T, NEW i \in Interface
      PROVE  r.out \o ShowSection(i) \in Seq(X)
  <2>1. r.out \in Seq(X) /\ ShowSection(i) \in Seq(X)
    BY SectionLinesAre
  <2> HIDE DEF X
  <2> QED BY <2>1, ConcatStays
<1>4. ShowStart \in T
  BY DEF ShowStart
<1>5. \A r \in T, i \in Interface : ShowRunStep(All, r, i) \in T
  <2> SUFFICES ASSUME NEW r \in T, NEW i \in Interface PROVE ShowRunStep(All, r, i) \in T
    OBVIOUS
  <2>1. PICK o \in Seq(X) : o = r.out \o ShowSection(i)
    BY <1>3
  <2>2. ShowRunStep(All, r, i) = [out |-> o, done |-> FALSE]
    BY <1>2, <2>1
  <2> HIDE DEF X
  <2> QED BY <2>2
<1>6. cli_show_run_interface_exec(All) = ShowLoop!Result(All, ShowStart, s).out \o parse_lag(All)
  BY DEF cli_show_run_interface_exec, ShowStart, ShowLoop!Result, FoldLeft, ShowLoop!FoldLeft,
         MapThenFoldSet, ShowLoop!MapThenFoldSet, Max, ShowLoop!Max
<1>7. PICK h : ShowLoop!Runs(h, All, ShowStart, s) /\ ShowLoop!Result(All, ShowStart, s) = h[n]
  <2> HIDE DEF T, s
  <2>1. \E h : ShowLoop!Runs(h, All, ShowStart, s) /\ ShowLoop!Result(All, ShowStart, s) = h[Len(s)]
    BY <1>1, <1>4, <1>5, ShowLoop!FoldRuns
  <2> QED BY <1>1, <2>1
<1>8. \A k \in 0..n : h[k] \in T
  <2> HIDE DEF T, s
  <2>1. \A k \in 0..Len(s) : h[k] \in T
    BY <1>1, <1>4, <1>5, <1>7, ShowLoop!RunStaysIn
  <2> QED BY <1>1, <2>1
<1>9. /\ h[0] = ShowStart
      /\ \A k \in 1..n : h[k] = ShowRunStep(All, h[k - 1], s[k])
  <2> HIDE DEF s
  <2> QED BY <1>1, <1>7 DEF ShowLoop!Runs
<1> DEFINE f == [k \in 0..n |-> h[k].out]
<1>10. f \in [0..n -> Seq(X)]
  <2> HIDE DEF X
  <2> QED BY <1>8
<1>11. f[0] = <<>>
  BY <1>1, <1>9 DEF ShowStart
<1>12. ASSUME NEW k \in 1..n PROVE f[k] = f[k - 1] \o ShowSection(s[k])
  <2>1. k \in 0..n /\ k - 1 \in 0..n /\ s[k] \in Interface
    <3> HIDE DEF s
    <3> QED BY <1>1
  <2>2. h[k - 1] \in T /\ h[k] = ShowRunStep(All, h[k - 1], s[k])
    BY <1>8, <1>9, <2>1
  <2> HIDE DEF T, s
  <2>3. h[k] = [out |-> h[k - 1].out \o ShowSection(s[k]), done |-> FALSE]
    BY <1>2, <2>1, <2>2
  <2>4. h[k].out = h[k - 1].out \o ShowSection(s[k])
    <3>1. PICK o, q : o = h[k - 1].out \o ShowSection(s[k]) /\ q = h[k]
      OBVIOUS
    <3>2. q = [out |-> o, done |-> FALSE]
      BY <2>3, <3>1
    <3>3. q.out = o
      BY <3>2
    <3> QED BY <3>1, <3>3
  <2>5. f[k] = h[k].out /\ f[k - 1] = h[k - 1].out
    BY <2>1
  <2> HIDE DEF f
  <2> QED BY <2>4, <2>5
<1>13. cli_show_run_interface_exec(All) = f[n] \o parse_lag(All)
  <2>1. f[n] = h[n].out
    BY <1>1
  <2> HIDE DEF f, s
  <2> QED BY <1>6, <1>7, <2>1
<1> HIDE DEF f
<1> QED BY <1>10, <1>11, <1>12, <1>13

-----------------------------------------------------------------------------
LEMMA ShowRestoredIs ==
    ASSUME NEW shown, shown = TRUE, NEW list
    PROVE  FoldLeft(EnterShown, [sel |-> NoInterface, uc |-> [i \in Interface |-> NoUserConfig]], list)
              = Entered(shown, Fresh, list)
BY DEF Entered, Fresh, EnterLoop!Result, EnterStep, FoldLeft, EnterLoop!FoldLeft,
       MapThenFoldSet, EnterLoop!MapThenFoldSet, Max, EnterLoop!Max

LEMMA ShowRestoredRows ==
    ASSUME ColumnsInv, NEW shown, shown = TRUE, NEW i \in Interface
    PROVE  Entered(shown, Fresh, cli_show_run_interface_exec(All)).uc[i] = Wanted(i)
<1>1. PICK n, s : n = Cardinality(Interface) /\ s = sort_interface
  OBVIOUS
<1>2. n \in Nat /\ s \in [1..n -> Interface]
  BY <1>1, SortIs
<1> DEFINE X == Commands(shown)
<1>3. PICK f \in [0..n -> Seq(X)] :
         /\ f[0] = <<>>
         /\ \A k \in 1..n : f[k] = f[k - 1] \o ShowSection(s[k])
         /\ cli_show_run_interface_exec(All) = f[n] \o parse_lag(All)
  BY <1>1, ShowRuns
<1>4. shown \in BOOLEAN /\ Fresh \in States
  BY FreshIs
<1> DEFINE e == [k \in 0..n |-> Entered(shown, Fresh, f[k])]
<1>5. ASSUME NEW k \in 0..n PROVE e[k] \in States
  <2>1. f[k] \in Seq(X)
    BY <1>3
  <2> QED BY <1>4, <2>1, EnteredIs
<1>6. e[0] = Fresh
  <2>1. Entered(shown, Fresh, <<>>) = Fresh
    BY <1>4, EnteredIs
  <2>2. 0 \in 0..n
    BY <1>2
  <2> QED BY <1>3, <2>1, <2>2
<1>7. ASSUME NEW k \in 1..n, e[k - 1].sel = NoInterface
      PROVE  e[k].sel = NoInterface /\ RestoresRow(e[k - 1].uc, e[k].uc, s[k], WantedRows)
  <2>1. k \in 0..n /\ k - 1 \in 0..n /\ s[k] \in Interface
    BY <1>2
  <2>2. PICK r \in States, j \in Interface : r = e[k - 1] /\ j = s[k] /\ r.sel = NoInterface
    BY <1>5, <1>7, <2>1
  <2>3. PICK c : c = ShowSection(j)
    OBVIOUS
  <2>4. /\ c \in Seq(X) /\ Entered(shown, r, c).sel = NoInterface
        /\ RestoresRow(r.uc, Entered(shown, r, c).uc, j, WantedRows)
    <3> HIDE DEF e
    <3>1. /\ ShowSection(j) \in Seq(Commands(shown))
          /\ Entered(shown, r, ShowSection(j)).sel = NoInterface
          /\ RestoresRow(r.uc, Entered(shown, r, ShowSection(j)).uc, j, WantedRows)
      BY <2>2, ShowSectionRestores
    <3> QED BY <2>3, <3>1
  <2>5. PICK p : p = f[k - 1] /\ p \in Seq(X) /\ f[k] = p \o c
    BY <1>3, <2>1, <2>2, <2>3
  <2>6. Entered(shown, Fresh, p \o c) = Entered(shown, Entered(shown, Fresh, p), c)
    BY <1>4, <2>4, <2>5, EnteredBoth
  <2>7. e[k] = Entered(shown, r, c)
    BY <2>1, <2>2, <2>5, <2>6
  <2> HIDE DEF e
  <2> QED BY <2>2, <2>4, <2>7
<1> HIDE DEF e, X
<1>8. \A k \in 0..n : e[k].sel = NoInterface
  <2> DEFINE S == {k \in 0..n : e[k].sel = NoInterface}
  <2>1. 0 \in S
    BY <1>2, <1>6, FreshIs
  <2>2. ASSUME NEW k \in 1..n, k - 1 \in S PROVE k \in S
    <3>1. k \in 0..n /\ e[k - 1].sel = NoInterface
      BY <1>2, <2>2
    <3> QED BY <1>7, <3>1
  <2> HIDE DEF S
  <2>3. \A k \in 0..n : k \in S
    BY <1>2, <2>1, <2>2, EnterLoop!InductionUpTo
  <2> QED BY <2>3 DEF S
<1> DEFINE g == [k \in 0..n |-> e[k].uc]
<1>9. \A k \in 0..n : g[k] \in [Interface -> Rows]
  BY <1>5 DEF States
<1>10. g[0] = [j \in Interface |-> NoUserConfig]
  BY <1>2, <1>6, FreshIs
<1>11. ASSUME NEW k \in 1..n PROVE RestoresRow(g[k - 1], g[k], s[k], WantedRows)
  <2>1. k \in 0..n /\ k - 1 \in 0..n
    BY <1>2
  <2>2. g[k - 1] = e[k - 1].uc /\ g[k] = e[k].uc
    BY <2>1
  <2> HIDE DEF g
  <2> QED BY <1>7, <1>8, <2>1, <2>2
<1>12. Entered(shown, Fresh, cli_show_run_interface_exec(All)) = e[n]
  <2>1. PICK p, c : p = f[n] /\ c = parse_lag(All) /\ p \in Seq(X)
    BY <1>2, <1>3
  <2>2. e[n] = Entered(shown, Fresh, p) /\ e[n] \in States /\ e[n].sel = NoInterface
    BY <1>2, <1>5, <1>8, <2>1 DEF e
  <2>3. c \in Seq(Quiet) /\ Quiet \subseteq X
    BY <1>4, <2>1, LagsAreQuiet, QuietCommands DEF X
  <2>4. c \in Seq(X)
    BY <2>3
  <2>5. Entered(shown, Fresh, p \o c) = Entered(shown, Entered(shown, Fresh, p), c)
    BY <1>4, <2>1, <2>4, EnteredBoth DEF X
  <2>6. Entered(shown, e[n], c) = e[n]
    BY <2>2, <2>3, QuietCommands
  <2> QED BY <1>3, <2>1, <2>2, <2>5, <2>6
<1>13. g[n] = e[n].uc
  BY <1>2
<1> HIDE DEF g
<1>14. g[n][i] = WantedRows[i]
  BY <1>1, <1>9, <1>10, <1>11, RowsAreRestored
<1> QED BY <1>12, <1>13, <1>14 DEF WantedRows

LEMMA FullSays ==
    ASSUME NEW u \in Rows, NEW hw, NEW maxMtu
    PROVE  intfd_parse_user_cfg(Full(u), hw, maxMtu)
              = intfd_parse_user_cfg([u EXCEPT !.autoneg = IF @ = "on" THEN "absent" ELSE @], hw, maxMtu)
<1>1. PICK k, p : k = Full(u) /\ p = [u EXCEPT !.autoneg = IF @ = "on" THEN "absent" ELSE @]
  OBVIOUS
<1>2. u.admin \in {"absent", "up", "down"} /\ u.autoneg \in {"absent", "on", "off"}
  BY RowsAre
<1>3. /\ p.admin = u.admin /\ p.pause = u.pause /\ p.duplex = u.duplex /\ p.mtu = u.mtu
      /\ p.speeds = u.speeds /\ p.lane_split = u.lane_split
      /\ p.autoneg = IF u.autoneg = "on" THEN "absent" ELSE u.autoneg
  BY <1>1 DEF Rows
<1>4. /\ k.admin = "up" <=> p.admin = "up"
      /\ k.autoneg = p.autoneg /\ k.pause = p.pause /\ k.duplex = p.duplex /\ k.mtu = p.mtu
      /\ k.speeds = p.speeds /\ k.lane_split = p.lane_split
  BY <1>1, <1>2, <1>3 DEF Full, Row
<1>5. ParsedSpeeds(k, hw) = ParsedSpeeds(p, hw) /\ ParsedMtu(k, maxMtu) = ParsedMtu(p, maxMtu)
  BY <1>4 DEF ParsedSpeeds, ParsedMtu
<1> QED BY <1>1, <1>4, <1>5 DEF intfd_parse_user_cfg

LEMMA ShowColumns == ShowSpec => []ColumnsInv
<1>1. ColumnsInv /\ [ShowNext]_showVars => ColumnsInv'
  BY ColumnsStep DEF ShowNext, Session, QosWrite, L3Write, showVars, vars
<1> QED BY InitColumns, <1>1, PTL DEF ShowSpec, ShowInit

(* Entering the output of "show running-config interface" on a switch      *)
(* without configuration gives intfd what it reads now for every interface *)
(* in use, and nothing for the lanes of one that is not split: "interface" *)
(* refuses such a lane, and "exit" has left the interface before.          *)
THEOREM ShowRunIsRestored ==
    ShowSpec => []ShowRunRestores
<1> DEFINE restored == FoldLeft(EnterShown,
              [sel |-> NoInterface, uc |-> [i \in Interface |-> NoUserConfig]],
              cli_show_run_interface_exec(All)).uc
           wanted(i) == IF MaySelect(i, uc) THEN uc[i] ELSE NoUserConfig
<1>1. ASSUME ColumnsInv, NEW i \in Interface
      PROVE  intfd_parse_user_cfg(restored[i], HwOf[i], MaxMtu)
               = intfd_parse_user_cfg([wanted(i) EXCEPT !.autoneg = IF @ = "on" THEN "absent" ELSE @],
                                      HwOf[i], MaxMtu)
  <2>1. restored[i] = Wanted(i)
    <3>1. PICK shown, list : shown = TRUE /\ list = cli_show_run_interface_exec(All)
      OBVIOUS
    <3>2. restored = Entered(shown, Fresh, list).uc
      BY <3>1, ShowRestoredIs
    <3> HIDE DEF restored
    <3> QED BY <1>1, <3>1, <3>2, ShowRestoredRows
  <2>2. NoUserConfig = Full(NoUserConfig) /\ NoUserConfig \in Rows
    <3>1. NoUserConfig = Full(NoUserConfig)
      BY DEF NoUserConfig, Full, Row
    <3> QED BY <3>1, NoUserConfigIs
  <2>3. PICK u \in Rows : u = wanted(i) /\ Wanted(i) = Full(u)
    BY <1>1, <2>2, RowsOf DEF Wanted
  <2> HIDE DEF restored, wanted
  <2> QED BY <2>1, <2>3, FullSays
<1>2. ColumnsInv => ShowRunRestores
  BY <1>1 DEF ShowRunRestores
<1> QED BY <1>2, ShowColumns, PTL

-----------------------------------------------------------------------------
(* What "show interface" says and what intfd applies.                      *)

LEMMA IfaceIs ==
    ASSUME NEW i, NEW x, x = Iface(i), NEW u, u = uc[i]
    PROVE  /\ IsIface(x) /\ x.type = "system"
           /\ x.user_cfg.admin_state = IF u.admin = "up" THEN "up" ELSE "down"
           /\ x.user_cfg.autoneg = IF u.autoneg \in {"on", "off"} THEN u.autoneg ELSE "default"
           /\ x.user_cfg.pause = IF u.pause \in {"rxtx", "tx", "rx"} THEN u.pause ELSE "none"
           /\ x.user_cfg.duplex = IF u.duplex = "half" THEN "half" ELSE "full"
           /\ x.user_cfg.mtu = ParsedMtu(u, MaxMtu)
<1>1. PICK c, h, p : /\ c = intfd_parse_user_cfg(u, HwOf[i], MaxMtu)
                     /\ h = intfd_parse_hw_info(HwOf[i]) /\ p = PmInfo(ModuleOf[i], "supported")
  OBVIOUS
<1>2. x = [type |-> "system", hw_info |-> h, user_cfg |-> c, pm_info |-> p,
           port_admin |-> "up", op_state |-> NoOpState]
  BY <1>1 DEF Iface
<1>3. IsUserCfg(c)
  BY <1>1, UserCfgIs
<1>4. IsOpState(NoOpState)
  BY DEF IsOpState, NoOpState
<1>5. /\ c.admin_state = IF u.admin = "up" THEN "up" ELSE "down"
      /\ c.autoneg = IF u.autoneg \in {"on", "off"} THEN u.autoneg ELSE "default"
      /\ c.pause = IF u.pause \in {"rxtx", "tx", "rx"} THEN u.pause ELSE "none"
      /\ c.duplex = IF u.duplex = "half" THEN "half" ELSE "full"
      /\ c.mtu = ParsedMtu(u, MaxMtu)
  BY <1>1 DEF intfd_parse_user_cfg
<1> QED BY <1>2, <1>3, <1>4, <1>5 DEF IsIface

(* "autonegotiation off" is refused or obeyed.                             *)
LEMMA OffIsOff ==
    ASSUME NEW x, x.user_cfg.autoneg = "off"
    PROVE  \/ Outcome(x).state = "disabled"
           \/ Outcome(x).state = "invalid" /\ Outcome(x).reason = "autoneg_required"
<1>1. PICK c, cap, ms, h : /\ c = x.user_cfg /\ cap = ModuleAutoneg(x.pm_info)
                           /\ ms = ModuleSpeeds(x.pm_info) /\ h = x.hw_info.speeds
  OBVIOUS
<1>2. \/ AutonegOutcome(c, cap, ms, h).state = "disabled"
      \/ /\ AutonegOutcome(c, cap, ms, h).state = "invalid"
         /\ AutonegOutcome(c, cap, ms, h).reason = "autoneg_required"
  BY <1>1 DEF AutonegOutcome
<1> QED BY <1>1, <1>2 DEF Outcome

(* The mtu of a row, when it is not refused.                               *)
LEMMA MtuApplied ==
    ASSUME NEW u, IsConfig(u), NEW x, x.user_cfg.mtu = ParsedMtu(u, MaxMtu),
           NEW m, m = set_op_state_mtu(x), m # BadMtu
    PROVE  /\ m = IF u.mtu = NoMtu THEN INTFD_DEFAULT_MTU ELSE u.mtu
           /\ m >= INTFD_MIN_ALLOWED_USER_SPECIFIED_MTU
<1>1. MtuRange \subseteq Int /\ \A k \in MtuRange : k >= 576
  BY DEF MtuRange
<1>2. PICK p : p = x.user_cfg.mtu
  OBVIOUS
<1>3. \/ u.mtu = NoMtu /\ p = 0
      \/ u.mtu # NoMtu /\ (p = u.mtu \/ p = BadMtu)
  <2>1. PICK a : a = atoi(u.mtu)
    OBVIOUS
  <2>2. p = IF u.mtu = NoMtu THEN 0
            ELSE IF a \in INTFD_MIN_ALLOWED_USER_SPECIFIED_MTU..MaxMtu THEN a ELSE BadMtu
    BY <1>2, <2>1 DEF ParsedMtu
  <2>3. u.mtu # NoMtu => a = u.mtu
    BY <2>1, MtuAssumption DEF IsConfig, atoi
  <2> QED BY <2>2, <2>3
<1>4. m = CASE p = BadMtu -> BadMtu [] p = 0 -> INTFD_DEFAULT_MTU [] OTHER -> p
  BY <1>2 DEF set_op_state_mtu
<1>5. u.mtu = NoMtu \/ u.mtu \in MtuRange
  BY DEF IsConfig
<1> QED BY <1>1, <1>3, <1>4, <1>5
        DEF BadMtu, NoMtu, INTFD_DEFAULT_MTU, INTFD_MIN_ALLOWED_USER_SPECIFIED_MTU

LEMMA EnabledApplies ==
    ASSUME NEW x, NEW f, IsIface(x), x.type = "system", NEW hw,
           hw = set_interface_config(x, f).out.hw_intf_config, hw.enable = "true"
    PROVE  /\ set_op_state_mtu(x) # BadMtu
           /\ set_op_state_mtu(x) >= INTFD_MIN_ALLOWED_USER_SPECIFIED_MTU =>
                 hw.mtu = set_op_state_mtu(x)
           /\ hw.pause = x.user_cfg.pause /\ hw.duplex = x.user_cfg.duplex
           /\ x.user_cfg.autoneg = "off" => hw.autoneg = "off"
<1>1. PICK n : n = NewOpState(x, f)
  OBVIOUS
<1>2. PICK op :
        /\ IsOpState(op)
        /\ op.mtu = set_op_state_mtu(x)
        /\ x.user_cfg.speeds = BadSpeeds => op.speeds = BadSpeeds
        /\ x.user_cfg.speeds # BadSpeeds /\ x.user_cfg.mtu # BadMtu =>
              /\ op.autoneg_state = Outcome(x).state
              /\ op.autoneg_reason = Outcome(x).reason
              /\ op.speeds = Outcome(x).speeds
        /\ n.mtu = op.mtu /\ n.autoneg_state = op.autoneg_state
        /\ n.enabled = (ReasonOf(x, op, f) = "ok")
  BY <1>1, NewOpStateIs
<1>3. n.enabled => n.pause = x.user_cfg.pause /\ n.duplex = x.user_cfg.duplex
  BY <1>1, NewOpStateIs
<1>4. hw = set_intf_hw_config_in_db(x, n).hw_intf_config
  BY <1>1 DEF set_interface_config
<1>5. n.enabled
  BY <1>4 DEF set_intf_hw_config_in_db, DisabledConfig
<1>6. /\ hw.autoneg = IF n.autoneg_state = "enabled" THEN "on" ELSE "off"
      /\ hw.duplex = n.duplex /\ hw.pause = n.pause
      /\ hw.mtu = IF n.mtu >= INTFD_MIN_ALLOWED_USER_SPECIFIED_MTU THEN n.mtu ELSE 0
  BY <1>4, <1>5 DEF set_intf_hw_config_in_db
<1>7. ReasonOf(x, op, f) = "ok" /\ x.type \notin VirtualTypes
  BY <1>2, <1>5 DEF VirtualTypes
<1>8. /\ op.mtu # BadMtu /\ op.speeds # BadSpeeds
      /\ op.autoneg_state = "invalid" => op.autoneg_reason = "ok"
  BY <1>7 DEF ReasonOf
<1>9. x.user_cfg.mtu # BadMtu
  <2>1. x.user_cfg.mtu = BadMtu => set_op_state_mtu(x) = BadMtu
    BY DEF set_op_state_mtu, BadMtu
  <2> QED BY <1>2, <1>8, <2>1
<1>10. x.user_cfg.autoneg = "off" => hw.autoneg = "off"
  BY <1>2, <1>6, <1>8, <1>9, OffIsOff
<1> QED BY <1>2, <1>3, <1>5, <1>6, <1>8, <1>10

LEMMA ShowSession == ShowSpec => []SessionInv
<1>1. SessionInv /\ [ShowNext]_showVars => SessionInv'
  BY SessionStep DEF ShowNext, Session, QosWrite, L3Write, showVars, vars
<1> QED BY InitSession, <1>1, PTL DEF ShowSpec, ShowInit

(* What "show interface" says of an interface that intfd enables is what   *)
(* intfd applies, for any hardware and modules and whatever was entered:   *)
(* the view and intfd read user_config with different code.                *)
THEOREM ShownApplied == ShowSpec => []ShownIsApplied
<1>1. SessionInv => ShownIsApplied
  <2> SUFFICES ASSUME SessionInv, NEW i \in Interface,
                      NEW hw, hw = Applied(i).hw_intf_config,
                      NEW shown, shown = ShownConfig(i)
               PROVE  /\ hw.enable = "true" =>
                            /\ shown.mtu = hw.mtu /\ shown.duplex = hw.duplex
                            /\ shown.input <=> hw.pause \in {"rx", "rxtx"}
                            /\ shown.output <=> hw.pause \in {"tx", "rxtx"}
                            /\ shown.autoneg = "off" => hw.autoneg = "off"
                      /\ show_interface_status(i) = Iface(i).user_cfg.admin_state
                      /\ QueueAdmin(i) # show_interface_status(i) => uc[i].admin = "absent"
    BY DEF ShownIsApplied
  <2>1. PICK u, x : u = uc[i] /\ x = Iface(i)
    OBVIOUS
  <2>2. IsConfig(u)
    BY <2>1 DEF SessionInv, RowsInv, Pausing
  <2>3. /\ IsIface(x) /\ x.type = "system"
        /\ x.user_cfg.admin_state = IF u.admin = "up" THEN "up" ELSE "down"
        /\ x.user_cfg.autoneg = IF u.autoneg \in {"on", "off"} THEN u.autoneg ELSE "default"
        /\ x.user_cfg.pause = IF u.pause \in {"rxtx", "tx", "rx"} THEN u.pause ELSE "none"
        /\ x.user_cfg.duplex = IF u.duplex = "half" THEN "half" ELSE "full"
        /\ x.user_cfg.mtu = ParsedMtu(u, MaxMtu)
    BY <2>1, IfaceIs
  <2>4. /\ u.admin \in {"absent", "up", "down"} /\ u.autoneg \in {"absent", "on", "off"}
        /\ u.pause \in {"absent", "rx", "tx", "rxtx"} /\ u.duplex \in {"absent", "half"}
    BY <2>2 DEF IsConfig
  <2>5. /\ shown.mtu = IF u.mtu = NoMtu THEN INTFD_DEFAULT_MTU ELSE u.mtu
        /\ shown.duplex = IF u.duplex \in {"absent", "full"} THEN "full" ELSE "half"
        /\ shown.autoneg = IF u.autoneg = "off" THEN "off" ELSE "on"
        /\ shown.input <=> u.pause \in {"rx", "rxtx"}
        /\ shown.output <=> u.pause \in {"tx", "rxtx"}
    BY <2>1 DEF ShownConfig
  <2>6. /\ show_interface_status(i) = x.user_cfg.admin_state
        /\ QueueAdmin(i) # show_interface_status(i) => u.admin = "absent"
    BY <2>1, <2>3, <2>4 DEF show_interface_status, QueueAdmin
  <2>7. ASSUME hw.enable = "true"
        PROVE  /\ shown.mtu = hw.mtu /\ shown.duplex = hw.duplex
               /\ shown.input <=> hw.pause \in {"rx", "rxtx"}
               /\ shown.output <=> hw.pause \in {"tx", "rxtx"}
               /\ shown.autoneg = "off" => hw.autoneg = "off"
    <3>1. PICK f : hw = set_interface_config(x, f).out.hw_intf_config
      BY <2>1 DEF Applied
    <3>2. /\ set_op_state_mtu(x) # BadMtu
          /\ set_op_state_mtu(x) >= INTFD_MIN_ALLOWED_USER_SPECIFIED_MTU =>
                hw.mtu = set_op_state_mtu(x)
          /\ hw.pause = x.user_cfg.pause /\ hw.duplex = x.user_cfg.duplex
          /\ x.user_cfg.autoneg = "off" => hw.autoneg = "off"
      BY <2>3, <2>7, <3>1, EnabledApplies
    <3>3. /\ set_op_state_mtu(x) = IF u.mtu = NoMtu THEN INTFD_DEFAULT_MTU ELSE u.mtu
          /\ set_op_state_mtu(x) >= INTFD_MIN_ALLOWED_USER_SPECIFIED_MTU
      BY <2>2, <2>3, <3>2, MtuApplied
    <3>4. shown.mtu = hw.mtu
      BY <2>5, <3>2, <3>3
    <3>5. shown.duplex = hw.duplex
      BY <2>3, <2>4, <2>5, <3>2
    <3>6. /\ shown.input <=> hw.pause \in {"rx", "rxtx"}
          /\ shown.output <=> hw.pause \in {"tx", "rxtx"}
      BY <2>3, <2>4, <2>5, <3>2
    <3>7. shown.autoneg = "off" => hw.autoneg = "off"
      BY <2>3, <2>5, <3>2
    <3> QED BY <3>4, <3>5, <3>6, <3>7
  <2> QED BY <2>1, <2>6, <2>7
<1> QED BY <1>1, ShowSession, PTL
-----------------------------------------------------------------------------
(* The interfaces "show interface" leaves out.                              *)
(* The error intfd writes for a row of type "system".                      *)
LEMMA ErrorOfSplit ==
    ASSUME NEW x, NEW f, IsIface(x), x.type = "system",
           NEW e, e = set_interface_config(x, f).out.error
    PROVE  e \in {"lanes_split", "lanes_not_split"} <=>
              \/ f.has_children /\ x.user_cfg.lane_split = "split"
              \/ f.has_parent /\ f.parent_split = "no-split"
<1>1. PICK n : n = NewOpState(x, f)
  OBVIOUS
<1>2. PICK op : /\ IsOpState(op)
                /\ n.enabled = (ReasonOf(x, op, f) = "ok") /\ n.reason = ReasonOf(x, op, f)
  BY <1>1, NewOpStateIs
<1>3. PICK r : r = ReasonOf(x, op, f)
  OBVIOUS
<1>4. e = IF r = "ok" THEN "none" ELSE intfd_get_error_str(r)
  <2>1. PICK out : out = set_intf_hw_config_in_db(x, n) /\ e = out.error
    BY <1>1 DEF set_interface_config
  <2>2. out.error = IF n.enabled THEN "none" ELSE intfd_get_error_str(n.reason)
    BY <2>1 DEF set_intf_hw_config_in_db
  <2> QED BY <1>2, <1>3, <2>1, <2>2
<1>5. e \in {"lanes_split", "lanes_not_split"} <=> r \in {"lanes_split", "lanes_not_split"}
  BY <1>4 DEF intfd_get_error_str, Reason
<1>6. x.type \notin VirtualTypes
  BY DEF VirtualTypes
<1>7. op.autoneg_reason \notin {"lanes_split", "lanes_not_split"}
  BY <1>2 DEF IsOpState
<1>8. r \in {"lanes_split", "lanes_not_split"} <=>
         \/ f.has_children /\ x.user_cfg.lane_split = "split"
         \/ f.has_parent /\ f.parent_split = "no-split"
  BY <1>3, <1>6, <1>7 DEF ReasonOf
<1> QED BY <1>5, <1>8

(* The rows "show interface" leaves out are those with such an error.      *)
LEMMA SkippedIsUnusable ==
    ASSUME ColumnsInv, NEW i \in Interface
    PROVE  Applied(i).error \in {"lanes_split", "lanes_not_split"} <=> Skipped(i)
<1>1. PICK u, x, f : u = uc[i] /\ x = Iface(i) /\ f = Family(i)
  OBVIOUS
<1>2. IsIface(x) /\ x.type = "system"
  BY <1>1, IfaceIs
<1>3. x.user_cfg.lane_split = IF u.lane_split = "split" THEN "split" ELSE "no-split"
  <2>1. PICK c : c = intfd_parse_user_cfg(u, HwOf[i], MaxMtu)
    OBVIOUS
  <2>2. x.user_cfg = c
    BY <1>1, <2>1 DEF Iface
  <2>3. c.lane_split = IF u.lane_split = "split" THEN "split" ELSE "no-split"
    BY <2>1 DEF intfd_parse_user_cfg
  <2> QED BY <2>2, <2>3
<1>4. PICK e : e = Applied(i).error
  OBVIOUS
<1>5. e \in {"lanes_split", "lanes_not_split"} <=>
         \/ f.has_children /\ x.user_cfg.lane_split = "split"
         \/ f.has_parent /\ f.parent_split = "no-split"
  <2>1. e = set_interface_config(x, f).out.error
    BY <1>1, <1>4 DEF Applied
  <2> QED BY <1>2, <2>1, ErrorOfSplit
<1>6. /\ f.has_children = (Children(i) # {}) /\ f.has_parent = (ParentOf[i] # NoInterface)
      /\ f.parent_split = IF ParentOf[i] # NoInterface /\ is_parent_interface_split(uc[ParentOf[i]])
                          THEN "split" ELSE "no-split"
  BY <1>1 DEF Family
<1>7. u.lane_split = "split" => i \in Splittable
  BY <1>1 DEF ColumnsInv, RowsOK, RowOK
<1>8. i \in Splittable <=> Children(i) # {}
  BY CliAssumption DEF Children
<1>9. ParentOf[i] # NoInterface => Children(i) = {}
  BY CliAssumption DEF Children
<1> QED BY <1>1, <1>3, <1>4, <1>5, <1>6, <1>7, <1>8, <1>9 DEF Skipped, is_parent_interface_split

(* The rows of one interface, and of none.                                 *)
LEMMA OnlyOne ==
    ASSUME NEW i \in Interface, NEW K, \A x \in K : x = i
    PROVE  OnlyIn(sort_interface, K) = IF i \in K THEN <<i>> ELSE <<>>
<1>1. PICK s : s = OnlyIn(sort_interface, K)
  OBVIOUS
<1>2. IsList(s, Interface) /\ \A x : In(x, s) <=> In(x, sort_interface) /\ x \in K
  BY <1>1, SortIs, OnlyInIs
<1>3. Len(s) \in Nat /\ s = [k \in 1..Len(s) |-> s[k]]
  BY <1>2 DEF IsList
<1>4. \A k \in 1..Len(s) : s[k] \in K /\ s[k] = i
  BY <1>2 DEF In
<1>5. Len(s) \in {0, 1}
  <2>1. ASSUME Len(s) > 1 PROVE FALSE
    <3>1. 1 \in 1..Len(s) /\ 2 \in 1..Len(s)
      BY <1>3, <2>1
    <3> QED BY <1>2, <1>4, <3>1 DEF IsList
  <2> QED BY <1>3, <2>1
<1>6. CASE i \in K
  <2>1. In(i, s)
    BY <1>2, <1>6, SortIs
  <2>2. Len(s) = 1
    BY <1>5, <2>1 DEF In
  <2>3. s \in Seq(Interface) /\ s[1] = i
    BY <1>2, <1>4, <2>2 DEF IsList
  <2> QED BY <1>1, <1>6, <2>2, <2>3
<1>7. CASE i \notin K
  <2>1. Len(s) = 0
    <3>1. Len(s) = 1 => 1 \in 1..Len(s)
      OBVIOUS
    <3> QED BY <1>4, <1>5, <1>7, <3>1
  <2>2. s \in Seq(Interface)
    BY <1>2 DEF IsList
  <2> QED BY <1>1, <1>7, <2>1, <2>2
<1> QED BY <1>6, <1>7

(* Of a LAG there is one row, of an interface none.                        *)
LEMMA NamedLagsIs ==
    ASSUME NEW filter \in PortName, PortsOK
    PROVE  NamedLags(filter) = IF filter \in Lag THEN <<filter>> ELSE <<>>
<1>1. PICK K : K = {l \in ports \cap Lag : filter \in {All, l}}
  OBVIOUS
<1>2. K = IF filter \in Lag THEN {filter} ELSE {}
  BY <1>1, CliAssumption DEF PortsOK, PortName, All
<1>3. IsFiniteSet(K)
  BY <1>2, FS_EmptySet, FS_Singleton
<1>4. PICK s : s = SetToSeq(K)
  OBVIOUS
<1>5. IsList(s, K) /\ \A x \in K : In(x, s)
  BY <1>3, <1>4, SetListed
<1>6. s \in Seq(K) /\ Len(s) \in Nat /\ \A k \in 1..Len(s) : s[k] \in K
  BY <1>5 DEF IsList
<1>7. CASE filter \in Lag
  <2>1. PICK k \in 1..Len(s) : s[k] = filter
    BY <1>2, <1>5, <1>7 DEF In
  <2>2. ASSUME Len(s) # 1 PROVE FALSE
    <3>4. PICK n \in Nat : n = Len(s)
      BY <1>6
    <3>1. 1 \in 1..Len(s) /\ 2 \in 1..Len(s)
      BY <2>1, <2>2, <3>4
    <3>2. s[1] = filter /\ s[2] = filter
      BY <1>2, <1>6, <1>7, <3>1
    <3> QED BY <1>5, <3>1, <3>2 DEF IsList
  <2>3. s[1] = filter
    BY <2>1, <2>2
  <2>4. s = <<filter>>
    BY <1>6, <2>2, <2>3
  <2> QED BY <1>1, <1>4, <1>7, <2>4 DEF NamedLags
<1>8. CASE filter \notin Lag
  <2>1. Len(s) = 0
    <3>1. Len(s) # 0 => 1 \in 1..Len(s)
      BY <1>6
    <3> QED BY <1>2, <1>6, <1>8, <3>1
  <2>2. s = <<>>
    BY <1>6, <2>1
  <2> QED BY <1>1, <1>4, <1>8, <2>2 DEF NamedLags
<1> QED BY <1>7, <1>8

(* "show interface" leaves out exactly the interfaces that intfd disables  *)
(* because of the split, whatever the hardware and whatever was entered:   *)
(* the view looks only at the column lane_split of a row or of its parent, *)
(* intfd at the row, its family and its module.                            *)
THEOREM HiddenAreUnusable == ShowSpec => []HiddenIsUnusable
<1>1. ASSUME ColumnsInv, NEW i \in Interface, NEW brief \in BOOLEAN,
             NEW unusable, unusable = (Applied(i).error \in {"lanes_split", "lanes_not_split"})
      PROVE  /\ Contains(cli_show_interface_exec(All, brief).rows, i) <=> ~unusable
             /\ cli_show_interface_exec(i, brief)
                  = [message |-> unusable, rows |-> IF unusable THEN <<>> ELSE <<i>>, lags |-> <<>>]
  <2>1. unusable <=> Skipped(i)
    BY <1>1, SkippedIsUnusable
  <2>2. Contains(cli_show_interface_exec(All, brief).rows, i) <=> ~unusable
    <3>1. PICK rows : rows = OnlyIn(sort_interface, RowsShown(All))
      OBVIOUS
    <3>2. cli_show_interface_exec(All, brief).rows = rows
      BY <3>1 DEF cli_show_interface_exec
    <3>3. In(i, rows) <=> In(i, sort_interface) /\ i \in RowsShown(All)
      BY <3>1, SortIs, OnlyInIs
    <3>4. i \in RowsShown(All) <=> ~Skipped(i)
      BY DEF RowsShown
    <3>5. Contains(rows, i) <=> In(i, rows)
      BY DEF Contains, In
    <3> QED BY <2>1, <3>2, <3>3, <3>4, <3>5, SortIs
  <2>3. PICK K : K = RowsShown(i)
    OBVIOUS
  <2>4. i # All /\ i \in PortName /\ i \notin Lag
    BY CliAssumption DEF All, PortName
  <2>5. K = IF Skipped(i) THEN {} ELSE {i}
    BY <2>3, <2>4 DEF RowsShown
  <2>6. OnlyIn(sort_interface, K) = IF Skipped(i) THEN <<>> ELSE <<i>>
    BY <2>5, OnlyOne
  <2>7. show_lacp_interfaces_brief(i) = <<>>
    <3>1. NamedLags(i) = <<>>
      BY <1>1, <2>4, NamedLagsIs DEF ColumnsInv
    <3> QED BY <3>1 DEF show_lacp_interfaces_brief
  <2>8. PICK rows, a, message :
           /\ rows = OnlyIn(sort_interface, K) /\ a = show_lacp_interfaces(i)
           /\ message = (i \in Interface /\ Skipped(i))
    OBVIOUS
  <2>9. cli_show_interface_exec(i, brief)
          = [message |-> message, rows |-> rows,
             lags |-> IF message THEN <<>>
                      ELSE IF brief THEN <<>> ELSE IF rows = <<>> THEN a ELSE <<>>]
    BY <2>3, <2>7, <2>8, Zenon DEF cli_show_interface_exec
  <2>10. message = unusable
    <3>1. message \in BOOLEAN /\ (message <=> Skipped(i))
      BY <2>8
    <3>2. unusable \in BOOLEAN
      BY <1>1
    <3> QED BY <2>1, <3>1, <3>2
  <2>11. rows = IF unusable THEN <<>> ELSE <<i>>
    BY <2>1, <2>6, <2>8
  <2>12. CASE unusable
    BY <2>2, <2>9, <2>10, <2>11, <2>12
  <2>13. CASE ~unusable
    <3>1. rows # <<>>
      BY <2>11, <2>13
    <3> QED BY <2>2, <2>9, <2>10, <2>11, <2>13, <3>1
  <2> QED BY <2>12, <2>13
<1>2. ColumnsInv => HiddenIsUnusable
  BY <1>1 DEF HiddenIsUnusable
<1> QED BY <1>2, ShowColumns, PTL

-----------------------------------------------------------------------------
(* The sections of an output.  A part of it without one of n; it ends the  *)
(* section before, if new is TRUE.                                         *)
HeadOf(c, n) == c.name \in HeaderNames /\ c.arg = n
Without(n, s) == \A k \in 1..Len(s) : ~HeadOf(s[k], n)
StartsNew(s) == s = <<>> \/ s[1].name \in HeaderNames
Parts(X, n, new) == {s \in Seq(X) : Without(n, s) /\ (new => StartsNew(s))}

IsSection(b, n) ==
    Len(b) >= 1 /\ HeadOf(b[1], n) /\ \A k \in 2..Len(b) : b[k].name \notin HeaderNames

LEMMA ConcatIs ==
    ASSUME NEW X, NEW s \in Seq(X), NEW t \in Seq(X)
    PROVE  /\ s \o t \in Seq(X) /\ Len(s \o t) = Len(s) + Len(t)
           /\ \A k \in 1..Len(s) : (s \o t)[k] = s[k]
           /\ \A k \in 1..Len(t) : (s \o t)[Len(s) + k] = t[k]
OBVIOUS

LEMMA WithoutConcat ==
    ASSUME NEW X, NEW n, NEW s \in Seq(X), NEW t \in Seq(X), Without(n, s), Without(n, t)
    PROVE  Without(n, s \o t)
<1>1. PICK u : u = s \o t
  OBVIOUS
<1>2. /\ Len(u) = Len(s) + Len(t) /\ Len(s) \in Nat /\ Len(t) \in Nat
      /\ \A k \in 1..Len(s) : u[k] = s[k]
      /\ \A k \in 1..Len(t) : u[Len(s) + k] = t[k]
  BY <1>1, ConcatIs
<1>3. ASSUME NEW k \in 1..Len(u) PROVE ~HeadOf(u[k], n)
  <2>1. CASE k <= Len(s)
    <3>1. k \in 1..Len(s)
      BY <1>2, <2>1
    <3> QED BY <1>2, <3>1 DEF Without
  <2>2. CASE ~(k <= Len(s))
    <3>1. PICK j \in 1..Len(t) : k = Len(s) + j
      <4>1. k - Len(s) \in 1..Len(t) /\ k = Len(s) + (k - Len(s))
        BY <1>2, <2>2
      <4> QED BY <4>1
    <3>2. u[k] = t[j]
      BY <1>2, <3>1
    <3> QED BY <3>2 DEF Without
  <2> QED BY <2>1, <2>2
<1> QED BY <1>1, <1>3 DEF Without

LEMMA PartsConcat ==
    ASSUME NEW X, NEW n, NEW new, NEW s \in Parts(X, n, new), NEW t \in Parts(X, n, new)
    PROVE  s \o t \in Parts(X, n, new)
<1>1. /\ s \in Seq(X) /\ t \in Seq(X) /\ Without(n, s) /\ Without(n, t)
      /\ new => StartsNew(s) /\ StartsNew(t)
  BY DEF Parts
<1>2. PICK u : u = s \o t
  OBVIOUS
<1>3. u \in Seq(X) /\ Without(n, u)
  BY <1>1, <1>2, ConcatStays, WithoutConcat
<1>4. ASSUME new PROVE StartsNew(u)
  <2>1. CASE s = <<>>
    <3>1. u = t
      BY <1>1, <1>2, <2>1
    <3> QED BY <1>1, <1>4, <3>1
  <2>2. CASE s # <<>>
    <3>1. u[1] = s[1]
      BY <1>1, <1>2, <2>2
    <3> QED BY <1>1, <1>4, <2>2, <3>1 DEF StartsNew
  <2> QED BY <2>1, <2>2
<1> QED BY <1>2, <1>3, <1>4 DEF Parts

(* The section of n in an output that has one.                             *)
SectionUpTo(out, n, a, b, c, last) ==
    /\ Section(out, n) = SubSeq(out, Len(a) + 1, last)
    /\ Len(a) + Len(b) <= last /\ last <= Len(out)
    /\ StartsNew(c) => last = Len(a) + Len(b)

LEMMA SectionFrom ==
    ASSUME NEW X, NEW n, NEW a \in Seq(X), NEW b \in Seq(X), NEW c \in Seq(X),
           Without(n, a), IsSection(b, n), Without(n, c), NEW out, out = (a \o b) \o c
    PROVE  \E last \in Nat : SectionUpTo(out, n, a, b, c, last)
<1>1. PICK A, B, C : A = Len(a) /\ B = Len(b) /\ C = Len(c)
  OBVIOUS
<1>2. /\ A \in Nat /\ B \in Nat /\ C \in Nat /\ B >= 1
      /\ out \in Seq(X) /\ Len(out) = A + B + C
      /\ DOMAIN out = 1..(A + B + C)
  BY <1>1 DEF IsSection
<1>3. /\ \A k \in 1..A : out[k] = a[k]
      /\ \A k \in 1..B : out[A + k] = b[k]
      /\ \A k \in 1..C : out[A + B + k] = c[k]
  <2>1. PICK ab \in Seq(X) : ab = a \o b
    BY ConcatStays
  <2>2. /\ Len(ab) = A + B /\ \A k \in 1..A : ab[k] = a[k]
        /\ \A k \in 1..B : ab[A + k] = b[k]
    BY <1>1, <2>1, ConcatIs
  <2>3. /\ \A k \in 1..(A + B) : out[k] = ab[k]
        /\ \A k \in 1..C : out[A + B + k] = c[k]
    BY <1>1, <2>1, <2>2, ConcatIs
  <2>4. \A k \in 1..A : k \in 1..(A + B)
    BY <1>2
  <2>5. \A k \in 1..B : A + k \in 1..(A + B)
    BY <1>2
  <2> QED BY <2>2, <2>3, <2>4, <2>5
<1>4. \A k \in 1..(A + B + C) : HeadOf(out[k], n) <=> k = A + 1
  <2> SUFFICES ASSUME NEW k \in 1..(A + B + C) PROVE HeadOf(out[k], n) <=> k = A + 1
    OBVIOUS
  <2>1. CASE k \in 1..A
    <3>1. ~HeadOf(a[k], n) /\ k # A + 1
      BY <1>1, <1>2, <2>1 DEF Without
    <3> QED BY <1>3, <2>1, <3>1
  <2>2. CASE k = A + 1
    <3>1. out[k] = b[1]
      BY <1>2, <1>3, <2>2
    <3> QED BY <2>2, <3>1 DEF IsSection
  <2>3. CASE k \in (A + 2)..(A + B)
    <3>1. PICK j \in 2..B : k = A + j
      <4>1. k - A \in 2..B /\ k = A + (k - A)
        BY <1>2, <2>3
      <4> QED BY <4>1
    <3>2. j \in 1..B /\ k # A + 1
      BY <1>2, <3>1
    <3>3. out[k] = b[j]
      BY <1>3, <3>1, <3>2
    <3> QED BY <1>1, <3>1, <3>2, <3>3 DEF IsSection, HeadOf
  <2>4. CASE k \in (A + B + 1)..(A + B + C)
    <3>1. PICK j \in 1..C : k = A + B + j
      <4>1. k - (A + B) \in 1..C /\ k = A + B + (k - (A + B))
        BY <1>2, <2>4
      <4> QED BY <4>1
    <3>2. out[k] = c[j] /\ k # A + 1
      BY <1>2, <1>3, <3>1
    <3> QED BY <1>1, <3>2 DEF Without
  <2> QED BY <1>2, <2>1, <2>2, <2>3, <2>4
<1> DEFINE starts == {k \in DOMAIN out : out[k].name \in HeaderNames /\ out[k].arg = n}
           after == {k \in DOMAIN out : k > A + 1 /\ out[k].name \in HeaderNames}
           last == IF after = {} THEN Len(out) ELSE Min(after) - 1
<1>5. starts = {A + 1}
  BY <1>2, <1>4 DEF HeadOf
<1>6. Max(starts) = A + 1
  <2>1. PICK one : one = {A + 1}
    OBVIOUS
  <2>2. Max(one) = A + 1
    BY <1>2, <2>1 DEF Max
  <2> QED BY <1>5, <2>1, <2>2
<1>7. Section(out, n) = SubSeq(out, A + 1, last)
  BY <1>5, <1>6 DEF Section
<1>8. \A k \in after : k \in Nat /\ k >= A + B + 1 /\ k <= A + B + C
  <2> SUFFICES ASSUME NEW k \in after PROVE k >= A + B + 1
    BY <1>2
  <2>1. SUFFICES ASSUME k < A + B + 1 PROVE FALSE
    BY <1>2
  <2>2. PICK j \in 2..B : k = A + j
    <3>1. k - A \in 2..B /\ k = A + (k - A)
      BY <1>2, <2>1
    <3> QED BY <3>1
  <2>3. out[k] = b[j]
    <3>1. out[A + j] = b[j]
      BY <1>1, <1>3, <2>2
    <3> QED BY <2>2, <3>1
  <2> QED BY <1>1, <2>2, <2>3 DEF IsSection
<1>9. last \in Nat /\ A + B <= last /\ last <= Len(out)
  <2>1. CASE after = {}
    BY <1>2, <2>1
  <2>2. CASE after # {}
    <3>1. PICK S : S = after
      OBVIOUS
    <3>2. S \subseteq Nat /\ S # {} /\ \A k \in S : k >= A + B + 1 /\ k <= A + B + C
      BY <1>8, <2>2, <3>1
    <3>3. \E m \in S : \A k \in S : m <= k
      BY <3>2, EnterLoop!LeastNumber
    <3>4. Min(S) \in S
      BY <3>3 DEF Min
    <3>5. last = Min(S) - 1
      BY <2>2, <3>1
    <3>6. PICK m : m = Min(S)
      OBVIOUS
    <3> HIDE DEF last, after
    <3>7. m \in Nat /\ m >= A + B + 1 /\ m <= A + B + C /\ last = m - 1
      BY <3>2, <3>4, <3>5, <3>6
    <3>8. m - 1 \in Nat /\ A + B <= m - 1 /\ m - 1 <= Len(out)
      BY <1>2, <3>7
    <3> QED BY <3>7, <3>8
  <2> QED BY <2>1, <2>2
<1>10. ASSUME StartsNew(c) PROVE last = A + B
  <2>1. CASE c = <<>>
    <3>1. C = 0
      BY <1>1, <2>1
    <3> HIDE DEF last
    <3> QED BY <1>2, <1>9, <3>1
  <2>2. CASE c # <<>>
    <3>1. C >= 1 /\ c[1].name \in HeaderNames
      BY <1>1, <1>10, <2>2 DEF StartsNew
    <3>2. A + B + 1 \in after
      <4>1. out[A + B + 1] = c[1]
        BY <1>1, <1>3, <3>1
      <4>2. A + B + 1 \in (A + 2)..Len(out)
        BY <1>1, <1>2, <3>1
      <4>3. out[A + B + 1].name \in HeaderNames
        BY <3>1, <4>1, Zenon
      <4> QED BY <1>1, <4>2, <4>3
    <3>3. PICK S : S = after
      OBVIOUS
    <3>4. A + B + 1 \in S /\ \A k \in S : k \in Nat /\ k >= A + B + 1
      BY <1>8, <3>2, <3>3
    <3>5. Min(S) = A + B + 1
      BY <1>2, <3>4 DEF Min
    <3>6. last = Min(S) - 1
      BY <3>2, <3>3
    <3> HIDE DEF last, after
    <3> QED BY <1>2, <3>5, <3>6
  <2> QED BY <2>1, <2>2
<1> HIDE DEF last
<1> QED BY <1>1, <1>7, <1>9, <1>10 DEF SectionUpTo

OneSection(out, n, b) == Section(out, n) = b

LEMMA SectionIs ==
    ASSUME NEW X, NEW n, NEW a \in Seq(X), NEW b \in Seq(X), NEW c \in Seq(X),
           Without(n, a), IsSection(b, n), Without(n, c), StartsNew(c), NEW out, out = (a \o b) \o c
    PROVE  OneSection(out, n, b)
<1>1. PICK A \in Nat, B \in Nat : A = Len(a) /\ B = Len(b)
  <2>1. Len(a) \in Nat /\ Len(b) \in Nat
    OBVIOUS
  <2> QED BY <2>1
<1>2. PICK last \in Nat : SectionUpTo(out, n, a, b, c, last)
  BY SectionFrom
<1>3. out \in Seq(X) /\ Len(out) >= A + B /\ \A k \in 1..B : out[A + k] = b[k]
  BY <1>1
<1>4. SubSeq(out, A + 1, A + B) = [k \in 1..B |-> out[A + k]]
  BY <1>1, <1>3
<1>5. b = [k \in 1..B |-> b[k]]
  BY <1>1
<1> QED BY <1>1, <1>2, <1>3, <1>4, <1>5 DEF SectionUpTo, OneSection

(* The section is not cut short, whatever follows.                         *)
LEMMA SectionHas ==
    ASSUME NEW X, NEW n, NEW a \in Seq(X), NEW b \in Seq(X), NEW c \in Seq(X),
           Without(n, a), IsSection(b, n), Without(n, c), NEW out, out = (a \o b) \o c
    PROVE  Range(b) \subseteq Range(Section(out, n))
<1>1. PICK A \in Nat, B \in Nat : A = Len(a) /\ B = Len(b)
  <2>1. Len(a) \in Nat /\ Len(b) \in Nat
    OBVIOUS
  <2> QED BY <2>1
<1>2. PICK last \in Nat : /\ Section(out, n) = SubSeq(out, A + 1, last)
                          /\ A + B <= last /\ last <= Len(out)
  <2>1. PICK last \in Nat : SectionUpTo(out, n, a, b, c, last)
    BY SectionFrom
  <2> QED BY <1>1, <2>1 DEF SectionUpTo
<1>3. out \in Seq(X) /\ Len(out) \in Nat /\ \A k \in 1..B : out[A + k] = b[k]
  BY <1>1
<1>4. PICK s : s = SubSeq(out, A + 1, last)
  OBVIOUS
<1>5. DOMAIN s = 1..(last - A) /\ \A k \in 1..(last - A) : s[k] = out[A + k]
  <2>1. s = [k \in 1..(last - A) |-> out[A + k]]
    <3>1. PICK m : m = A + 1
      OBVIOUS
    <3>2. m \in Nat /\ last + 1 - m = last - A /\ \A k \in 1..(last - A) : m + k - 1 = A + k
      BY <1>1, <1>2, <3>1
    <3> QED BY <1>1, <1>2, <1>4
  <2> QED BY <2>1
<1>6. ASSUME NEW k \in 1..B PROVE b[k] \in Range(s)
  <2>1. k \in 1..(last - A)
    BY <1>1, <1>2
  <2>2. k \in DOMAIN s /\ s[k] = b[k]
    BY <1>3, <1>5, <2>1
  <2> QED BY <2>2 DEF Range
<1>7. DOMAIN b = 1..B
  BY <1>1
<1>8. Range(b) \subseteq Range(s)
  <2>1. \A x \in Range(b) : \E k \in 1..B : x = b[k]
    BY <1>7 DEF Range
  <2> QED BY <1>6, <2>1
<1> QED BY <1>2, <1>4, <1>8

LEMMA NoSection ==
    ASSUME NEW X, NEW n, NEW out \in Seq(X), Without(n, out)
    PROVE  Section(out, n) = <<>>
<1>1. DOMAIN out = 1..Len(out)
  OBVIOUS
<1> QED BY <1>1 DEF Without, HeadOf, Section

(* A concatenation of N sequences.                                         *)
Joined(f, g, N) == f[0] = <<>> /\ \A k \in 1..N : f[k] = f[k - 1] \o g[k]

LEMMA JoinStays ==
    ASSUME NEW X, NEW n, NEW new, NEW N \in Nat, NEW f, NEW g, Joined(f, g, N),
           NEW m \in 0..N, \A k \in 1..m : g[k] \in Parts(X, n, new)
    PROVE  f[m] \in Parts(X, n, new)
<1> DEFINE S == {k \in 0..m : f[k] \in Parts(X, n, new)}
<1>1. 0 \in S
  <2>1. <<>> \in Parts(X, n, new)
    BY DEF Parts, Without, StartsNew
  <2> QED BY <2>1 DEF Joined
<1>2. ASSUME NEW k \in 1..m, k - 1 \in S PROVE k \in S
  <2>1. k \in 1..N /\ k \in 0..m
    OBVIOUS
  <2>2. f[k] = f[k - 1] \o g[k]
    BY <2>1 DEF Joined
  <2>3. PICK s, t : s = f[k - 1] /\ t = g[k] /\ f[k] = s \o t
    BY <2>2
  <2>4. s \in Parts(X, n, new) /\ t \in Parts(X, n, new)
    BY <1>2, <2>3
  <2> QED BY <2>1, <2>3, <2>4, PartsConcat
<1> HIDE DEF S
<1>3. m \in Nat /\ m \in 0..m
  OBVIOUS
<1>4. \A k \in 0..m : k \in S
  BY <1>1, <1>2, <1>3, EnterLoop!InductionUpTo
<1> QED BY <1>3, <1>4 DEF S

Associate(s, t, u) == (s \o t) \o u = s \o (t \o u)

LEMMA ThreeAssociate ==
    ASSUME NEW X, NEW s \in Seq(X), NEW t \in Seq(X), NEW u \in Seq(X)
    PROVE  Associate(s, t, u)
<1>1. (s \o t) \o u = s \o (t \o u)
  OBVIOUS
<1> QED BY <1>1, Zenon DEF Associate

Around(X, n, new, whole, b) ==
    \E a \in Parts(X, n, new), c \in Parts(X, n, new) : whole = (a \o b) \o c

LEMMA JoinAround ==
    ASSUME NEW X, NEW n, NEW new, NEW N \in Nat, NEW f, NEW g, Joined(f, g, N),
           NEW j \in 1..N, g[j] \in Seq(X),
           \A k \in 1..N : k # j => g[k] \in Parts(X, n, new)
    PROVE  Around(X, n, new, f[N], g[j])
<1>1. PICK a : a = f[j - 1]
  OBVIOUS
<1>2. a \in Parts(X, n, new)
  <2>1. j - 1 \in 0..N /\ \A k \in 1..(j - 1) : k \in 1..N /\ k # j
    OBVIOUS
  <2>2. PICK m \in 0..N : m = j - 1
    BY <2>1
  <2>3. \A k \in 1..m : g[k] \in Parts(X, n, new)
    BY <2>1, <2>2
  <2>4. f[m] \in Parts(X, n, new)
    BY <2>3, JoinStays
  <2> QED BY <1>1, <2>2, <2>4
<1>3. PICK w : w = a \o g[j] /\ w \in Seq(X)
  BY <1>2, ConcatStays DEF Parts
<1> DEFINE S == {k \in 0..N : k >= j => \E c \in Parts(X, n, new) : f[k] = w \o c}
<1>4. 0 \in S
  OBVIOUS
<1>5. ASSUME NEW k \in 1..N, k - 1 \in S PROVE k \in S
  <2>0. k \in 0..N
    OBVIOUS
  <2>1. k \in 0..N /\ f[k] = f[k - 1] \o g[k]
    BY <2>0, Zenon DEF Joined
  <2>2. CASE k < j
    BY <2>1, <2>2
  <2>3. CASE k = j
    <3>1. f[k] = w /\ w \o <<>> = w
      BY <1>1, <1>3, <2>1, <2>3
    <3>2. <<>> \in Parts(X, n, new)
      BY DEF Parts, Without, StartsNew
    <3>3. PICK c \in Parts(X, n, new) : f[k] = w \o c
      BY <3>1, <3>2
    <3> QED BY <2>1, <3>3
  <2>4. CASE k > j
    <3>1. k - 1 >= j
      BY <2>4
    <3>2. PICK c \in Parts(X, n, new) : f[k - 1] = w \o c
      BY <1>5, <3>1
    <3>3. PICK t \in Parts(X, n, new) : t = g[k]
      BY <2>4
    <3>4. PICK d : d = c \o t
      OBVIOUS
    <3>5. d \in Parts(X, n, new)
      BY <3>4, PartsConcat
    <3>6. c \in Seq(X) /\ t \in Seq(X)
      BY DEF Parts
    <3>7. Associate(w, c, t)
      BY <1>3, <3>6, ThreeAssociate
    <3>8. f[k] = w \o d
      BY <2>1, <3>2, <3>3, <3>4, <3>7, Zenon DEF Associate
    <3> QED BY <2>1, <3>5, <3>8
  <2> QED BY <2>2, <2>3, <2>4
<1> HIDE DEF S
<1>6. \A k \in 0..N : k \in S
  BY <1>4, <1>5, EnterLoop!InductionUpTo
<1>7. PICK c \in Parts(X, n, new) : f[N] = w \o c
  <2>1. N \in 0..N /\ N >= j
    OBVIOUS
  <2> QED BY <1>6, <2>1 DEF S
<1> QED BY <1>2, <1>3, <1>7 DEF Around

(* What follows the header in a section.                                   *)
Inner == Settings \cup {Cmd("exit", "", FALSE)}

LEMMA InnerAre ==
    \A c \in Inner : c.name \notin HeaderNames
<1> SUFFICES ASSUME NEW c \in Inner PROVE c.name \notin HeaderNames
  OBVIOUS
<1>1. CASE c \in RowCommands
  BY <1>1, CommandsAre DEF HeaderNames
<1>2. CASE c \in OtherCommands
  BY <1>2, OthersAre DEF HeaderNames, QosKeys
<1>3. CASE c = Cmd("exit", "", FALSE)
  BY <1>3 DEF Cmd, HeaderNames
<1> QED BY <1>1, <1>2, <1>3 DEF Inner, Settings

LEMMA InnerWithout ==
    ASSUME NEW n, NEW s \in Seq(Inner)
    PROVE  Without(n, s)
<1> DEFINE X == Inner
<1>1. \A c \in X : ~HeadOf(c, n)
  BY InnerAre DEF HeadOf
<1>2. s \in Seq(X)
  OBVIOUS
<1> HIDE DEF X
<1> QED BY <1>1, <1>2 DEF Without

LEMMA SectionOfInner ==
    ASSUME NEW n, NEW h, HeadOf(h, n), NEW s \in Seq(Inner)
    PROVE  IsSection(<<h>> \o s, n)
<1> DEFINE X == Inner
<1>1. s \in Seq(X) /\ \A c \in X : c.name \notin HeaderNames
  BY InnerAre
<1> HIDE DEF X
<1>2. PICK b : b = <<h>> \o s
  OBVIOUS
<1>3. Len(s) \in Nat /\ \A k \in 1..Len(s) : s[k] \in X
  BY <1>1
<1>4. Len(b) = Len(s) + 1 /\ b[1] = h /\ \A k \in 1..Len(s) : b[k + 1] = s[k]
  BY <1>2, <1>3
<1>5. ASSUME NEW k \in 2..Len(b) PROVE b[k].name \notin HeaderNames
  <2>1. PICK j \in 1..Len(s) : k = j + 1
    <3>1. k - 1 \in 1..Len(s) /\ k = (k - 1) + 1
      BY <1>3, <1>4
    <3> QED BY <3>1
  <2>2. b[k] = s[j]
    BY <1>4, <2>1
  <2> QED BY <1>1, <1>3, <2>2
<1> QED BY <1>2, <1>3, <1>4, <1>5 DEF IsSection

LEMMA SectionIsPart ==
    ASSUME NEW X, NEW b \in Seq(X), NEW p, IsSection(b, p), NEW n, n # p, NEW new
    PROVE  b \in Parts(X, n, new)
<1>1. Len(b) \in Nat /\ Len(b) >= 1 /\ HeadOf(b[1], p) /\ \A k \in 2..Len(b) : b[k].name \notin HeaderNames
  BY DEF IsSection
<1>2. Without(n, b)
  <2> SUFFICES ASSUME NEW k \in 1..Len(b) PROVE ~HeadOf(b[k], n)
    BY DEF Without
  <2>1. CASE k = 1
    BY <1>1, <2>1 DEF HeadOf
  <2>2. CASE k # 1
    <3>1. k \in 2..Len(b)
      BY <1>1, <2>2
    <3> QED BY <1>1, <3>1 DEF HeadOf
  <2> QED BY <2>1, <2>2
<1>3. StartsNew(b)
  BY <1>1 DEF StartsNew, HeadOf
<1> QED BY <1>2, <1>3 DEF Parts

LEMMA ShowSectionIs ==
    ASSUME ColumnsInv, NEW i \in Interface, NEW shown, shown = TRUE
    PROVE  /\ ShowSection(i) \in Seq(Commands(shown))
           /\ ShowSection(i) # <<>> => IsSection(ShowSection(i), i)
           /\ \A n, new : n # i => ShowSection(i) \in Parts(Commands(shown), n, new)
<1>1. PICK c, lines : c = ShowSection(i) /\ lines = SectionLines(i)
  OBVIOUS
<1>2. c \in Seq(Commands(shown))
  BY <1>1, SectionLinesAre
<1>3. c # <<>> => IsSection(c, i)
  <2>1. SUFFICES ASSUME c # <<>> PROVE IsSection(c, i)
    OBVIOUS
  <2>2. PICK h, e : h = Cmd("interface", i, FALSE) /\ e = Cmd("exit", "", FALSE)
    OBVIOUS
  <2>3. c = (<<h>> \o lines) \o <<e>>
    BY <1>1, <2>1, <2>2 DEF ShowSection, Header, Exit
  <2> DEFINE X == Inner
             Y == Settings
  <2>4. lines \in Seq(Y) /\ Y \subseteq X /\ e \in X
    BY <1>1, <2>2, RowsOf, SectionIsSettings DEF Inner
  <2> HIDE DEF X, Y
  <2>5. lines \in Seq(X) /\ <<e>> \in Seq(X)
    BY <2>4
  <2>6. PICK s : s = lines \o <<e>>
    OBVIOUS
  <2>7. s \in Seq(X)
    BY <2>5, <2>6
  <2>8. c = <<h>> \o s
    <3>1. PICK Z : Z = X \cup {h}
      OBVIOUS
    <3>2. <<h>> \in Seq(Z) /\ lines \in Seq(Z) /\ <<e>> \in Seq(Z)
      BY <2>5, <3>1
    <3>3. Associate(<<h>>, lines, <<e>>)
      BY <3>2, ThreeAssociate
    <3> QED BY <2>3, <2>6, <3>3, Zenon DEF Associate
  <2>9. HeadOf(h, i)
    BY <2>2 DEF HeadOf, Cmd, HeaderNames
  <2> QED BY <2>7, <2>8, <2>9, SectionOfInner DEF X
<1>4. ASSUME NEW n, n # i, NEW new PROVE c \in Parts(Commands(shown), n, new)
  <2>1. CASE c = <<>>
    BY <2>1 DEF Parts, Without, StartsNew
  <2>2. CASE c # <<>>
    BY <1>2, <1>3, <1>4, <2>2, SectionIsPart
  <2> QED BY <2>1, <2>2
<1> QED BY <1>1, <1>2, <1>3, <1>4

-----------------------------------------------------------------------------
(* The rows of the whole output, before the LAGs.                          *)
RowsSplit(X, new, rows) ==
    /\ rows \in Seq(X)
    /\ \A n : n \notin Interface => rows \in Parts(X, n, new)
    /\ \A i \in Interface : Around(X, i, new, rows, ShowSection(i))

LEMMA WholeIs ==
    ASSUME ColumnsInv, NEW shown, shown = TRUE, NEW new
    PROVE  \E rows : /\ RowsSplit(Commands(shown), new, rows)
                     /\ cli_show_run_interface_exec(All) = rows \o parse_lag(All)
<1> DEFINE X == Commands(shown)
<1>1. PICK N, s : N = Cardinality(Interface) /\ s = sort_interface
  OBVIOUS
<1>2. PICK f \in [0..N -> Seq(X)] :
         /\ f[0] = <<>>
         /\ \A k \in 1..N : f[k] = f[k - 1] \o ShowSection(sort_interface[k])
         /\ cli_show_run_interface_exec(All) = f[N] \o parse_lag(All)
  BY <1>1, ShowRuns
<1>3. /\ N \in Nat /\ s \in [1..N -> Interface]
      /\ \A j, k \in 1..N : s[j] = s[k] => j = k
      /\ \A i \in Interface : \E k \in 1..N : s[k] = i
  BY <1>1, SortIs DEF IsList, In
<1>4. PICK g : g = [k \in 1..N |-> ShowSection(s[k])]
  OBVIOUS
<1>5. Joined(f, g, N)
  BY <1>1, <1>2, <1>4 DEF Joined
<1>6. ASSUME NEW k \in 1..N
      PROVE  /\ g[k] = ShowSection(s[k]) /\ s[k] \in Interface /\ g[k] \in Seq(X)
             /\ \A n : n # s[k] => g[k] \in Parts(X, n, new)
  BY <1>3, <1>4, ShowSectionIs
<1>7. PICK rows : rows = f[N]
  OBVIOUS
<1> HIDE DEF X
<1>8. rows \in Seq(X)
  BY <1>2, <1>3, <1>7
<1>9. ASSUME NEW n, n \notin Interface PROVE rows \in Parts(X, n, new)
  <2>1. \A k \in 1..N : g[k] \in Parts(X, n, new)
    BY <1>6, <1>9
  <2>2. PICK m \in 0..N : m = N
    BY <1>3
  <2>3. f[m] \in Parts(X, n, new)
    BY <1>3, <1>5, <2>1, <2>2, JoinStays
  <2> QED BY <1>7, <2>2, <2>3
<1>10. ASSUME NEW i \in Interface
       PROVE  Around(X, i, new, rows, ShowSection(i))
  <2>1. PICK j \in 1..N : s[j] = i
    BY <1>3
  <2>2. \A k \in 1..N : k # j => g[k] \in Parts(X, i, new)
    BY <1>3, <1>6, <2>1
  <2>3. g[j] \in Seq(X)
    BY <1>6
  <2>4. Around(X, i, new, f[N], g[j])
    BY <1>3, <1>5, <2>2, <2>3, JoinAround
  <2> QED BY <1>6, <1>7, <2>1, <2>4
<1>11. RowsSplit(X, new, rows)
  BY <1>8, <1>9, <1>10 DEF RowsSplit
<1> QED BY <1>2, <1>7, <1>11 DEF X

-----------------------------------------------------------------------------
(* What is put before or after the parts.                                  *)
LEMMA AroundBefore ==
    ASSUME NEW X, NEW n, NEW new, NEW w, NEW b \in Seq(X), Around(X, n, new, w, b),
           NEW s \in Parts(X, n, new)
    PROVE  Around(X, n, new, s \o w, b)
<1>1. PICK a \in Parts(X, n, new), c \in Parts(X, n, new) : w = (a \o b) \o c
  BY DEF Around
<1>2. s \in Seq(X) /\ a \in Seq(X) /\ c \in Seq(X)
  BY DEF Parts
<1>3. PICK d : d = s \o a
  OBVIOUS
<1>4. d \in Parts(X, n, new)
  BY <1>3, PartsConcat
<1>5. Associates(s, a, b, c)
  BY <1>2, ConcatAssociates
<1>6. s \o w = (d \o b) \o c
  BY <1>1, <1>3, <1>5, Zenon DEF Associates
<1> QED BY <1>4, <1>6 DEF Around

LEMMA AroundAfter ==
    ASSUME NEW X, NEW n, NEW new, NEW w, NEW b \in Seq(X), Around(X, n, new, w, b),
           NEW t \in Parts(X, n, new)
    PROVE  Around(X, n, new, w \o t, b)
<1>1. PICK a \in Parts(X, n, new), c \in Parts(X, n, new) : w = (a \o b) \o c
  BY DEF Around
<1>2. t \in Seq(X) /\ a \in Seq(X) /\ c \in Seq(X)
  BY DEF Parts
<1>3. PICK d, v : d = c \o t /\ v = a \o b
  OBVIOUS
<1>4. d \in Parts(X, n, new) /\ v \in Seq(X)
  BY <1>2, <1>3, PartsConcat, ConcatStays
<1>5. Associate(v, c, t)
  BY <1>2, <1>4, ThreeAssociate
<1>6. w \o t = (a \o b) \o d
  BY <1>1, <1>3, <1>5, Zenon DEF Associate
<1> QED BY <1>4, <1>6 DEF Around

(* The one section of a whole output.                                      *)
LEMMA AroundSection ==
    ASSUME NEW X, NEW n, NEW new, new = TRUE, NEW w, NEW b \in Seq(X), Around(X, n, new, w, b),
           b # <<>> => IsSection(b, n)
    PROVE  Section(w, n) = b
<1>1. PICK a \in Parts(X, n, new), c \in Parts(X, n, new) : w = (a \o b) \o c
  BY DEF Around
<1>2. /\ a \in Seq(X) /\ c \in Seq(X) /\ Without(n, a) /\ Without(n, c) /\ StartsNew(c)
  BY DEF Parts
<1>3. CASE b # <<>>
  <2>1. IsSection(b, n)
    BY <1>3
  <2>2. OneSection(w, n, b)
    BY <1>1, <1>2, <2>1, SectionIs
  <2> QED BY <2>2 DEF OneSection
<1>4. CASE b = <<>>
  <2>1. a \o <<>> = a
    BY <1>2
  <2>2. w = a \o c
    BY <1>1, <1>4, <2>1
  <2>3. w \in Parts(X, n, new)
    BY <2>2, PartsConcat
  <2> QED BY <1>4, <2>3, NoSection DEF Parts
<1> QED BY <1>3, <1>4

-----------------------------------------------------------------------------
(* The lines of a LAG: those of its section, and its address.              *)
LagOwn(l) ==
    <<Cmd("interface lag", l, FALSE)>>
    \o When(padmin[l] = "up", <<Cmd("shutdown", "", TRUE)>>)
    \o When(l3[l] = "bridged", <<Cmd("routing", "", TRUE)>>)
    \o qos_port_show_running_config(l)
LagAddress(l) == When(l3[l] = "address", <<Cmd("ip address", l, FALSE)>>)

LEMMA LagOwnIs ==
    ASSUME NEW l \in Lag
    PROVE  /\ LagAddress(l) \in Seq(Inner)
           /\ \E s \in Seq(Inner) : LagOwn(l) = <<Cmd("interface lag", l, FALSE)>> \o s
<1> DEFINE X == Inner
           Y == OtherCommands
<1>1. PICK u \in X, b \in X, a \in X :
         /\ u = Cmd("shutdown", "", TRUE) /\ b = Cmd("routing", "", TRUE)
         /\ a = Cmd("ip address", l, FALSE)
  BY DEF Inner, Settings, RowCommands, OtherCommands, PortName
<1>2. Y \subseteq X /\ qos_port_show_running_config(l) \in Seq(Y)
  BY QosLinesAre DEF PortName, Inner, Settings
<1>3. PICK h, q : h = Cmd("interface lag", l, FALSE) /\ q = qos_port_show_running_config(l)
  OBVIOUS
<1> HIDE DEF X, Y
<1>4. q \in Seq(X)
  <2>1. q \in Seq(Y)
    BY <1>2, <1>3
  <2> QED BY <1>2, <2>1
<1>5. PICK s, t : /\ s = When(padmin[l] = "up", <<u>>)
                  /\ t = When(l3[l] = "bridged", <<b>>)
  OBVIOUS
<1>6. s \in Seq(X)
  BY <1>5, WhenStays, SingleStays
<1>7. t \in Seq(X)
  BY <1>5, WhenStays, SingleStays
<1>8. LagAddress(l) \in Seq(X)
  BY <1>1, WhenStays, SingleStays DEF LagAddress
<1>9. PICK v : v = (s \o t) \o q
  OBVIOUS
<1>10. v \in Seq(X)
  BY <1>4, <1>6, <1>7, <1>9
<1>11. <<h>> \o v = ((<<h>> \o s) \o t) \o q
  <2>1. PICK Z : Z = X \cup {h}
    OBVIOUS
  <2>2. <<h>> \in Seq(Z) /\ s \in Seq(Z) /\ t \in Seq(Z) /\ q \in Seq(Z)
    BY <1>4, <1>6, <1>7, <2>1
  <2>3. Associates(<<h>>, s, t, q)
    BY <2>2, ConcatAssociates
  <2> QED BY <1>9, <2>3, Zenon DEF Associates
<1>12. LagOwn(l) = ((<<h>> \o s) \o t) \o q
  BY <1>1, <1>3, <1>5, Zenon DEF LagOwn
<1>13. LagOwn(l) = <<h>> \o v
  BY <1>11, <1>12
<1> QED BY <1>3, <1>8, <1>10, <1>13 DEF X

LEMMA LagLinesAre ==
    ASSUME NEW l \in Lag, NEW filter, NEW shown, shown = TRUE
    PROVE  /\ LagLines(l, filter) \in Seq(Commands(shown))
           /\ filter \in {All, l} => IsSection(LagLines(l, filter), l)
           /\ \A n, new : n # l /\ (new => filter = All)
                            => LagLines(l, filter) \in Parts(Commands(shown), n, new)
           /\ LagLines(l, All) = LagLines(l, l)
<1> DEFINE Y == Inner
           X == Commands(shown)
<1>1. PICK a, c, h : a = LagAddress(l) /\ c = LagOwn(l) /\ h = Cmd("interface lag", l, FALSE)
  OBVIOUS
<1>2. Y \subseteq X /\ h \in X /\ HeadOf(h, l)
  BY <1>1 DEF Inner, Settings, Commands, Ends, HeadOf, Cmd, HeaderNames
<1>3. a \in Seq(Y) /\ \E s \in Seq(Y) : c = <<h>> \o s
  BY <1>1, LagOwnIs
<1> HIDE DEF X, Y
<1>4. PICK s \in Seq(Y) : c = <<h>> \o s
  BY <1>3
<1>5. PICK v : v = s \o a
  OBVIOUS
<1>6. v \in Seq(Y) /\ v \in Seq(X) /\ <<h>> \in Seq(X) /\ a \in Seq(X) /\ s \in Seq(X)
  BY <1>2, <1>3, <1>4, <1>5
<1>7. c \o a = <<h>> \o v
  <2>1. Associate(<<h>>, s, a)
    BY <1>6, ThreeAssociate
  <2> QED BY <1>4, <1>5, <2>1, Zenon DEF Associate
<1>8. IsSection(c \o a, l) /\ c \o a \in Seq(X)
  <2>1. IsSection(<<h>> \o v, l)
    BY <1>2, <1>6, SectionOfInner DEF Y
  <2> QED BY <1>6, <1>7, <2>1
<1>9. PICK lines : lines = LagLines(l, filter)
  OBVIOUS
<1>10. \/ lines = c \o a
       \/ lines = a /\ filter \notin {All, l}
  <2>1. lines = When(filter \in {All, l} \/ <<filter, l>> \in PrefixOf, c) \o a
    BY <1>1, <1>9, Zenon DEF LagLines, LagOwn, LagAddress
  <2>2. <<>> \o a = a
    BY <1>6
  <2>3. CASE filter \in {All, l} \/ <<filter, l>> \in PrefixOf
    BY <2>1, <2>3 DEF When
  <2>4. CASE ~(filter \in {All, l} \/ <<filter, l>> \in PrefixOf)
    BY <2>1, <2>2, <2>4 DEF When
  <2> QED BY <2>3, <2>4
<1>11. lines \in Seq(X)
  BY <1>6, <1>8, <1>10
<1>12. filter \in {All, l} => IsSection(lines, l)
  BY <1>8, <1>10
<1>13. ASSUME NEW n, n # l, NEW new, new => filter = All
       PROVE  lines \in Parts(X, n, new)
  <2>1. CASE lines = c \o a
    BY <1>8, <1>13, <2>1, SectionIsPart
  <2>2. CASE lines = a /\ filter \notin {All, l}
    <3>1. Without(n, a)
      BY <1>3, InnerWithout DEF Y
    <3> QED BY <1>6, <1>13, <2>2, <3>1 DEF Parts
  <2> QED BY <1>10, <2>1, <2>2
<1>14. LagLines(l, All) = LagLines(l, l)
  BY DEF LagLines
<1> QED BY <1>9, <1>11, <1>12, <1>13, <1>14 DEF X

(* The lines of all LAGs.                                                  *)
LEMMA LagsSplit ==
    ASSUME NEW shown, shown = TRUE, NEW filter, filter \notin Interface,
           NEW new, new => filter = All
    PROVE  /\ parse_lag(filter) \in Seq(Commands(shown))
           /\ \A n : n \notin ports \cap Lag => parse_lag(filter) \in Parts(Commands(shown), n, new)
           /\ \A l \in ports \cap Lag :
                 Around(Commands(shown), l, new, parse_lag(filter), LagLines(l, filter))
<1> DEFINE S == ports \cap Lag
           X == Commands(shown)
<1>1. PICK lags : lags = SetToSeq(S)
  OBVIOUS
<1>2. /\ lags \in Seq(S) /\ IsList(lags, S)
      /\ \A l \in S : In(l, lags)
  <2>1. IsFiniteSet(S)
    BY FS_Subset, CliAssumption
  <2> HIDE DEF S
  <2> QED BY <1>1, <2>1, SetListed
<1>3. PICK g : g = [k \in DOMAIN lags |-> LagLines(lags[k], filter)]
  OBVIOUS
<1>4. parse_lag(filter) = FlattenSeq(g)
  BY <1>1, <1>3 DEF parse_lag
<1>5. \A l \in S : /\ l \in Lag /\ LagLines(l, filter) \in Seq(X)
                   /\ \A n : n # l => LagLines(l, filter) \in Parts(X, n, new)
  BY LagLinesAre
<1> HIDE DEF S, X
<1>6. PICK N \in Nat : N = Len(lags)
  <2>1. Len(lags) \in Nat
    BY <1>2
  <2> QED BY <2>1
<1>7. /\ DOMAIN lags = 1..N
      /\ \A k \in 1..N : lags[k] \in S
      /\ \A j, k \in 1..N : lags[j] = lags[k] => j = k
      /\ \A l \in S : \E k \in 1..N : lags[k] = l
  BY <1>2, <1>6 DEF IsList, In
<1>8. \A k \in 1..N : g[k] = LagLines(lags[k], filter)
  BY <1>3, <1>7
<1>9. g \in Seq(Seq(X)) /\ Len(g) = N
  <2>1. g \in [1..N -> Seq(X)]
    BY <1>3, <1>5, <1>7
  <2> QED BY <2>1
<1>10. PICK f \in [0..N -> Seq(X)] : Joined(f, g, N) /\ parse_lag(filter) = f[N]
  <2>1. PICK f \in [0..Len(g) -> Seq(X)] :
           EnterLoop!Joins(f, g) /\ EnterLoop!FlattenSeq(g) = f[Len(g)]
    BY <1>9, EnterLoop!FlattenJoins
  <2>2. EnterLoop!FlattenSeq(g) = FlattenSeq(g)
    BY DEF FlattenSeq, EnterLoop!FlattenSeq
  <2>3. Joined(f, g, N)
    BY <1>9, <2>1 DEF Joined, EnterLoop!Joins
  <2> QED BY <1>4, <1>9, <2>1, <2>2, <2>3
<1>11. parse_lag(filter) \in Seq(X)
  BY <1>6, <1>10
<1>12. ASSUME NEW n, n \notin S PROVE parse_lag(filter) \in Parts(X, n, new)
  <2>1. \A k \in 1..N : g[k] \in Parts(X, n, new)
    BY <1>5, <1>7, <1>8, <1>12
  <2>2. PICK m \in 0..N : m = N
    BY <1>6
  <2>3. f[m] \in Parts(X, n, new)
    BY <1>10, <2>1, <2>2, JoinStays
  <2> QED BY <1>10, <2>2, <2>3
<1>13. ASSUME NEW l \in S PROVE Around(X, l, new, parse_lag(filter), LagLines(l, filter))
  <2>1. PICK j \in 1..N : lags[j] = l
    BY <1>7
  <2>2. \A k \in 1..N : k # j => g[k] \in Parts(X, l, new)
    BY <1>5, <1>7, <1>8, <2>1
  <2>3. g[j] \in Seq(X)
    BY <1>5, <1>7, <1>8
  <2>4. Around(X, l, new, f[N], g[j])
    BY <1>10, <2>2, <2>3, JoinAround
  <2> QED BY <1>8, <1>10, <2>1, <2>4
<1> QED BY <1>11, <1>12, <1>13 DEF S, X

-----------------------------------------------------------------------------
(* The sections of the whole output.                                       *)
LEMMA SectionsOfWhole ==
    ASSUME ColumnsInv, NEW whole, whole = cli_show_run_interface_exec(All)
    PROVE  /\ \A i \in Interface : Section(whole, i) = ShowSection(i)
           /\ \A l \in Lag : Section(whole, l) = IF l \in ports THEN LagLines(l, All) ELSE <<>>
<1>1. PICK yes : yes = TRUE
  OBVIOUS
<1> DEFINE X == Commands(yes)
<1>2. PICK rows : RowsSplit(X, yes, rows) /\ whole = rows \o parse_lag(All)
  BY <1>1, WholeIs
<1>3. PICK lags : lags = parse_lag(All)
  OBVIOUS
<1>4. /\ lags \in Seq(X)
      /\ \A n : n \notin ports \cap Lag => lags \in Parts(X, n, yes)
      /\ \A l \in ports \cap Lag : Around(X, l, yes, lags, LagLines(l, All))
  <2>1. All \notin Interface
    BY CliAssumption DEF All
  <2> QED BY <1>1, <1>3, <2>1, LagsSplit
<1>5. ASSUME NEW i \in Interface PROVE Section(whole, i) = ShowSection(i)
  <2>1. PICK b : b = ShowSection(i)
    OBVIOUS
  <2>2. b \in Seq(X) /\ (b # <<>> => IsSection(b, i))
    BY <1>1, <2>1, ShowSectionIs
  <2> HIDE DEF X
  <2>3. Around(X, i, yes, rows, b)
    BY <1>2, <2>1 DEF RowsSplit
  <2>4. lags \in Parts(X, i, yes)
    BY <1>4, CliAssumption
  <2>5. Around(X, i, yes, whole, b)
    BY <1>2, <1>3, <2>2, <2>3, <2>4, AroundAfter
  <2> QED BY <1>1, <2>1, <2>2, <2>5, AroundSection
<1>6. ASSUME NEW l \in Lag
      PROVE  Section(whole, l) = IF l \in ports THEN LagLines(l, All) ELSE <<>>
  <2>1. rows \in Parts(X, l, yes)
    <3> HIDE DEF X
    <3> QED BY <1>2, CliAssumption DEF RowsSplit
  <2>2. CASE l \in ports
    <3>1. PICK b : b = LagLines(l, All)
      OBVIOUS
    <3>2. b \in Seq(X) /\ IsSection(b, l)
      BY <1>1, <3>1, LagLinesAre
    <3> HIDE DEF X
    <3>3. Around(X, l, yes, lags, b)
      BY <1>4, <2>2, <3>1
    <3>4. Around(X, l, yes, whole, b)
      BY <1>2, <1>3, <2>1, <3>2, <3>3, AroundBefore
    <3>5. Section(whole, l) = b
      BY <1>1, <3>2, <3>4, AroundSection
    <3> QED BY <2>2, <3>1, <3>5
  <2>3. CASE l \notin ports
    <3> HIDE DEF X
    <3>1. lags \in Parts(X, l, yes)
      BY <1>4, <2>3
    <3>2. whole \in Parts(X, l, yes)
      BY <1>2, <1>3, <2>1, <3>1, PartsConcat
    <3>3. Section(whole, l) = <<>>
      BY <3>2, NoSection DEF Parts
    <3> QED BY <2>3, <3>3
  <2> QED BY <2>2, <2>3
<1> QED BY <1>5, <1>6

-----------------------------------------------------------------------------
(* The loop with a filter that names an interface makes at most one step,  *)
(* and with one that names none makes no step.                             *)
ShowRunOf(filter) == ShowLoop!Result(filter, ShowStart, sort_interface)

LEMMA ShowRunIs ==
    ASSUME NEW filter
    PROVE  cli_show_run_interface_exec(filter) = ShowRunOf(filter).out \o parse_lag(filter)
BY DEF cli_show_run_interface_exec, ShowStart, ShowRunOf, ShowLoop!Result, FoldLeft,
       ShowLoop!FoldLeft, MapThenFoldSet, ShowLoop!MapThenFoldSet, Max, ShowLoop!Max

LEMMA OtherStep ==
    ASSUME NEW filter, NEW i, filter \notin {All, i}, NEW r
    PROVE  ShowRunStep(filter, r, i) = r
BY DEF ShowRunStep

LEMMA DoneStep ==
    ASSUME NEW filter, NEW i, NEW r, r.done
    PROVE  ShowRunStep(filter, r, i) = r
BY DEF ShowRunStep

LEMMA FilteredLoop ==
    ASSUME NEW i \in Interface
    PROVE  ShowRunOf(i) = ShowRunStep(i, ShowStart, i)
<1>1. PICK n, s : n = Cardinality(Interface) /\ s = sort_interface
  OBVIOUS
<1>2. /\ n \in Nat /\ s \in [1..n -> Interface] /\ Len(s) = n /\ s \in Seq(Interface)
      /\ IsList(s, Interface) /\ In(i, s)
  BY <1>1, SortIs DEF IsList
<1>3. PICK j \in 1..n : s[j] = i
  BY <1>2 DEF In
<1>4. \A k \in 1..Len(s) : s[k] = i => k = j
  BY <1>2, <1>3 DEF IsList
<1>5. PICK start, r : start = ShowStart /\ r = ShowRunStep(i, ShowStart, i)
  OBVIOUS
<1>6. i # All
  BY CliAssumption DEF All
<1>7. r = start \/ r.done
  <2>1. r = start \/ r.done = (i # All) \/ r.done = TRUE
    BY <1>5 DEF ShowRunStep, ShowStart
  <2> QED BY <1>6, <2>1
<1>8. ShowRunStep(i, start, i) = r /\ ShowRunStep(i, r, i) \in {start, r}
  BY <1>5, <1>7, DoneStep
<1>9. \A q : \A x \in Interface : x # i => ShowRunStep(i, q, x) = q
  BY <1>6, OtherStep
<1>10. j \in 1..Len(s)
  BY <1>2
<1>11. ShowLoop!Result(i, start, s) = r
  BY <1>2, <1>3, <1>4, <1>8, <1>9, <1>10, ShowLoop!ResultOfOne
<1> QED BY <1>1, <1>5, <1>11 DEF ShowRunOf

LEMMA NoRowLoop ==
    ASSUME NEW l \in Lag
    PROVE  ShowRunOf(l) = ShowStart
<1>1. PICK n, s : n = Cardinality(Interface) /\ s = sort_interface
  OBVIOUS
<1>2. s \in Seq(Interface)
  BY <1>1, SortIs DEF IsList
<1>3. PICK start, T : start = ShowStart /\ T = {start}
  OBVIOUS
<1>4. \A q \in T, x \in Interface : ShowRunStep(l, q, x) \in T
  <2>1. \A x \in Interface : l \notin {All, x}
    BY CliAssumption DEF All
  <2> QED BY <1>3, <2>1, OtherStep
<1>5. start \in T
  BY <1>3
<1>6. ShowLoop!Result(l, start, s) \in T
  BY <1>2, <1>4, <1>5, ShowLoop!ResultInSet
<1> QED BY <1>1, <1>3, <1>6 DEF ShowRunOf

-----------------------------------------------------------------------------
(* What is shown of one interface.                                         *)
LEMMA PrefixIs ==
    ASSUME NEW X, NEW s \in Seq(X), NEW t \in Seq(X)
    PROVE  IsPrefix(s, s \o t)
<1>1. PICK w : w = s \o t
  OBVIOUS
<1>2. PICK m \in Nat : m = Len(s)
  <2>1. Len(s) \in Nat
    OBVIOUS
  <2> QED BY <2>1
<1>3. w \in Seq(X) /\ m <= Len(w) /\ \A k \in 1..m : w[k] = s[k]
  BY <1>1, <1>2
<1>4. SubSeq(s, 1, m) = [k \in 1..m |-> s[k]] /\ SubSeq(w, 1, m) = [k \in 1..m |-> w[k]]
  BY <1>2, <1>3
<1>5. SubSeq(s, 1, m) = SubSeq(w, 1, m)
  BY <1>3, <1>4
<1> QED BY <1>1, <1>2, <1>3, <1>5 DEF IsPrefix

LEMMA LastOfConcat ==
    ASSUME NEW X, NEW s \in Seq(X), NEW Y, NEW t \in Seq(Y), t # <<>>
    PROVE  Last(s \o t) \in Y
<1>1. PICK Z : Z = X \cup Y
  OBVIOUS
<1>2. s \in Seq(Z) /\ t \in Seq(Z)
  BY <1>1
<1>3. PICK w, m, k : w = s \o t /\ m = Len(s) /\ k = Len(t)
  OBVIOUS
<1>4. m \in Nat /\ k \in Nat /\ k # 0 /\ Len(w) = m + k
  BY <1>2, <1>3
<1>5. k \in 1..k /\ t[k] \in Y
  BY <1>3, <1>4
<1>6. w[m + k] = t[k]
  BY <1>2, <1>3, <1>5, ConcatIs
<1> QED BY <1>3, <1>4, <1>5, <1>6 DEF Last

FilteredRow(i, whole, shown) ==
    IF PauseLines(i) = <<>> THEN shown = Section(whole, i)
    ELSE IsPrefix(shown, Section(whole, i)) /\ Last(shown) \in {ReceiveOn, SendOn}

LEMMA RowIsSection ==
    ASSUME ColumnsInv, NEW i \in Interface,
           NEW whole, whole = cli_show_run_interface_exec(All),
           NEW shown, shown = cli_show_run_interface_exec(i)
    PROVE  FilteredRow(i, whole, shown)
<1>1. PICK yes : yes = TRUE
  OBVIOUS
<1> DEFINE X == Commands(yes)
<1>2. PICK b, p, a, h, e : /\ b = BeforePause(i) /\ p = PauseLines(i) /\ a = AfterPause(i)
                           /\ h = Header(i) /\ e = Exit
  OBVIOUS
<1>3. /\ b \in Seq(X) /\ p \in Seq(X) /\ a \in Seq(X) /\ h \in Seq(X) /\ e \in Seq(X)
      /\ p \in Seq({ReceiveOn, SendOn})
  <2> DEFINE Y == Settings
  <2>1. b \in Seq(Y) /\ p \in Seq(Y) /\ a \in Seq(Y)
    BY <1>2, RowsOf, SectionIsSettings
  <2>2. Y \subseteq X
    BY <1>1 DEF Settings, Commands
  <2>3. h \in Seq(X) /\ e \in Seq(X)
    BY <1>1, <1>2, SectionLinesAre
  <2>4. p \in Seq({ReceiveOn, SendOn})
    BY <1>2 DEF PauseLines, When
  <2> HIDE DEF X, Y
  <2> QED BY <2>1, <2>2, <2>3, <2>4
<1>4. PICK section : section = ShowSection(i) /\ Section(whole, i) = section
  BY SectionsOfWhole
<1>5. PICK r : r = ShowRunStep(i, ShowStart, i)
  OBVIOUS
<1>6. shown = r.out \o <<>>
  <2>1. parse_lag(i) = <<>>
    BY DEF parse_lag
  <2> QED BY <1>5, <2>1, ShowRunIs, FilteredLoop
<1> HIDE DEF X
<1>7. PICK lines : lines = (b \o p) \o a
  OBVIOUS
<1>8. lines \in Seq(X) /\ (lines = <<>> => p = <<>>)
  <2>1. lines \in Seq(X) /\ Len(lines) = Len(b) + Len(p) + Len(a)
    BY <1>3, <1>7
  <2>2. Len(b) \in Nat /\ Len(p) \in Nat /\ Len(a) \in Nat
    BY <1>3
  <2>3. lines = <<>> => Len(p) = 0
    BY <2>1, <2>2
  <2> QED BY <1>3, <2>1, <2>3
<1>9. i # All
  BY CliAssumption DEF All
<1>10. CASE lines = <<>> /\ i \notin ports
  <2>1. section = <<>> /\ r = ShowStart
    BY <1>2, <1>4, <1>5, <1>7, <1>10, Zenon DEF ShowSection, SectionLines, ShowRunStep
  <2>2. r.out = <<>>
    BY <2>1 DEF ShowStart
  <2>3. shown = section
    BY <1>6, <2>1, <2>2
  <2> QED BY <1>2, <1>4, <1>8, <1>10, <2>3 DEF FilteredRow
<1>11. CASE ~(lines = <<>> /\ i \notin ports) /\ p = <<>>
  <2>1. section = (h \o lines) \o e
    BY <1>2, <1>4, <1>7, <1>11, Zenon DEF ShowSection, SectionLines
  <2>2. r = [out |-> ((<<>> \o h) \o lines) \o e, done |-> i # All]
    BY <1>2, <1>5, <1>7, <1>9, <1>11 DEF ShowRunStep, ShowStart
  <2>3. r.out = ((<<>> \o h) \o lines) \o e
    BY <2>2
  <2>4. <<>> \o h = h
    BY <1>3
  <2>5. r.out = section
    BY <2>1, <2>3, <2>4
  <2>6. section \in Seq(X)
    BY <1>3, <1>8, <2>1
  <2>7. shown = section
    BY <1>6, <2>5, <2>6
  <2> QED BY <1>2, <1>4, <1>11, <2>7 DEF FilteredRow
<1>12. CASE ~(lines = <<>> /\ i \notin ports) /\ p # <<>>
  <2>1. section = (h \o lines) \o e
    BY <1>2, <1>4, <1>7, <1>12, Zenon DEF ShowSection, SectionLines
  <2>2. r = [out |-> ((<<>> \o h) \o b) \o p, done |-> TRUE]
    BY <1>2, <1>5, <1>7, <1>9, <1>12 DEF ShowRunStep, ShowStart
  <2>3. r.out = ((<<>> \o h) \o b) \o p
    BY <2>2
  <2>4. <<>> \o h = h
    BY <1>3
  <2>5. PICK hb, out, ae : hb = h \o b /\ out = hb \o p /\ ae = a \o e
    OBVIOUS
  <2>6. hb \in Seq(X) /\ out \in Seq(X) /\ ae \in Seq(X)
    BY <1>3, <2>5
  <2>7. shown = out
    <3>1. r.out = out
      BY <2>3, <2>4, <2>5
    <3> QED BY <1>6, <2>6, <3>1
  <2>8. section = out \o ae
    <3>1. Associates(h, b, p, a)
      BY <1>3, ConcatAssociates
    <3>2. h \o lines = out \o a
      BY <1>7, <2>5, <3>1, Zenon DEF Associates
    <3>3. Associate(out, a, e)
      BY <1>3, <2>6, ThreeAssociate
    <3> QED BY <2>1, <2>5, <3>2, <3>3, Zenon DEF Associate
  <2>9. IsPrefix(out, out \o ae)
    BY <2>6, PrefixIs
  <2>10. Last(hb \o p) \in {ReceiveOn, SendOn}
    BY <1>3, <1>12, <2>6, LastOfConcat
  <2>11. IsPrefix(shown, Section(whole, i)) /\ Last(shown) \in {ReceiveOn, SendOn}
    BY <1>4, <2>5, <2>7, <2>8, <2>9, <2>10
  <2> QED BY <1>2, <1>12, <2>11 DEF FilteredRow
<1> QED BY <1>10, <1>11, <1>12

-----------------------------------------------------------------------------
(* What is shown of one LAG.                                               *)
LEMMA LagIsShown ==
    ASSUME ColumnsInv, NEW l \in Lag,
           NEW whole, whole = cli_show_run_interface_exec(All),
           NEW shown, shown = cli_show_run_interface_exec(l)
    PROVE  Range(Section(whole, l)) \subseteq Range(Section(shown, l))
<1>1. PICK yes, no : yes = TRUE /\ no = FALSE
  OBVIOUS
<1> DEFINE X == Commands(yes)
<1>2. CASE l \notin ports
  <2>1. Section(whole, l) = <<>>
    BY <1>2, SectionsOfWhole
  <2>2. Range(<<>>) = {}
    BY DEF Range
  <2> QED BY <2>1, <2>2
<1>3. CASE l \in ports
  <2>1. PICK b : b = LagLines(l, l)
    OBVIOUS
  <2>2. Section(whole, l) = b
    BY <1>3, <2>1, SectionsOfWhole, LagLinesAre
  <2>3. b \in Seq(X) /\ IsSection(b, l)
    BY <1>1, <2>1, LagLinesAre
  <2>4. PICK w : w = parse_lag(l)
    OBVIOUS
  <2>5. w \in Seq(X) /\ Around(X, l, no, w, b)
    <3>1. l \notin Interface /\ l \in ports \cap Lag
      BY <1>3, CliAssumption
    <3> QED BY <1>1, <2>1, <2>4, <3>1, LagsSplit
  <2> HIDE DEF X
  <2>6. shown = w
    <3>1. shown = ShowStart.out \o w
      BY <2>4, ShowRunIs, NoRowLoop
    <3>2. ShowStart.out = <<>>
      BY DEF ShowStart
    <3>3. <<>> \o w = w
      BY <2>5
    <3> QED BY <3>1, <3>2, <3>3
  <2>7. PICK a \in Parts(X, l, no), c \in Parts(X, l, no) : w = (a \o b) \o c
    BY <2>5 DEF Around
  <2>8. /\ a \in Seq(X) /\ c \in Seq(X) /\ Without(l, a) /\ Without(l, c)
    BY DEF Parts
  <2>9. Range(b) \subseteq Range(Section(w, l))
    BY <2>3, <2>7, <2>8, SectionHas
  <2> QED BY <2>2, <2>6, <2>9
<1> QED BY <1>2, <1>3

LEMMA ShownIsSection ==
    ColumnsInv => FilteredIsSection
<1> SUFFICES ASSUME ColumnsInv PROVE FilteredIsSection
  OBVIOUS
<1>1. PICK whole : whole = cli_show_run_interface_exec(All)
  OBVIOUS
<1>2. \A i \in Interface : FilteredRow(i, whole, cli_show_run_interface_exec(i))
  BY <1>1, RowIsSection
<1>3. \A l \in Lag : Range(Section(whole, l)) \subseteq Range(Section(cli_show_run_interface_exec(l), l))
  BY <1>1, LagIsShown
<1> QED BY <1>1, <1>2, <1>3, Zenon DEF FilteredIsSection, FilteredRow

-----------------------------------------------------------------------------
(* The commands in an output.                                              *)
LEMMA RangeIs ==
    ASSUME NEW X, NEW s \in Seq(X), NEW x
    PROVE  x \in Range(s) <=> \E k \in 1..Len(s) : x = s[k]
BY DEF Range

LEMMA RangeOfNone ==
    Range(<<>>) = {}
BY DEF Range

LEMMA RangeOfWhen ==
    ASSUME NEW b, NEW c, NEW x
    PROVE  x \in Range(When(b, <<c>>)) <=> b /\ x = c
<1>1. Range(<<c>>) = {c}
  BY DEF Range
<1> QED BY <1>1, RangeOfNone DEF When

LEMMA RangeOfConcat ==
    ASSUME NEW X, NEW s \in Seq(X), NEW t \in Seq(X), NEW x
    PROVE  x \in Range(s \o t) <=> x \in Range(s) \/ x \in Range(t)
<1>1. PICK w, m, n : w = s \o t /\ m = Len(s) /\ n = Len(t)
  OBVIOUS
<1>2. /\ m \in Nat /\ n \in Nat /\ w \in Seq(X) /\ Len(w) = m + n
      /\ \A k \in 1..m : w[k] = s[k]
      /\ \A k \in 1..n : w[m + k] = t[k]
  BY <1>1, ConcatIs
<1>3. ASSUME NEW k \in 1..(m + n), x = w[k] PROVE x \in Range(s) \/ x \in Range(t)
  <2>1. CASE k <= m
    <3>1. k \in 1..m
      BY <1>2, <2>1
    <3> QED BY <1>1, <1>2, <1>3, <3>1, RangeIs
  <2>2. CASE ~(k <= m)
    <3>1. PICK j \in 1..n : k = m + j
      <4>1. k - m \in 1..n /\ k = m + (k - m)
        BY <1>2, <2>2
      <4> QED BY <4>1
    <3>2. x = t[j]
      BY <1>2, <1>3, <3>1
    <3> QED BY <1>1, <3>2, RangeIs
  <2> QED BY <2>1, <2>2
<1>4. ASSUME NEW k \in 1..m, x = s[k] PROVE x \in Range(w)
  <2>1. k \in 1..Len(w)
    BY <1>2
  <2> QED BY <1>2, <1>4, <2>1, RangeIs
<1>5. ASSUME NEW k \in 1..n, x = t[k] PROVE x \in Range(w)
  <2>1. m + k \in 1..Len(w)
    BY <1>2
  <2>2. x = w[m + k]
    BY <1>2, <1>5
  <2> QED BY <1>2, <2>1, <2>2, RangeIs
<1>6. x \in Range(w) => x \in Range(s) \/ x \in Range(t)
  <2>1. x \in Range(w) => \E k \in 1..(m + n) : x = w[k]
    BY <1>2, RangeIs
  <2> QED BY <1>3, <2>1
<1>7. x \in Range(s) => x \in Range(w)
  BY <1>1, <1>4, RangeIs
<1>8. x \in Range(t) => x \in Range(w)
  BY <1>1, <1>5, RangeIs
<1> QED BY <1>1, <1>6, <1>7, <1>8

LEMMA RangeOfFlatten ==
    ASSUME NEW X, NEW seqs \in Seq(Seq(X)), NEW x
    PROVE  x \in Range(FlattenSeq(seqs)) <=> \E k \in 1..Len(seqs) : x \in Range(seqs[k])
<1>1. PICK f \in [0..Len(seqs) -> Seq(X)] :
         EnterLoop!Joins(f, seqs) /\ EnterLoop!FlattenSeq(seqs) = f[Len(seqs)]
  BY EnterLoop!FlattenJoins
<1>2. EnterLoop!FlattenSeq(seqs) = FlattenSeq(seqs)
  BY DEF FlattenSeq, EnterLoop!FlattenSeq
<1>3. PICK n \in Nat : n = Len(seqs)
  <2>1. Len(seqs) \in Nat
    OBVIOUS
  <2> QED BY <2>1
<1>4. f[0] = <<>> /\ \A k \in 1..n : f[k] = f[k - 1] \o seqs[k]
  BY <1>1, <1>3 DEF EnterLoop!Joins
<1>5. \A k \in 1..n : seqs[k] \in Seq(X)
  BY <1>3
<1> DEFINE S == {m \in 0..n : x \in Range(f[m]) <=> \E k \in 1..m : x \in Range(seqs[k])}
<1>6. 0 \in S
  <2>1. x \notin Range(f[0])
    BY <1>4, RangeOfNone
  <2> QED BY <2>1
<1>7. ASSUME NEW m \in 1..n, m - 1 \in S PROVE m \in S
  <2>1. m - 1 \in 0..n /\ m \in 0..n
    OBVIOUS
  <2>2. f[m - 1] \in Seq(X) /\ seqs[m] \in Seq(X) /\ f[m] = f[m - 1] \o seqs[m]
    BY <1>1, <1>3, <1>4, <1>5, <2>1
  <2>3. x \in Range(f[m]) <=> x \in Range(f[m - 1]) \/ x \in Range(seqs[m])
    <3>1. PICK a, b : a = f[m - 1] /\ b = seqs[m]
      OBVIOUS
    <3>2. x \in Range(a \o b) <=> x \in Range(a) \/ x \in Range(b)
      BY <2>2, <3>1, RangeOfConcat
    <3> QED BY <2>2, <3>1, <3>2
  <2>4. x \in Range(f[m - 1]) <=> \E k \in 1..(m - 1) : x \in Range(seqs[k])
    BY <1>7
  <2>5. \A k \in 1..m : k \in 1..(m - 1) \/ k = m
    OBVIOUS
  <2>6. m \in 1..m /\ \A k \in 1..(m - 1) : k \in 1..m
    OBVIOUS
  <2>7. (\E k \in 1..m : x \in Range(seqs[k]))
           <=> (\E k \in 1..(m - 1) : x \in Range(seqs[k])) \/ x \in Range(seqs[m])
    BY <2>5, <2>6, Zenon
  <2> QED BY <2>1, <2>3, <2>4, <2>7
<1> HIDE DEF S
<1>8. \A m \in 0..n : m \in S
  BY <1>3, <1>6, <1>7, EnterLoop!InductionUpTo
<1>9. n \in 0..n
  OBVIOUS
<1>10. n \in S
  BY <1>8, <1>9
<1>11. x \in Range(f[n]) <=> \E k \in 1..n : x \in Range(seqs[k])
  BY <1>10 DEF S
<1> QED BY <1>1, <1>2, <1>3, <1>11

-----------------------------------------------------------------------------
(* The lines that the views also tell: quality of service, ...             *)
QosLine(p, x) ==
    /\ p \in ports /\ get_owning_lag(p) = {}
    /\ \E k \in QosKeys : qos[p][k] # "absent" /\ x = Cmd(k, qos[p][k], FALSE)

LEMMA QosLinesSay ==
    ASSUME NEW p \in PortName, NEW x
    PROVE  x \in Range(qos_port_show_running_config(p)) <=> QosLine(p, x)
<1>1. CASE p \notin ports \/ is_member_of_lag(p)
  <2>1. qos_port_show_running_config(p) = <<>>
    BY <1>1 DEF qos_port_show_running_config
  <2>2. ~QosLine(p, x)
    BY <1>1 DEF QosLine, is_member_of_lag
  <2> QED BY <2>1, <2>2, RangeOfNone
<1>2. CASE ~(p \notin ports \/ is_member_of_lag(p))
  <2> DEFINE X == QosCommands
             keys == <<"trust", "schedule", "cos", "dscp">>
             line(k) == Cmd(keys[k], qos[p][keys[k]], FALSE)
             set(k) == qos[p][keys[k]] # "absent"
             seqs == [k \in 1..4 |-> When(set(k), <<line(k)>>)]
  <2>1. qos_port_show_running_config(p) = FlattenSeq(seqs)
    BY <1>2 DEF qos_port_show_running_config
  <2>2. ASSUME NEW k \in 1..4 PROVE line(k) \in X
    <3>1. PICK key \in QosKeys : key = keys[k]
      BY DEF QosKeys
    <3>2. PICK v : v = qos[p][key] /\ v \in QosValues
      BY DEF QosValues
    <3>3. Cmd(key, v, FALSE) \in {Cmd(key, w, FALSE) : w \in QosValues}
      BY <3>2
    <3>4. Cmd(key, v, FALSE) \in QosCommands
      BY <3>3 DEF QosCommands
    <3>5. Cmd(keys[k], qos[p][keys[k]], FALSE) \in QosCommands
      BY <3>1, <3>2, <3>4
    <3> QED BY <3>5
  <2>3. seqs \in Seq(Seq(X)) /\ Len(seqs) = 4
    <3> HIDE DEF X, line, set
    <3>1. \A k \in 1..4 : When(set(k), <<line(k)>>) \in Seq(X)
      BY <2>2, SingleStays, WhenStays
    <3>2. seqs \in [1..4 -> Seq(X)]
      BY <3>1
    <3> QED BY <3>2
  <2>4. \A k \in 1..4 : x \in Range(seqs[k]) <=> set(k) /\ x = line(k)
    <3> HIDE DEF line, set
    <3> QED BY RangeOfWhen
  <2>5. x \in Range(FlattenSeq(seqs)) <=> \E k \in 1..4 : x \in Range(seqs[k])
    <3> HIDE DEF X, seqs
    <3> QED BY <2>3, RangeOfFlatten
  <2> HIDE DEF seqs
  <2>6. x \in Range(FlattenSeq(seqs)) <=> \E k \in 1..4 : set(k) /\ x = line(k)
    BY <2>4, <2>5
  <2>7. (\E k \in 1..4 : set(k) /\ x = line(k))
          <=> \E key \in QosKeys : qos[p][key] # "absent" /\ x = Cmd(key, qos[p][key], FALSE)
    <3>1. \A k \in 1..4 : keys[k] \in QosKeys
      BY DEF QosKeys
    <3>2. \A key \in QosKeys : \E k \in 1..4 : keys[k] = key
      <4>1. keys[1] = "trust" /\ keys[2] = "schedule" /\ keys[3] = "cos" /\ keys[4] = "dscp"
        OBVIOUS
      <4>2. 1 \in 1..4 /\ 2 \in 1..4 /\ 3 \in 1..4 /\ 4 \in 1..4
        OBVIOUS
      <4> HIDE DEF keys
      <4> QED BY <4>1, <4>2 DEF QosKeys
    <3> HIDE DEF keys
    <3> QED BY <3>1, <3>2
  <2> QED BY <1>2, <2>1, <2>6, <2>7 DEF QosLine, is_member_of_lag
<1> QED BY <1>1, <1>2

(* ... the address, ...                                                    *)
AddressLine(p, x) == p \in ports /\ l3[p] = "address" /\ x = Cmd("ip address", p, FALSE)

LEMMA L3LinesSay ==
    ASSUME NEW i \in Interface, NEW x, x.name # "routing"
    PROVE  x \in Range(parse_l3config(i)) <=> AddressLine(i, x)
<1>1. PICK a, b : a = Cmd("routing", "", TRUE) /\ b = Cmd("ip address", i, FALSE)
  OBVIOUS
<1>2. PICK s, t : /\ s = When(i \in ports /\ l3[i] = "bridged", <<a>>)
                  /\ t = When(i \in ports /\ l3[i] = "address", <<b>>)
  OBVIOUS
<1>3. PICK X : X = {a, b}
  OBVIOUS
<1>4. s \in Seq(X) /\ t \in Seq(X)
  <2>1. a \in X /\ b \in X
    BY <1>3
  <2>2. <<a>> \in Seq(X) /\ <<b>> \in Seq(X)
    BY <2>1, SingleStays
  <2> QED BY <1>2, <2>2, WhenStays
<1>5. x \in Range(s \o t) <=> x \in Range(s) \/ x \in Range(t)
  BY <1>4, RangeOfConcat
<1>6. x # a
  <2>1. a.name = "routing"
    BY <1>1 DEF Cmd
  <2> QED BY <2>1
<1>7. x \notin Range(s)
  BY <1>2, <1>6, RangeOfWhen
<1>8. x \in Range(t) <=> (i \in ports /\ l3[i] = "address") /\ x = b
  BY <1>2, RangeOfWhen
<1> QED BY <1>1, <1>2, <1>5, <1>7, <1>8 DEF parse_l3config, AddressLine

(* ... and the LAG.                                                        *)
LagLine(i, x) == \E l \in Lag : l \in PortOf(i) /\ x = Cmd("lag", l, FALSE)

LEMMA LagLineSays ==
    ASSUME NEW i \in Interface, NEW x
    PROVE  x \in Range(print_interface_lag(i)) <=> LagLine(i, x)
<1> DEFINE S == {l \in ports \cap Lag : l \in PortOf(i)}
<1>1. PICK lags : lags = SetToSeq(S)
  OBVIOUS
<1>2. lags \in Seq(S) /\ \A l \in S : In(l, lags)
  <2>1. IsFiniteSet(S)
    BY FS_Subset, CliAssumption
  <2> HIDE DEF S
  <2> QED BY <1>1, <2>1, SetListed
<1>3. PICK g : g = [k \in DOMAIN lags |-> Cmd("lag", lags[k], FALSE)] /\ g = print_interface_lag(i)
  BY <1>1 DEF print_interface_lag
<1>4. \A l : l \in S <=> l \in Lag /\ l \in PortOf(i)
  BY DEF PortOf
<1> HIDE DEF S
<1>5. DOMAIN lags = 1..Len(lags) /\ \A k \in 1..Len(lags) : lags[k] \in S
  BY <1>2
<1>6. \A l \in S : \E k \in DOMAIN lags : lags[k] = l
  BY <1>2, <1>5 DEF In
<1>7. x \in Range(g) <=> \E k \in DOMAIN lags : x = Cmd("lag", lags[k], FALSE)
  BY <1>3 DEF Range
<1>8. x \in Range(g) <=> \E l \in S : x = Cmd("lag", l, FALSE)
  BY <1>5, <1>6, <1>7
<1> QED BY <1>3, <1>4, <1>8 DEF LagLine

-----------------------------------------------------------------------------
(* What the sections say of these.                                         *)
Told == QosKeys \cup {"ip address", "lag"}

LEMMA OthersNotTold ==
    /\ \A x \in RowCommands : x.name \notin Told
    /\ \A p : Cmd("interface", p, FALSE).name \notin Told
    /\ \A p : Cmd("interface lag", p, FALSE).name \notin Told
    /\ Cmd("exit", "", FALSE).name \notin Told
    /\ Cmd("routing", "", TRUE).name \notin Told
    /\ Cmd("shutdown", "", TRUE).name \notin Told
    /\ "routing" \notin Told
<1>1. \A x \in RowCommands : x.name \notin Told
  BY CommandsAre DEF Told, QosKeys
<1> QED BY <1>1 DEF Told, QosKeys, Cmd

LEMMA NotTold ==
    ASSUME NEW X, NEW s \in Seq(X), \A c \in X : c.name \notin Told, NEW x, x.name \in Told
    PROVE  x \notin Range(s)
<1>1. \A k \in 1..Len(s) : s[k] \in X
  OBVIOUS
<1> QED BY <1>1, RangeIs

LinesAround(pre, post, i) ==
    /\ BeforePause(i) = pre \o qos_port_show_running_config(i)
    /\ AfterPause(i) = (post \o parse_l3config(i)) \o print_interface_lag(i)

LEMMA LinesAreAround ==
    ASSUME NEW i \in Interface, NEW u, u = uc[i], u \in Rows, RowOK(i, u)
    PROVE  \E pre \in Seq(RowCommands), post \in Seq(RowCommands) : LinesAround(pre, post, i)
<1>1. PICK b, c, d : b = Printed(u) /\ c = SetSpeed(u.speeds[1]) /\ d = SetMtu(u.mtu)
  OBVIOUS
<1> DEFINE X == RowCommands
<1>2. /\ b[3] => c \in X
      /\ b[4] => d \in X
      /\ Up \in X /\ Split \in X /\ Half \in X /\ Off \in X
  BY <1>1, PrintedAre, PrintedIs
<1> HIDE DEF X
<1>3. PICK w1, w3, w4, w5 : /\ w1 = When(b[1], <<Up>>) /\ w3 = When(b[3], <<c>>)
                            /\ w4 = When(b[4], <<d>>) /\ w5 = When(b[5], <<Half>>)
  OBVIOUS
<1>4. PICK w8, w2 : w8 = When(b[8], <<Off>>) /\ w2 = When(b[2], <<Split>>)
  OBVIOUS
<1>5. w1 \in Seq(X)
  BY <1>2, <1>3, WhenStays, SingleStays
<1>6. w3 \in Seq(X)
  BY <1>2, <1>3, SingleStays DEF When
<1>7. w4 \in Seq(X)
  BY <1>2, <1>3, SingleStays DEF When
<1>8. w5 \in Seq(X)
  BY <1>2, <1>3, WhenStays, SingleStays
<1>9. w8 \in Seq(X)
  BY <1>2, <1>4, WhenStays, SingleStays
<1>10. w2 \in Seq(X)
  BY <1>2, <1>4, WhenStays, SingleStays
<1>11. PICK pre, post : pre = ((w1 \o w3) \o w4) \o w5 /\ post = w8 \o w2
  OBVIOUS
<1>12. pre \in Seq(X) /\ post \in Seq(X)
  BY <1>5, <1>6, <1>7, <1>8, <1>9, <1>10, <1>11
<1>13. LinesAround(pre, post, i)
  <2>1. OfParts(i, b, c, d)
    BY <1>1, LinesOfParts
  <2>2. BeforePause(i) = w1 \o w3 \o w4 \o w5 \o qos_port_show_running_config(i)
    BY <1>3, <2>1, Zenon DEF OfParts
  <2>3. AfterPause(i) = w8 \o w2 \o parse_l3config(i) \o print_interface_lag(i)
    BY <1>4, <2>1, Zenon DEF OfParts
  <2> QED BY <1>11, <2>2, <2>3, Zenon DEF LinesAround
<1> QED BY <1>12, <1>13 DEF X

LEMMA RowSays ==
    ASSUME ColumnsInv, NEW i \in Interface, NEW x, x.name \in Told
    PROVE  x \in Range(ShowSection(i)) <=> QosLine(i, x) \/ AddressLine(i, x) \/ LagLine(i, x)
<1> DEFINE R == RowCommands
           O == OtherCommands
           X == R \cup O
<1>1. PICK q, a, g, p : /\ q = qos_port_show_running_config(i) /\ a = parse_l3config(i)
                        /\ g = print_interface_lag(i) /\ p = PauseLines(i)
  OBVIOUS
<1>2. PICK pre \in Seq(R), post \in Seq(R) : LinesAround(pre, post, i)
  BY RowsOf, LinesAreAround
<1>3. q \in Seq(O) /\ a \in Seq(O) /\ g \in Seq(O)
  BY <1>1, QosLinesAre, L3LinesAre, LagLineIs DEF PortName
<1>4. p \in Seq(R)
  <2>1. ReceiveOn \in R /\ SendOn \in R
    BY DEF RowCommands
  <2> HIDE DEF R
  <2>2. PICK s, t : s = When(uc[i].pause \in {"rx", "rxtx"}, <<ReceiveOn>>)
                    /\ t = When(uc[i].pause \in {"tx", "rxtx"}, <<SendOn>>)
    OBVIOUS
  <2>3. s \in Seq(R) /\ t \in Seq(R)
    BY <2>1, <2>2, WhenStays, SingleStays
  <2>4. s \o t \in Seq(R)
    BY <2>3
  <2> QED BY <1>1, <2>2, <2>4 DEF PauseLines
<1>5. /\ x \in Range(q) <=> QosLine(i, x)
      /\ x \in Range(a) <=> AddressLine(i, x)
      /\ x \in Range(g) <=> LagLine(i, x)
  <2>1. x \in Range(q) <=> QosLine(i, x)
    BY <1>1, QosLinesSay DEF PortName
  <2>2. x \in Range(a) <=> AddressLine(i, x)
    BY <1>1, L3LinesSay, OthersNotTold
  <2>3. x \in Range(g) <=> LagLine(i, x)
    BY <1>1, LagLineSays
  <2> QED BY <2>1, <2>2, <2>3
<1>6. x \notin Range(pre) /\ x \notin Range(post) /\ x \notin Range(p)
  <2>1. \A c \in R : c.name \notin Told
    BY OthersNotTold
  <2> HIDE DEF R
  <2> QED BY <1>4, <2>1, NotTold
<1> HIDE DEF R, O
<1>7. /\ pre \in Seq(X) /\ post \in Seq(X) /\ p \in Seq(X)
      /\ q \in Seq(X) /\ a \in Seq(X) /\ g \in Seq(X)
  BY <1>3, <1>4
<1> HIDE DEF X
<1>8. PICK before, pa, after, bp, lines :
         /\ before = pre \o q /\ pa = post \o a /\ after = pa \o g
         /\ bp = before \o p /\ lines = bp \o after
  OBVIOUS
<1>9. before \in Seq(X) /\ pa \in Seq(X)
  BY <1>7, <1>8
<1>10. after \in Seq(X) /\ bp \in Seq(X)
  BY <1>7, <1>8, <1>9
<1>11. lines \in Seq(X)
  BY <1>8, <1>10
<1>12. x \in Range(before) <=> x \in Range(q)
  <2>1. x \in Range(pre \o q) <=> x \in Range(pre) \/ x \in Range(q)
    BY <1>7, RangeOfConcat
  <2> QED BY <1>6, <1>8, <2>1
<1>13. x \in Range(pa) <=> x \in Range(a)
  <2>1. x \in Range(post \o a) <=> x \in Range(post) \/ x \in Range(a)
    BY <1>7, RangeOfConcat
  <2> QED BY <1>6, <1>8, <2>1
<1>14. x \in Range(after) <=> x \in Range(a) \/ x \in Range(g)
  <2>1. x \in Range(pa \o g) <=> x \in Range(pa) \/ x \in Range(g)
    BY <1>7, <1>9, RangeOfConcat
  <2> QED BY <1>8, <1>13, <2>1
<1>15. x \in Range(bp) <=> x \in Range(q)
  <2>1. x \in Range(before \o p) <=> x \in Range(before) \/ x \in Range(p)
    BY <1>7, <1>9, RangeOfConcat
  <2> QED BY <1>6, <1>8, <1>12, <2>1
<1>16. x \in Range(lines) <=> x \in Range(q) \/ x \in Range(a) \/ x \in Range(g)
  <2>1. x \in Range(bp \o after) <=> x \in Range(bp) \/ x \in Range(after)
    BY <1>10, RangeOfConcat
  <2> QED BY <1>8, <1>14, <1>15, <2>1
<1>17. SectionLines(i) = lines
  BY <1>1, <1>2, <1>8, Zenon DEF SectionLines, LinesAround
<1>18. x \in Range(ShowSection(i)) <=> x \in Range(lines)
  <2>1. CASE lines = <<>> /\ i \notin ports
    BY <1>17, <2>1 DEF ShowSection
  <2>2. CASE ~(lines = <<>> /\ i \notin ports)
    <3>1. PICK h, e : h = Cmd("interface", i, FALSE) /\ e = Cmd("exit", "", FALSE)
      OBVIOUS
    <3>2. ShowSection(i) = (<<h>> \o lines) \o <<e>>
      BY <1>17, <2>2, <3>1, Zenon DEF ShowSection, Header, Exit
    <3>3. x # h /\ x # e
      BY <3>1, OthersNotTold
    <3>4. x \notin Range(<<h>>) /\ x \notin Range(<<e>>)
      BY <3>3 DEF Range
    <3>5. PICK Z : Z = X \cup {h, e}
      OBVIOUS
    <3>6. <<h>> \in Seq(Z) /\ lines \in Seq(Z) /\ <<e>> \in Seq(Z)
      BY <1>11, <3>5
    <3>7. PICK hl : hl = <<h>> \o lines
      OBVIOUS
    <3>8. hl \in Seq(Z)
      BY <3>6, <3>7
    <3>9. PICK sh, se : sh = <<h>> /\ se = <<e>>
      OBVIOUS
    <3>10. x \in Range(hl) <=> x \in Range(lines)
      BY <3>4, <3>6, <3>7, <3>9, RangeOfConcat
    <3>11. x \in Range(hl \o se) <=> x \in Range(hl)
      BY <3>4, <3>6, <3>8, <3>9, RangeOfConcat
    <3> QED BY <3>2, <3>7, <3>9, <3>10, <3>11
  <2> QED BY <2>1, <2>2
<1> QED BY <1>5, <1>16, <1>18

LEMMA LagSays ==
    ASSUME NEW l \in Lag, l \in ports, NEW x, x.name \in Told
    PROVE  x \in Range(LagLines(l, All)) <=> QosLine(l, x) \/ AddressLine(l, x)
<1> DEFINE O == OtherCommands
           X == Quiet
<1>1. PICK h, u, b, a, q : /\ h = Cmd("interface lag", l, FALSE) /\ u = Cmd("shutdown", "", TRUE)
                           /\ b = Cmd("routing", "", TRUE) /\ a = Cmd("ip address", l, FALSE)
                           /\ q = qos_port_show_running_config(l)
  OBVIOUS
<1>2. h \in X /\ u \in X /\ b \in X /\ a \in X
  BY <1>1 DEF Quiet, Ends, RowCommands, OtherCommands, PortName
<1>3. q \in Seq(O) /\ O \subseteq X
  BY <1>1, QosLinesAre DEF PortName, Quiet
<1>4. x # h /\ x # u /\ x # b
  BY <1>1, OthersNotTold
<1>5. x \in Range(q) <=> QosLine(l, x)
  BY <1>1, QosLinesSay DEF PortName
<1> HIDE DEF X, O
<1>6. q \in Seq(X)
  BY <1>3
<1>7. PICK s, t, w, k : /\ s = When(padmin[l] = "up", <<u>>) /\ t = When(l3[l] = "bridged", <<b>>)
                        /\ w = When(l3[l] = "address", <<a>>) /\ k = <<h>>
  OBVIOUS
<1>8. k \in Seq(X) /\ s \in Seq(X)
  BY <1>2, <1>7, WhenStays, SingleStays
<1>9. t \in Seq(X)
  BY <1>2, <1>7, WhenStays, SingleStays
<1>10. w \in Seq(X)
  BY <1>2, <1>7, WhenStays, SingleStays
<1>11. x \notin Range(k) /\ x \notin Range(s) /\ x \notin Range(t)
  <2>1. x \notin Range(k)
    BY <1>4, <1>7 DEF Range
  <2>2. x \notin Range(s)
    BY <1>4, <1>7, RangeOfWhen
  <2>3. x \notin Range(t)
    BY <1>4, <1>7, RangeOfWhen
  <2> QED BY <2>1, <2>2, <2>3
<1>12. x \in Range(w) <=> AddressLine(l, x)
  <2>1. x \in Range(w) <=> (l3[l] = "address") /\ x = a
    <3>1. PICK c : c = (l3[l] = "address")
      OBVIOUS
    <3>2. x \in Range(When(c, <<a>>)) <=> c /\ x = a
      BY RangeOfWhen
    <3>3. w = When(c, <<a>>)
      BY <1>7, <3>1
    <3> QED BY <3>1, <3>2, <3>3
  <2> QED BY <1>1, <2>1 DEF AddressLine
<1>13. PICK ks, kst, own, lines : /\ ks = k \o s /\ kst = ks \o t /\ own = kst \o q
                                  /\ lines = own \o w
  OBVIOUS
<1>14. ks \in Seq(X)
  BY <1>8, <1>13
<1>15. kst \in Seq(X)
  BY <1>9, <1>13, <1>14
<1>16. own \in Seq(X)
  BY <1>6, <1>13, <1>15
<1>17. x \notin Range(ks)
  BY <1>8, <1>11, <1>13, RangeOfConcat
<1>18. x \notin Range(kst)
  <2>1. x \in Range(ks \o t) <=> x \in Range(ks) \/ x \in Range(t)
    BY <1>9, <1>14, RangeOfConcat
  <2> QED BY <1>11, <1>13, <1>17, <2>1
<1>19. x \in Range(own) <=> x \in Range(q)
  BY <1>6, <1>13, <1>15, <1>18, RangeOfConcat
<1>20. x \in Range(lines) <=> x \in Range(q) \/ x \in Range(w)
  BY <1>10, <1>13, <1>16, <1>19, RangeOfConcat
<1>21. LagLines(l, All) = lines
  <2>1. LagLines(l, All)
          = When(All \in {All, l} \/ <<All, l>> \in PrefixOf, ((k \o s) \o t) \o q) \o w
    BY <1>1, <1>7, Zenon DEF LagLines
  <2>2. PICK c : c = (All \in {All, l} \/ <<All, l>> \in PrefixOf)
    OBVIOUS
  <2>3. c = TRUE
    BY <2>2
  <2>4. LagLines(l, All) = When(c, own) \o w
    BY <1>13, <2>1, <2>2
  <2> QED BY <1>13, <2>3, <2>4 DEF When
<1> QED BY <1>5, <1>12, <1>20, <1>21

-----------------------------------------------------------------------------
(* No interface is in two LAGs: "lag" takes it out of the others, and what *)
(* the other commands do takes members out only.                           *)
OneLag ==
    \A l, m \in Lag : \A i : In(i, members[l]) /\ In(i, members[m]) => l = m

LEMMA InitOneLag ==
    Init => OneLag
<1> SUFFICES ASSUME Init, NEW l \in Lag, NEW i PROVE ~In(i, members[l])
  BY DEF OneLag
<1>1. members[l] = <<>>
  BY DEF Init, PortName
<1> QED BY <1>1, EmptyList

LEMMA FewerMembers ==
    ASSUME OneLag, \A l \in Lag : \A i : In(i, members'[l]) => In(i, members[l])
    PROVE  OneLag'
BY DEF OneLag, In

LEMMA OneLagStep ==
    ColumnsInv /\ OneLag /\ [Next]_vars => OneLag'
<1> SUFFICES ASSUME ColumnsInv, OneLag, [Next]_vars PROVE OneLag'
  OBVIOUS
<1>1. ASSUME NEW j \in Interface, vtysh_interface(j) PROVE OneLag'
  <2>1. \A l \in Lag : members'[l] = members[l]
    <3>1. \A l \in Lag : l # j
      BY CliAssumption
    <3>2. members' = [members EXCEPT ![j] = <<j>>] \/ members' = members
      BY <1>1 DEF vtysh_interface, default_port_add
    <3>3. \A l \in Lag : l \in DOMAIN members
      BY DEF ColumnsInv, PortsOK, PortName
    <3> QED BY <3>1, <3>2, <3>3
  <2> QED BY <2>1, FewerMembers
<1>2. CASE AnswerYes
  <2>1. PICK gone : gone = IF prompt.no THEN Children(sel) ELSE {sel}
    OBVIOUS
  <2>2. /\ \A p \in PortName : members'[p] = MembersLeftAfter(p, gone)
        /\ IsFiniteSet(gone)
    BY <1>2, <2>1, AnswerColumns
  <2>3. ASSUME NEW l \in Lag, NEW i, In(i, members'[l]) PROVE In(i, members[l])
    <3>1. l \in PortName /\ IsList(members[l], MembersOf(l))
      BY DEF ColumnsInv, PortsOK, PortName
    <3>2. In(i, MembersLeftAfter(l, gone))
      BY <2>2, <2>3, <3>1
    <3> QED BY <2>2, <3>1, <3>2, MembersLeftAfterIs
  <2> QED BY <2>3, FewerMembers
<1>3. ASSUME NEW k \in Lag, JoinLag(k) PROVE OneLag'
  <2>1. ASSUME NEW l \in Lag, NEW i
        PROVE  In(i, members'[l]) <=> IF l = k THEN In(i, members[l]) \/ i = sel
                                      ELSE In(i, members[l]) /\ i \in Interface \ {sel}
    <3>1. l \in PortName
      BY DEF PortName
    <3> QED BY <1>3, <3>1, JoinIs
  <2>2. ASSUME NEW l \in Lag, NEW m \in Lag, NEW i, In(i, members'[l]), In(i, members'[m])
        PROVE  l = m
    <3>1. CASE i = sel
      BY <2>1, <2>2, <3>1
    <3>2. CASE i # sel
      <4>1. In(i, members[l]) /\ In(i, members[m])
        BY <2>1, <2>2, <3>2
      <4> QED BY <4>1 DEF OneLag
    <3> QED BY <3>1, <3>2
  <2> QED BY <2>2 DEF OneLag, In
<1>4. CASE UNCHANGED members
  BY <1>4 DEF OneLag, In
<1>5. \/ \E j \in Interface : vtysh_interface(j)
      \/ AnswerYes \/ UNCHANGED members
      \/ \E k \in Lag : JoinLag(k)
  BY DEF Next, no_vtysh_interface, Configure, Apply, cli_intf_split, AnswerNo, OtherSession,
         IntfdCatchesUp, vars
<1> QED BY <1>1, <1>2, <1>3, <1>4, <1>5

LEMMA ShowOneLag ==
    ShowSpec => [](ColumnsInv /\ OneLag)
<1>1. ColumnsInv /\ [ShowNext]_showVars => ColumnsInv'
  BY ColumnsStep DEF ShowNext, Session, QosWrite, L3Write, showVars, vars
<1>2. ColumnsInv /\ OneLag /\ [ShowNext]_showVars => OneLag'
  BY OneLagStep DEF ShowNext, Session, QosWrite, L3Write, showVars, vars
<1> QED BY InitColumns, InitOneLag, <1>1, <1>2, PTL DEF ShowSpec, ShowInit

-----------------------------------------------------------------------------
(* The LAG of an interface.                                                *)
LEMMA OwningLags ==
    ASSUME ColumnsInv
    PROVE  /\ \A i \in Interface : get_owning_lag(i) = {l \in Lag : In(i, members[l])}
           /\ \A i \in Interface, l \in Lag : l \in PortOf(i) <=> l \in get_owning_lag(i)
           /\ \A l \in Lag : get_owning_lag(l) = {}
           /\ Lag \subseteq ports /\ ports \subseteq PortName
<1>1. \A i : PortOf(i) = {p \in ports : In(i, members[p])}
  BY PortOfIs
<1>2. /\ ports \subseteq PortName /\ Lag \subseteq ports
      /\ \A p \in PortName : IsList(members[p], MembersOf(p))
  BY DEF ColumnsInv, PortsOK
<1>3. \A p \in PortName : \A i : In(i, members[p]) => i \in MembersOf(p)
  BY <1>2 DEF IsList, In
<1>4. /\ \A l \in Lag : MembersOf(l) \subseteq Interface /\ l \notin Interface
      /\ \A i \in Interface : MembersOf(i) = {i} /\ i \notin Lag
  BY CliAssumption DEF MembersOf
<1>5. ASSUME NEW i \in Interface
      PROVE  PortOf(i) \ {i} = {l \in Lag : In(i, members[l])}
  <2>1. ASSUME NEW p \in ports, In(i, members[p]), p # i PROVE p \in Lag
    <3>1. p \in PortName /\ i \in MembersOf(p)
      BY <1>2, <1>3, <2>1
    <3> QED BY <1>4, <2>1, <3>1 DEF PortName
  <2>2. \A l \in Lag : l \in ports /\ l # i
    BY <1>2, <1>4
  <2> QED BY <1>1, <2>1, <2>2
<1>6. ASSUME NEW i \in Interface, NEW l \in Lag PROVE l \in PortOf(i) <=> l \in PortOf(i) \ {i}
  BY <1>4
<1>7. ASSUME NEW l \in Lag PROVE PortOf(l) = {}
  <2>1. ASSUME NEW p \in ports, In(l, members[p]) PROVE FALSE
    <3>1. p \in PortName /\ l \in MembersOf(p)
      BY <1>2, <1>3, <2>1
    <3>2. p \in Lag \/ p \in Interface
      BY <3>1 DEF PortName
    <3>3. l \in Interface
      BY <1>4, <3>1, <3>2
    <3> QED BY <1>4, <3>3
  <2> QED BY <1>1, <2>1
<1> QED BY <1>2, <1>5, <1>6, <1>7 DEF get_owning_lag

-----------------------------------------------------------------------------
(* What the running configuration tells of a port.                         *)
LEMMA SectionSays ==
    ASSUME ColumnsInv, NEW p \in PortName, NEW whole, whole = cli_show_run_interface_exec(All),
           NEW x, x.name \in Told
    PROVE  x \in Range(Section(whole, p)) <=>
              \/ QosLine(p, x)
              \/ AddressLine(p, x)
              \/ p \in Interface /\ LagLine(p, x)
<1>1. CASE p \in Interface
  <2>1. Section(whole, p) = ShowSection(p)
    BY <1>1, SectionsOfWhole
  <2> QED BY <1>1, <2>1, RowSays
<1>2. CASE p \in Lag
  <2>1. p \in ports /\ p \notin Interface
    BY <1>2, OwningLags, CliAssumption
  <2>2. Section(whole, p) = LagLines(p, All)
    BY <1>2, <2>1, SectionsOfWhole
  <2> QED BY <1>2, <2>1, <2>2, LagSays
<1> QED BY <1>1, <1>2 DEF PortName

LEMMA CmdIs ==
    ASSUME NEW n, NEW a, NEW x, x = Cmd(n, a, FALSE)
    PROVE  x.name = n /\ x.arg = a
BY DEF Cmd

LEMMA LinesTell ==
    ASSUME NEW p, NEW x
    PROVE  /\ QosLine(p, x) => x.name \in QosKeys
           /\ AddressLine(p, x) => x.name = "ip address"
           /\ LagLine(p, x) => x.name = "lag"
           /\ "lag" \notin QosKeys /\ "ip address" \notin QosKeys /\ QosKeys \subseteq Told
           /\ "lag" \in Told /\ "ip address" \in Told /\ "lag" # "ip address"
<1>1. ASSUME QosLine(p, x) PROVE x.name \in QosKeys
  <2>1. PICK k \in QosKeys : x = Cmd(k, qos[p][k], FALSE)
    BY <1>1 DEF QosLine
  <2>2. PICK v : v = qos[p][k]
    OBVIOUS
  <2>3. x = Cmd(k, v, FALSE)
    BY <2>1, <2>2
  <2>4. x.name = k
    BY <2>3, CmdIs
  <2> QED BY <2>4
<1>2. ASSUME AddressLine(p, x) PROVE x.name = "ip address"
  <2>1. x = Cmd("ip address", p, FALSE)
    BY <1>2 DEF AddressLine
  <2> QED BY <2>1, CmdIs
<1>3. ASSUME LagLine(p, x) PROVE x.name = "lag"
  <2>1. PICK l : x = Cmd("lag", l, FALSE)
    BY <1>3 DEF LagLine
  <2> QED BY <2>1, CmdIs
<1>4. /\ "lag" \notin QosKeys /\ "ip address" \notin QosKeys /\ QosKeys \subseteq Told
      /\ "lag" \in Told /\ "ip address" \in Told /\ "lag" # "ip address"
  BY DEF QosKeys, Told
<1> QED BY <1>1, <1>2, <1>3, <1>4

LEMMA QosSaid ==
    ASSUME ColumnsInv, NEW p \in PortName, NEW whole, whole = cli_show_run_interface_exec(All),
           NEW k \in QosKeys, NEW v
    PROVE  (\E x \in Range(Section(whole, p)) : x.name = k /\ x.arg = v)
             <=> p \in ports /\ get_owning_lag(p) = {} /\ qos[p][k] # "absent" /\ v = qos[p][k]
<1>2. ASSUME NEW x, x.name = k
      PROVE  x \in Range(Section(whole, p)) <=> QosLine(p, x)
  <2>1. ~AddressLine(p, x) /\ ~LagLine(p, x)
    BY <1>2, LinesTell
  <2>2. x.name \in Told
    BY <1>2, LinesTell
  <2> QED BY <2>1, <2>2, SectionSays
<1>3. ASSUME NEW x, x.name = k, QosLine(p, x)
      PROVE  p \in ports /\ get_owning_lag(p) = {} /\ qos[p][k] # "absent" /\ x.arg = qos[p][k]
  <2>1. PICK j \in QosKeys : qos[p][j] # "absent" /\ x = Cmd(j, qos[p][j], FALSE)
    BY <1>3 DEF QosLine
  <2>2. PICK w : w = qos[p][j]
    OBVIOUS
  <2>3. x = Cmd(j, w, FALSE)
    BY <2>1, <2>2
  <2>4. j = k /\ x.arg = w
    BY <1>3, <2>3, CmdIs
  <2> QED BY <1>3, <2>1, <2>2, <2>4 DEF QosLine
<1>4. ASSUME p \in ports, get_owning_lag(p) = {}, qos[p][k] # "absent"
      PROVE  \E x \in Range(Section(whole, p)) : x.name = k /\ x.arg = qos[p][k]
  <2>1. PICK w, x : w = qos[p][k] /\ x = Cmd(k, w, FALSE)
    OBVIOUS
  <2>2. x.name = k /\ x.arg = w
    <3>1. Cmd(k, w, FALSE).name = k /\ Cmd(k, w, FALSE).arg = w
      BY DEF Cmd
    <3> QED BY <2>1, <3>1
  <2>3. QosLine(p, x)
    BY <1>4, <2>1 DEF QosLine
  <2> QED BY <1>2, <2>1, <2>2, <2>3
<1> QED BY <1>2, <1>3, <1>4

LEMMA LagSaid ==
    ASSUME ColumnsInv, NEW i \in Interface, NEW whole, whole = cli_show_run_interface_exec(All),
           NEW l \in Lag
    PROVE  Cmd("lag", l, FALSE) \in Range(Section(whole, i)) <=> l \in get_owning_lag(i)
<1>1. PICK x : x = Cmd("lag", l, FALSE)
  OBVIOUS
<1>2. x.name = "lag" /\ x.arg = l
  BY <1>1, CmdIs
<1>3. ~AddressLine(i, x) /\ ~QosLine(i, x) /\ x.name \in Told
  BY <1>2, LinesTell
<1>4. ASSUME LagLine(i, x) PROVE l \in PortOf(i)
  <2>1. PICK m \in Lag : m \in PortOf(i) /\ x = Cmd("lag", m, FALSE)
    BY <1>4 DEF LagLine
  <2>2. x.arg = m
    BY <2>1, CmdIs
  <2> QED BY <1>2, <2>1, <2>2
<1>5. LagLine(i, x) <=> l \in PortOf(i)
  BY <1>1, <1>4 DEF LagLine
<1>6. i \in PortName
  BY DEF PortName
<1>7. x \in Range(Section(whole, i)) <=> LagLine(i, x)
  BY <1>3, <1>6, SectionSays
<1> QED BY <1>1, <1>5, <1>7, OwningLags

LEMMA AddressSaid ==
    ASSUME ColumnsInv, NEW p \in PortName, NEW whole, whole = cli_show_run_interface_exec(All)
    PROVE  Contains(Section(whole, p), Cmd("ip address", p, FALSE))
             <=> p \in ports /\ l3[p] = "address"
<1>1. PICK x : x = Cmd("ip address", p, FALSE)
  OBVIOUS
<1>2. x.name = "ip address"
  BY <1>1, CmdIs
<1>3. ~QosLine(p, x) /\ ~LagLine(p, x) /\ x.name \in Told
  BY <1>2, LinesTell
<1>5. x \in Range(Section(whole, p)) <=> AddressLine(p, x)
  BY <1>3, SectionSays
<1>6. PICK s : s = Section(whole, p)
  OBVIOUS
<1>7. Contains(s, x) <=> x \in Range(s)
  <2>1. \E X : s \in Seq(X)
    <3>1. CASE p \in Interface
      <4>1. PICK yes : yes = TRUE
        OBVIOUS
      <4>2. s \in Seq(Commands(yes))
        BY <1>6, <3>1, <4>1, SectionsOfWhole, ShowSectionIs
      <4> QED BY <4>2
    <3>2. CASE p \in Lag
      <4>1. PICK yes : yes = TRUE
        OBVIOUS
      <4>2. s = LagLines(p, All)
        BY <1>6, <3>2, SectionsOfWhole, OwningLags
      <4>3. s \in Seq(Commands(yes))
        BY <3>2, <4>1, <4>2, LagLinesAre
      <4> QED BY <4>3
    <3> QED BY <3>1, <3>2 DEF PortName
  <2>2. PICK X : s \in Seq(X)
    BY <2>1
  <2> QED BY <2>2, RangeIs DEF Contains
<1> QED BY <1>1, <1>5, <1>6, <1>7 DEF AddressLine

-----------------------------------------------------------------------------
(* The values of quality of service that "show interface" looks at, and    *)
(* those that the running configuration sets.                              *)
ShownPorts(i) == IF is_member_of_lag(i) THEN get_owning_lag(i) ELSE {i} \cap ports
SetValues(i, k) == {qos[p][k] : p \in ShownPorts(i)} \ {"absent"}

LEMMA ShownQos ==
    ASSUME ColumnsInv, OneLag, NEW i \in Interface, NEW k \in QosKeys
    PROVE  {qos_port_show(i)[k]} = IF SetValues(i, k) = {} THEN {Inherited(k)} ELSE SetValues(i, k)
<1>1. PICK S : S = SetValues(i, k)
  OBVIOUS
<1>2. qos_port_show(i)[k] = IF S = {} THEN Inherited(k) ELSE CHOOSE v \in S : TRUE
  BY <1>1 DEF qos_port_show, SetValues, ShownPorts
<1>3. \A p, q \in ShownPorts(i) : p = q
  <2>1. CASE is_member_of_lag(i)
    <3>1. ShownPorts(i) = {l \in Lag : In(i, members[l])}
      BY <2>1, OwningLags DEF ShownPorts
    <3> QED BY <3>1 DEF OneLag
  <2>2. CASE ~is_member_of_lag(i)
    <3>1. ShownPorts(i) = {i} \cap ports
      BY <2>2 DEF ShownPorts
    <3> QED BY <3>1
  <2> QED BY <2>1, <2>2
<1>4. \A v, w \in S : v = w
  BY <1>1, <1>3 DEF SetValues
<1>5. CASE S = {}
  BY <1>1, <1>2, <1>5
<1>6. CASE S # {}
  <2>1. PICK v : v \in S
    BY <1>6
  <2>2. S = {v}
    BY <1>4, <2>1
  <2>3. PICK w : w = CHOOSE u \in S : TRUE
    OBVIOUS
  <2>4. w \in S
    BY <2>1, <2>3
  <2>5. qos_port_show(i)[k] = w
    BY <1>2, <1>6, <2>3
  <2> QED BY <1>1, <1>6, <2>2, <2>4, <2>5
<1> QED BY <1>5, <1>6

(* The ports an interface's section names, and what they set.              *)
Owners(i, whole) == {i} \cup {l \in Lag : Cmd("lag", l, FALSE) \in Range(Section(whole, i))}
SaidValues(P, whole, k) ==
    {c.arg : c \in {d \in UNION {Range(Section(whole, p)) : p \in P} : d.name = k}}

LEMMA SaidIsSet ==
    ASSUME ColumnsInv, NEW i \in Interface, NEW k \in QosKeys,
           NEW whole, whole = cli_show_run_interface_exec(All)
    PROVE  SaidValues(Owners(i, whole), whole, k) = SetValues(i, k)
<1>1. PICK P : P = Owners(i, whole)
  OBVIOUS
<1>2. P = {i} \cup get_owning_lag(i) /\ P \subseteq PortName
  <2>1. \A l \in Lag : Cmd("lag", l, FALSE) \in Range(Section(whole, i)) <=> l \in get_owning_lag(i)
    BY LagSaid
  <2>2. get_owning_lag(i) \subseteq Lag
    BY OwningLags
  <2> QED BY <1>1, <2>1, <2>2 DEF Owners, PortName
<1>3. \A v : v \in SaidValues(P, whole, k) <=>
                \E p \in P : \E x \in Range(Section(whole, p)) : x.name = k /\ x.arg = v
  BY DEF SaidValues
<1>4. ASSUME NEW p \in P, NEW v
      PROVE  (\E x \in Range(Section(whole, p)) : x.name = k /\ x.arg = v)
               <=> p \in ports /\ get_owning_lag(p) = {} /\ qos[p][k] # "absent" /\ v = qos[p][k]
  BY <1>2, QosSaid
<1>5. \A v : v \in SaidValues(P, whole, k) <=>
                \E p \in P : /\ p \in ports /\ get_owning_lag(p) = {}
                             /\ qos[p][k] # "absent" /\ v = qos[p][k]
  BY <1>3, <1>4, Zenon
<1>6. {p \in P : p \in ports /\ get_owning_lag(p) = {}} = ShownPorts(i)
  <2>1. \A l \in get_owning_lag(i) : l \in ports /\ get_owning_lag(l) = {}
    BY OwningLags
  <2>2. CASE get_owning_lag(i) = {}
    BY <1>2, <2>2 DEF ShownPorts, is_member_of_lag
  <2>3. CASE get_owning_lag(i) # {}
    BY <1>2, <2>1, <2>3 DEF ShownPorts, is_member_of_lag
  <2> QED BY <2>2, <2>3
<1>7. \A p : p \in ShownPorts(i) <=> p \in P /\ p \in ports /\ get_owning_lag(p) = {}
  BY <1>6
<1>8. \A v : v \in SetValues(i, k) <=> \E p \in ShownPorts(i) : qos[p][k] # "absent" /\ v = qos[p][k]
  BY DEF SetValues
<1>9. \A v : v \in SaidValues(P, whole, k) <=> v \in SetValues(i, k)
  BY <1>5, <1>7, <1>8, Zenon
<1> QED BY <1>1, <1>9

LEMMA QosIsPrinted ==
    ColumnsInv /\ OneLag => QosShownIsPrinted
<1> DEFINE whole == cli_show_run_interface_exec(All)
           section == [p \in PortName |-> Range(Section(whole, p))]
           owners == [i \in Interface |-> {i} \cup {l \in Lag : Cmd("lag", l, FALSE) \in section[i]}]
           values(i, k) == {c.arg : c \in {d \in UNION {section[p] : p \in owners[i]} : d.name = k}}
<1>1. ASSUME ColumnsInv, OneLag, NEW i \in Interface, NEW k \in QosKeys
      PROVE  {qos_port_show(i)[k]} = IF values(i, k) = {} THEN {Inherited(k)} ELSE values(i, k)
  <2>1. PICK all : all = whole
    OBVIOUS
  <2> HIDE DEF whole
  <2>2. PICK P : P = owners[i]
    OBVIOUS
  <2>3. P = Owners(i, all)
    <3>1. section[i] = Range(Section(all, i))
      BY <2>1 DEF PortName
    <3> HIDE DEF section
    <3>2. P = {i} \cup {l \in Lag : Cmd("lag", l, FALSE) \in section[i]}
      BY <2>2
    <3> QED BY <3>1, <3>2 DEF Owners
  <2>4. P \subseteq PortName
    BY <2>3 DEF Owners, PortName
  <2>5. \A p \in P : section[p] = Range(Section(all, p))
    BY <2>1, <2>4
  <2> HIDE DEF section, owners
  <2>6. UNION {section[p] : p \in P} = UNION {Range(Section(all, p)) : p \in P}
    BY <2>5
  <2>7. PICK V : V = values(i, k)
    OBVIOUS
  <2>8. V = SaidValues(P, all, k)
    BY <2>2, <2>6, <2>7 DEF SaidValues
  <2>9. V = SetValues(i, k)
    BY <1>1, <2>1, <2>3, <2>8, SaidIsSet DEF whole
  <2>10. {qos_port_show(i)[k]} = IF V = {} THEN {Inherited(k)} ELSE V
    BY <1>1, <2>9, ShownQos
  <2> HIDE DEF values
  <2> QED BY <2>7, <2>10
<1> QED BY <1>1, Zenon DEF QosShownIsPrinted

-----------------------------------------------------------------------------
(* The loop of "show ip interface".                                        *)
AddressStep(filter, acc, i) ==
    IF acc.done \/ filter \notin {All, i} THEN acc
    ELSE IF ~check_iface_in_vrf(i) THEN [acc EXCEPT !.done = filter # All]
    ELSE IF l3[i] # "address" THEN acc
    ELSE [rows |-> acc.rows \cup {i}, done |-> filter # All]
AddressLoop == INSTANCE Loops WITH Step <- AddressStep
AddressStart == [rows |-> {}, done |-> FALSE]
Addresses(filter) == AddressLoop!Result(filter, AddressStart, sort_interface)
HasAddress(p) == p \in ports /\ l3[p] = "address"

LEMMA AddressesAre ==
    ASSUME NEW filter, NEW r, r = Addresses(filter)
    PROVE  cli_show_ip_interface_exec(filter)
             = r.rows \cup IF r.done THEN {} ELSE cli_show_ip_lag(filter)
BY DEF cli_show_ip_interface_exec, AddressStart, Addresses, AddressStep, AddressLoop!Result, FoldLeft,
       AddressLoop!FoldLeft, MapThenFoldSet, AddressLoop!MapThenFoldSet, Max, AddressLoop!Max

LEMMA AddressStepIs ==
    ASSUME NEW rows, NEW i \in Interface, NEW r, r = [rows |-> rows, done |-> FALSE]
    PROVE  AddressStep(All, r, i)
             = [rows |-> rows \cup (IF HasAddress(i) THEN {i} ELSE {}), done |-> FALSE]
<1>1. All # All <=> FALSE
  OBVIOUS
<1>2. r.done = FALSE /\ r.rows = rows
  OBVIOUS
<1>3. PICK off : off = (All # All)
  OBVIOUS
<1>4. off = FALSE
  BY <1>3
<1>5. CASE HasAddress(i)
  <2>1. check_iface_in_vrf(i) /\ l3[i] = "address"
    BY <1>5 DEF HasAddress, check_iface_in_vrf
  <2>2. AddressStep(All, r, i) = [rows |-> rows \cup {i}, done |-> off]
    BY <1>2, <1>3, <2>1 DEF AddressStep
  <2> QED BY <1>4, <1>5, <2>2
<1>6. CASE ~HasAddress(i)
  <2>1. AddressStep(All, r, i) = r
    <3>1. CASE ~check_iface_in_vrf(i)
      <4>1. AddressStep(All, r, i) = [r EXCEPT !.done = off]
        BY <1>2, <1>3, <3>1 DEF AddressStep
      <4> QED BY <1>4, <4>1
    <3>2. CASE check_iface_in_vrf(i)
      <4>1. l3[i] # "address"
        BY <1>6, <3>2 DEF HasAddress, check_iface_in_vrf
      <4> QED BY <1>2, <3>2, <4>1 DEF AddressStep
    <3> QED BY <3>1, <3>2
  <2>2. rows \cup {} = rows
    OBVIOUS
  <2> QED BY <1>6, <2>1, <2>2
<1> QED BY <1>5, <1>6

LEMMA AllAddresses ==
    ASSUME NEW r, r = Addresses(All)
    PROVE  r.rows = {i \in Interface : HasAddress(i)} /\ r.done = FALSE
<1>1. PICK n, s : n = Cardinality(Interface) /\ s = sort_interface
  OBVIOUS
<1>2. /\ n \in Nat /\ s \in [1..n -> Interface] /\ Len(s) = n /\ s \in Seq(Interface)
      /\ \A i \in Interface : \E k \in 1..n : s[k] = i
  BY <1>1, SortIs DEF IsList, In
<1> DEFINE T == [rows : SUBSET Interface, done : {FALSE}]
           Found(k) == {i \in Interface : HasAddress(i) /\ \E j \in 1..k : s[j] = i}
<1>3. PICK start : start = AddressStart
  OBVIOUS
<1>4. start \in T /\ start.rows = {}
  BY <1>3 DEF AddressStart
<1>5. ASSUME NEW q \in T, NEW i \in Interface
      PROVE  /\ AddressStep(All, q, i) \in T
             /\ AddressStep(All, q, i).rows = q.rows \cup IF HasAddress(i) THEN {i} ELSE {}
  <2>1. q = [rows |-> q.rows, done |-> FALSE] /\ q.rows \subseteq Interface
    OBVIOUS
  <2>2. PICK rows, more : rows = q.rows /\ more = rows \cup IF HasAddress(i) THEN {i} ELSE {}
    OBVIOUS
  <2>3. AddressStep(All, q, i) = [rows |-> more, done |-> FALSE]
    BY <2>1, <2>2, AddressStepIs
  <2>4. more \subseteq Interface
    BY <2>1, <2>2
  <2> QED BY <2>2, <2>3, <2>4
<1> HIDE DEF T
<1>6. PICK h : AddressLoop!Runs(h, All, start, s) /\ AddressLoop!Result(All, start, s) = h[Len(s)]
  <2>1. \E h : AddressLoop!Runs(h, All, start, s) /\ AddressLoop!Result(All, start, s) = h[Len(s)]
    BY <1>2, <1>4, <1>5, AddressLoop!FoldRuns
  <2> QED BY <2>1
<1>7. h[0] = start /\ \A k \in 1..n : h[k] = AddressStep(All, h[k - 1], s[k])
  BY <1>2, <1>6 DEF AddressLoop!Runs
<1> DEFINE S == {k \in 0..n : h[k] \in T /\ h[k].rows = Found(k)}
<1>8. 0 \in S
  <2>1. Found(0) = {} /\ 0 \in 0..n
    BY <1>2
  <2> HIDE DEF Found
  <2>2. h[0] \in T /\ h[0].rows = {}
    BY <1>4, <1>7
  <2> QED BY <2>1, <2>2
<1>9. ASSUME NEW k \in 1..n, k - 1 \in S PROVE k \in S
  <2>1. k \in 0..n /\ s[k] \in Interface
    BY <1>2
  <2>2. PICK q : q = h[k - 1]
    OBVIOUS
  <2>3. q \in T /\ q.rows = Found(k - 1) /\ h[k] = AddressStep(All, q, s[k])
    BY <1>7, <1>9, <2>2
  <2>4. h[k] \in T /\ h[k].rows = Found(k - 1) \cup IF HasAddress(s[k]) THEN {s[k]} ELSE {}
    <3> HIDE DEF Found
    <3> QED BY <1>5, <2>1, <2>3
  <2>5. \A j : j \in 1..k <=> j \in 1..(k - 1) \/ j = k
    OBVIOUS
  <2>6. Found(k) = Found(k - 1) \cup IF HasAddress(s[k]) THEN {s[k]} ELSE {}
    BY <2>1, <2>5
  <2> HIDE DEF Found
  <2> QED BY <2>1, <2>4, <2>6
<1> HIDE DEF S
<1>10. \A k \in 0..n : k \in S
  BY <1>2, <1>8, <1>9, EnterLoop!InductionUpTo
<1>11. h[n] \in T /\ h[n].rows = Found(n)
  <2>1. n \in 0..n
    BY <1>2
  <2>2. n \in S
    BY <1>10, <2>1
  <2> HIDE DEF Found
  <2> QED BY <2>2 DEF S
<1>12. r = h[n]
  BY <1>1, <1>2, <1>3, <1>6 DEF Addresses
<1>13. Found(n) = {i \in Interface : HasAddress(i)}
  BY <1>2
<1>14. r.done = FALSE
  BY <1>11, <1>12 DEF T
<1> HIDE DEF Found
<1> QED BY <1>11, <1>12, <1>13, <1>14

LEMMA OneAddress ==
    ASSUME NEW i \in Interface, NEW r, r = Addresses(i)
    PROVE  r.rows = IF HasAddress(i) THEN {i} ELSE {}
<1>1. PICK n, s : n = Cardinality(Interface) /\ s = sort_interface
  OBVIOUS
<1>2. /\ n \in Nat /\ Len(s) = n /\ s \in Seq(Interface)
      /\ IsList(s, Interface) /\ In(i, s)
  BY <1>1, SortIs DEF IsList
<1>3. PICK j \in 1..Len(s) : s[j] = i
  BY <1>2 DEF In
<1>4. \A k \in 1..Len(s) : s[k] = i => k = j
  BY <1>2, <1>3 DEF IsList
<1>5. PICK start, t : start = AddressStart /\ t = AddressStep(i, AddressStart, i)
  OBVIOUS
<1>6. PICK on : on = (i # All)
  OBVIOUS
<1>7. on = TRUE
  BY <1>6, CliAssumption DEF All
<1>8. (t = start \/ t.done) /\ t.rows = IF HasAddress(i) THEN {i} ELSE {}
  <2>1. CASE ~check_iface_in_vrf(i)
    <3>1. t = [start EXCEPT !.done = on]
      BY <1>5, <1>6, <2>1 DEF AddressStep, AddressStart
    <3>2. t = [rows |-> {}, done |-> TRUE]
      BY <1>5, <1>7, <3>1 DEF AddressStart
    <3>3. ~HasAddress(i)
      BY <2>1 DEF HasAddress, check_iface_in_vrf
    <3> QED BY <3>2, <3>3
  <2>2. CASE check_iface_in_vrf(i) /\ l3[i] # "address"
    <3>1. t = start
      BY <1>5, <2>2 DEF AddressStep, AddressStart
    <3>2. ~HasAddress(i)
      BY <2>2 DEF HasAddress
    <3>3. t.rows = {}
      BY <1>5, <3>1 DEF AddressStart
    <3>4. t = start
      BY <1>5, <3>1
    <3>5. t = start \/ t.done
      BY <3>4, Zenon
    <3> QED BY <3>2, <3>3, <3>5
  <2>3. CASE check_iface_in_vrf(i) /\ l3[i] = "address"
    <3>1. t = [rows |-> {} \cup {i}, done |-> on]
      BY <1>5, <1>6, <2>3 DEF AddressStep, AddressStart
    <3>2. HasAddress(i)
      BY <2>3 DEF HasAddress, check_iface_in_vrf
    <3>3. t.done = TRUE /\ t.rows = {i}
      BY <1>7, <3>1
    <3> QED BY <3>2, <3>3
  <2> QED BY <2>1, <2>2, <2>3
<1>9. AddressStep(i, start, i) = t /\ AddressStep(i, t, i) \in {start, t}
  <2>1. t.done => AddressStep(i, t, i) = t
    BY DEF AddressStep
  <2> QED BY <1>5, <1>8, <2>1
<1>10. \A q : \A x \in Interface : x # i => AddressStep(i, q, x) = q
  <2>1. i # All
    BY CliAssumption DEF All
  <2> QED BY <2>1 DEF AddressStep
<1>11. AddressLoop!Result(i, start, s) = t
  BY <1>2, <1>3, <1>4, <1>9, <1>10, AddressLoop!ResultOfOne
<1>12. r = t
  BY <1>1, <1>5, <1>11 DEF Addresses
<1> QED BY <1>8, <1>12

LEMMA NoAddress ==
    ASSUME NEW l \in Lag
    PROVE  Addresses(l) = AddressStart
<1>1. PICK s : s = sort_interface
  OBVIOUS
<1>2. s \in Seq(Interface)
  BY <1>1, SortIs DEF IsList
<1>3. PICK start, T : start = AddressStart /\ T = {start}
  OBVIOUS
<1>4. \A q \in T, x \in Interface : AddressStep(l, q, x) \in T
  <2>1. \A x \in Interface : l \notin {All, x}
    BY CliAssumption DEF All
  <2> QED BY <1>3, <2>1 DEF AddressStep
<1>5. start \in T
  BY <1>3
<1>6. AddressLoop!Result(l, start, s) \in T
  BY <1>2, <1>4, <1>5, AddressLoop!ResultInSet
<1> QED BY <1>1, <1>3, <1>6 DEF Addresses

LEMMA AddressesArePrinted ==
    ColumnsInv => AddressesShownArePrinted
<1> SUFFICES ASSUME ColumnsInv PROVE AddressesShownArePrinted
  OBVIOUS
<1>1. PICK whole : whole = cli_show_run_interface_exec(All)
  OBVIOUS
<1>2. \A p \in PortName : Contains(Section(whole, p), Cmd("ip address", p, FALSE)) <=> HasAddress(p)
  BY <1>1, AddressSaid DEF HasAddress
<1>3. cli_show_ip_interface_exec(All) = {i \in Interface : HasAddress(i)}
  <2>1. PICK r : r = Addresses(All)
    OBVIOUS
  <2>2. r.rows = {i \in Interface : HasAddress(i)} /\ r.done = FALSE
    BY <2>1, AllAddresses
  <2>3. cli_show_ip_lag(All) = {}
    BY CliAssumption DEF cli_show_ip_lag, All
  <2>4. cli_show_ip_interface_exec(All) = r.rows \cup IF r.done THEN {} ELSE cli_show_ip_lag(All)
    BY <2>1, AddressesAre
  <2> QED BY <2>2, <2>3, <2>4
<1>4. ASSUME NEW i \in Interface
      PROVE  cli_show_ip_interface_exec(i) = {q \in {i} : HasAddress(q)}
  <2>1. PICK r : r = Addresses(i)
    OBVIOUS
  <2>2. r.rows = IF HasAddress(i) THEN {i} ELSE {}
    BY <2>1, OneAddress
  <2>3. cli_show_ip_lag(i) = {}
    BY CliAssumption DEF cli_show_ip_lag
  <2>4. cli_show_ip_interface_exec(i) = r.rows \cup IF r.done THEN {} ELSE cli_show_ip_lag(i)
    BY <2>1, AddressesAre
  <2>5. cli_show_ip_interface_exec(i) = r.rows
    BY <2>3, <2>4
  <2> QED BY <2>2, <2>5
<1>5. ASSUME NEW l \in Lag
      PROVE  cli_show_ip_interface_exec(l) = {q \in {l} : HasAddress(q)}
  <2>1. PICK r : r = Addresses(l)
    OBVIOUS
  <2>2. r = [rows |-> {}, done |-> FALSE]
    BY <2>1, NoAddress DEF AddressStart
  <2>3. cli_show_ip_lag(l) = {q \in {l} : HasAddress(q)}
    <3>1. cli_show_ip_lag(l) = {q \in ports \cap Lag : l = q /\ check_iface_in_vrf(q) /\ l3[q] = "address"}
      BY DEF cli_show_ip_lag
    <3> QED BY <3>1 DEF HasAddress, check_iface_in_vrf
  <2>4. cli_show_ip_interface_exec(l) = r.rows \cup IF r.done THEN {} ELSE cli_show_ip_lag(l)
    BY <2>1, AddressesAre
  <2> QED BY <2>2, <2>3, <2>4
<1>6. {i \in Interface : HasAddress(i)}
        = {i \in Interface : Contains(Section(whole, i), Cmd("ip address", i, FALSE))}
  BY <1>2 DEF PortName
<1>7. ASSUME NEW p \in PortName
      PROVE  cli_show_ip_interface_exec(p)
               = {q \in {p} : Contains(Section(whole, q), Cmd("ip address", q, FALSE))}
  <2>1. cli_show_ip_interface_exec(p) = {q \in {p} : HasAddress(q)}
    BY <1>4, <1>5 DEF PortName
  <2> QED BY <1>2, <2>1
<1>8. cli_show_ip_interface_exec(All)
        = {i \in Interface : Contains(Section(whole, i), Cmd("ip address", i, FALSE))}
  BY <1>3, <1>6
<1> QED BY <1>1, <1>7, <1>8, Zenon DEF AddressesShownArePrinted

-----------------------------------------------------------------------------
(* With a name, "show running-config interface" gives that section of the  *)
(* whole output, however many interfaces and LAGs there are and whatever   *)
(* was entered: each row makes one section, the loop passes over all rows  *)
(* but the named one, and only flow control leaves it early.               *)
THEOREM NameGivesSection == ShowSpec => []FilteredIsSection
BY ShowColumns, ShownIsSection, PTL

(* The views of a port say what the running configuration sets: the QoS    *)
(* values, which a member takes from its LAG, because it is in no other    *)
(* LAG (OneLag), and the addresses.                                        *)
THEOREM ViewsAgree == ShowSpec => []ViewsAgreeWithRunningConfig
<1>1. ColumnsInv /\ OneLag => ViewsAgreeWithRunningConfig
  BY QosIsPrinted, AddressesArePrinted DEF ViewsAgreeWithRunningConfig
<1> QED BY <1>1, ShowOneLag, PTL

-----------------------------------------------------------------------------
(* The totals of the LAGs: what a loop over a list adds.                   *)

SpeedStep(db, sum, i) == sum + LinkSpeed[i]
StatisticStep(k, sum, i) == sum + Statistic(i, k)
QueueStep(db, sum, i) == sum + IF QueueBytes[i] = NoQueue THEN 0 ELSE QueueBytes[i]
SpeedLoop == INSTANCE Loops WITH Step <- SpeedStep
StatisticLoop == INSTANCE Loops WITH Step <- StatisticStep
QueueLoop == INSTANCE Loops WITH Step <- QueueStep

SpeedOf(s) == Added(s, LAMBDA i : LinkSpeed[i])
StatisticOf(s, k) == Added(s, LAMBDA i : Statistic(i, k))
QueueOf(s) == Added(s, LAMBDA i : IF QueueBytes[i] = NoQueue THEN 0 ELSE QueueBytes[i])

LEMMA StatisticIsNumber ==
    ASSUME NEW i \in Interface, NEW k
    PROVE  Statistic(i, k) \in Nat
<1>1. PICK keys \in SUBSET StatKeys : Statistics[i] \in [keys -> Nat]
  BY ShowAssumption
<1> QED BY <1>1 DEF Statistic

LEMMA SpeedIsSum ==
    ASSUME NEW s, IsList(s, Interface)
    PROVE  /\ SpeedOf(s) \in Nat /\ (s = <<>> => SpeedOf(s) = 0)
           /\ SpeedOf(s) = SumFunction([i \in Range(s) |-> LinkSpeed[i]])
<1> DEFINE h == LinkSpeed
           none == 0
<1>1. SpeedOf(s) = SpeedLoop!Result(none, 0, s)
  BY DEF SpeedOf, Added, SpeedStep, SpeedLoop!Result, FoldLeft, SpeedLoop!FoldLeft,
         MapThenFoldSet, SpeedLoop!MapThenFoldSet, Max, SpeedLoop!Max
<1>2. s \in Seq(Interface) /\ \A j, k \in 1..Len(s) : s[j] = s[k] => j = k
  BY DEF IsList
<1>3. h \in [Interface -> Nat]
  BY ShowAssumption
<1>4. \A r \in Nat, i \in Interface : SpeedStep(none, r, i) = r + IF i \in Interface THEN h[i] ELSE 0
  BY DEF SpeedStep
<1>5. \A r \in Nat, i \in Interface : SpeedStep(none, r, i) \in Nat
  BY <1>3, <1>4
<1> HIDE DEF h, none
<1>6. SpeedLoop!Result(none, 0, s) = SpeedLoop!SumOfSome(h, s, Interface)
  <2>1. SpeedLoop!Adding(none, Interface, h, Interface)
    BY <1>4 DEF SpeedLoop!Adding
  <2> QED BY <1>2, <1>3, <2>1, SpeedLoop!SumOfLoop
<1>7. SpeedLoop!Result(none, 0, s) \in Nat
  <2> DEFINE T == Nat
             start == 0
  <2>1. start \in T /\ \A r \in T, i \in Interface : SpeedStep(none, r, i) \in T
    BY <1>5
  <2> HIDE DEF T, start
  <2>2. SpeedLoop!Result(none, start, s) \in T
    BY <1>2, <2>1, SpeedLoop!ResultInSet
  <2> QED BY <2>2 DEF T, start
<1>8. s = <<>> => SpeedLoop!Result(none, 0, s) = 0
  BY <1>5, SpeedLoop!ResultOfNone
<1>9. SpeedLoop!Prefix(s, Len(s)) \cap Interface = Range(s)
  BY <1>2 DEF SpeedLoop!Prefix, Range
<1>10. SpeedLoop!SumOfSome(h, s, Interface) = SumFunction([i \in Range(s) |-> h[i]])
  <2>1. PICK P : P = SpeedLoop!Prefix(s, Len(s)) \cap Interface
    OBVIOUS
  <2>2. SpeedLoop!SumOfSome(h, s, Interface) = SpeedLoop!SumFunction([i \in P |-> h[i]])
    BY <2>1 DEF SpeedLoop!SumOfSome, SpeedLoop!SumOver
  <2>3. PICK g : g = [i \in P |-> h[i]]
    OBVIOUS
  <2>4. SpeedLoop!SumFunction(g) = SumFunction(g)
    BY DEF SumFunction, SumFunctionOnSet, FoldFunctionOnSet, MapThenFoldSet,
           SpeedLoop!SumFunction, SpeedLoop!SumFunctionOnSet, SpeedLoop!FoldFunctionOnSet,
           SpeedLoop!MapThenFoldSet
  <2>5. g = [i \in Range(s) |-> h[i]]
    BY <1>9, <2>1, <2>3
  <2> QED BY <2>2, <2>3, <2>4, <2>5
<1> QED BY <1>1, <1>6, <1>7, <1>8, <1>10 DEF h

LEMMA StatisticIsSum ==
    ASSUME NEW s, IsList(s, Interface), NEW key
    PROVE  /\ StatisticOf(s, key) \in Nat /\ (s = <<>> => StatisticOf(s, key) = 0)
           /\ StatisticOf(s, key) = SumFunction([i \in Range(s) |-> Statistic(i, key)])
<1> DEFINE h == [i \in Interface |-> Statistic(i, key)]
<1>1. StatisticOf(s, key) = StatisticLoop!Result(key, 0, s)
  BY DEF StatisticOf, Added, StatisticStep, StatisticLoop!Result, FoldLeft, StatisticLoop!FoldLeft,
         MapThenFoldSet, StatisticLoop!MapThenFoldSet, Max, StatisticLoop!Max
<1>2. s \in Seq(Interface) /\ \A j, k \in 1..Len(s) : s[j] = s[k] => j = k
  BY DEF IsList
<1>3. h \in [Interface -> Nat]
  BY StatisticIsNumber
<1>4. \A r \in Nat, i \in Interface : StatisticStep(key, r, i) = r + IF i \in Interface THEN h[i] ELSE 0
  BY DEF StatisticStep
<1>5. \A r \in Nat, i \in Interface : StatisticStep(key, r, i) \in Nat
  BY <1>3, <1>4
<1> HIDE DEF h
<1>6. StatisticLoop!Result(key, 0, s) = StatisticLoop!SumOfSome(h, s, Interface)
  <2>1. StatisticLoop!Adding(key, Interface, h, Interface)
    BY <1>4 DEF StatisticLoop!Adding
  <2> QED BY <1>2, <1>3, <2>1, StatisticLoop!SumOfLoop
<1>7. StatisticLoop!Result(key, 0, s) \in Nat
  <2> DEFINE T == Nat
             start == 0
  <2>1. start \in T /\ \A r \in T, i \in Interface : StatisticStep(key, r, i) \in T
    BY <1>5
  <2> HIDE DEF T, start
  <2>2. StatisticLoop!Result(key, start, s) \in T
    BY <1>2, <2>1, StatisticLoop!ResultInSet
  <2> QED BY <2>2 DEF T, start
<1>8. s = <<>> => StatisticLoop!Result(key, 0, s) = 0
  BY <1>5, StatisticLoop!ResultOfNone
<1>9. StatisticLoop!Prefix(s, Len(s)) \cap Interface = Range(s)
  BY <1>2 DEF StatisticLoop!Prefix, Range
<1>10. StatisticLoop!SumOfSome(h, s, Interface) = SumFunction([i \in Range(s) |-> h[i]])
  <2>1. PICK P : P = StatisticLoop!Prefix(s, Len(s)) \cap Interface
    OBVIOUS
  <2>2. StatisticLoop!SumOfSome(h, s, Interface) = StatisticLoop!SumFunction([i \in P |-> h[i]])
    BY <2>1 DEF StatisticLoop!SumOfSome, StatisticLoop!SumOver
  <2>3. PICK g : g = [i \in P |-> h[i]]
    OBVIOUS
  <2>4. StatisticLoop!SumFunction(g) = SumFunction(g)
    BY DEF SumFunction, SumFunctionOnSet, FoldFunctionOnSet, MapThenFoldSet,
           StatisticLoop!SumFunction, StatisticLoop!SumFunctionOnSet, StatisticLoop!FoldFunctionOnSet,
           StatisticLoop!MapThenFoldSet
  <2>5. g = [i \in Range(s) |-> h[i]]
    BY <1>9, <2>1, <2>3
  <2> QED BY <2>2, <2>3, <2>4, <2>5
<1>11. [i \in Range(s) |-> h[i]] = [i \in Range(s) |-> Statistic(i, key)]
  <2>1. Range(s) \subseteq Interface
    BY <1>2 DEF Range
  <2> QED BY <2>1 DEF h
<1> QED BY <1>1, <1>6, <1>7, <1>8, <1>10, <1>11

LEMMA QueueIsSum ==
    ASSUME NEW s, IsList(s, Interface)
    PROVE  /\ QueueOf(s) \in Nat /\ (s = <<>> => QueueOf(s) = 0)
           /\ QueueOf(s) = SumFunction([i \in {j \in Range(s) : QueueBytes[j] # NoQueue} |-> QueueBytes[i]])
<1> DEFINE h == [i \in Interface |-> IF QueueBytes[i] = NoQueue THEN 0 ELSE QueueBytes[i]]
           K == {j \in Interface : QueueBytes[j] # NoQueue}
           R == {j \in Range(s) : QueueBytes[j] # NoQueue}
           none == 0
<1>1. QueueOf(s) = QueueLoop!Result(none, 0, s)
  BY DEF QueueOf, Added, QueueStep, QueueLoop!Result, FoldLeft, QueueLoop!FoldLeft,
         MapThenFoldSet, QueueLoop!MapThenFoldSet, Max, QueueLoop!Max
<1>2. s \in Seq(Interface) /\ \A j, k \in 1..Len(s) : s[j] = s[k] => j = k
  BY DEF IsList
<1>3. h \in [Interface -> Nat]
  BY ShowAssumption
<1>4. \A r \in Nat, i \in Interface : QueueStep(none, r, i) = r + IF i \in K THEN h[i] ELSE 0
  BY <1>3 DEF QueueStep
<1>5. \A r \in Nat, i \in Interface : QueueStep(none, r, i) \in Nat
  BY <1>3 DEF QueueStep
<1> HIDE DEF h, none, K, R
<1>6. QueueLoop!Result(none, 0, s) = QueueLoop!SumOfSome(h, s, K)
  <2>1. QueueLoop!Adding(none, Interface, h, K)
    BY <1>4 DEF QueueLoop!Adding
  <2> QED BY <1>2, <1>3, <2>1, QueueLoop!SumOfLoop
<1>7. QueueLoop!Result(none, 0, s) \in Nat
  <2> DEFINE T == Nat
             start == 0
  <2>1. start \in T /\ \A r \in T, i \in Interface : QueueStep(none, r, i) \in T
    BY <1>5
  <2> HIDE DEF T, start
  <2>2. QueueLoop!Result(none, start, s) \in T
    BY <1>2, <2>1, QueueLoop!ResultInSet
  <2> QED BY <2>2 DEF T, start
<1>8. s = <<>> => QueueLoop!Result(none, 0, s) = 0
  BY <1>5, QueueLoop!ResultOfNone
<1>9. QueueLoop!Prefix(s, Len(s)) \cap K = R
  BY <1>2 DEF QueueLoop!Prefix, Range, K, R
<1>10. QueueLoop!SumOfSome(h, s, K) = SumFunction([i \in R |-> h[i]])
  <2>1. PICK P : P = QueueLoop!Prefix(s, Len(s)) \cap K
    OBVIOUS
  <2>2. QueueLoop!SumOfSome(h, s, K) = QueueLoop!SumFunction([i \in P |-> h[i]])
    BY <2>1 DEF QueueLoop!SumOfSome, QueueLoop!SumOver
  <2>3. PICK g : g = [i \in P |-> h[i]]
    OBVIOUS
  <2>4. QueueLoop!SumFunction(g) = SumFunction(g)
    BY DEF SumFunction, SumFunctionOnSet, FoldFunctionOnSet, MapThenFoldSet,
           QueueLoop!SumFunction, QueueLoop!SumFunctionOnSet, QueueLoop!FoldFunctionOnSet,
           QueueLoop!MapThenFoldSet
  <2>5. g = [i \in R |-> h[i]]
    BY <1>9, <2>1, <2>3
  <2> QED BY <2>2, <2>3, <2>4, <2>5
<1>11. [i \in R |-> h[i]] = [i \in {j \in Range(s) : QueueBytes[j] # NoQueue} |-> QueueBytes[i]]
  <2>1. Range(s) \subseteq Interface
    BY <1>2 DEF Range
  <2> QED BY <2>1 DEF h, R
<1> QED BY <1>1, <1>6, <1>7, <1>8, <1>10, <1>11

-----------------------------------------------------------------------------
(* The tables of the LAGs.                                                 *)
Tables(V) == [name : Lag, speed : V, stats : [StatKeys -> V]]

LagStep(db, out, l) ==
    Append(out, [name |-> l, speed |-> SpeedOf(members[l]),
                 stats |-> [k \in StatKeys |->
                    (IF out = <<>> THEN 0 ELSE Last(out).stats[k]) + StatisticOf(members[l], k)]])
LagLoop == INSTANCE Loops WITH Step <- LagStep

LEMMA LagTablesAre ==
    ASSUME NEW none, NEW filter
    PROVE  show_lacp_interfaces(filter) = LagLoop!Result(none, <<>>, NamedLags(filter))
BY DEF show_lacp_interfaces, LagStep, SpeedOf, StatisticOf, Added, LagLoop!Result, FoldLeft,
       LagLoop!FoldLeft, MapThenFoldSet, LagLoop!MapThenFoldSet, Max, LagLoop!Max

LEMMA MembersAreList ==
    ASSUME ColumnsInv, NEW l \in Lag
    PROVE  IsList(members[l], Interface)
<1>1. IsList(members[l], LagMembers[l])
  BY DEF ColumnsInv, PortsOK, MembersOf, PortName
<1>2. LagMembers[l] \subseteq Interface
  BY CliAssumption
<1> QED BY <1>1, <1>2 DEF IsList

(* What is added are numbers of V.                                         *)
LEMMA TablesGrow ==
    ASSUME NEW V, V \subseteq Nat, 0 \in V, \A a, b \in V : a + b \in V,
           NEW l \in Lag, SpeedOf(members[l]) \in V,
           \A k \in StatKeys : StatisticOf(members[l], k) \in V,
           NEW out \in Seq(Tables(V)), NEW none
    PROVE  LagStep(none, out, l) \in Seq(Tables(V))
<1> DEFINE old(k) == IF out = <<>> THEN 0 ELSE Last(out).stats[k]
           stats == [k \in StatKeys |-> old(k) + StatisticOf(members[l], k)]
           e == [name |-> l, speed |-> SpeedOf(members[l]), stats |-> stats]
<1>1. \A k \in StatKeys : old(k) \in V
  <2>1. CASE out = <<>>
    BY <2>1
  <2>2. CASE out # <<>>
    <3>1. PICK n : n = Len(out)
      OBVIOUS
    <3>2. n \in 1..Len(out) /\ out[n] \in Tables(V)
      BY <2>2, <3>1
    <3>3. \A k \in StatKeys : out[n].stats[k] \in V
      BY <3>2 DEF Tables
    <3>4. Last(out) = out[n]
      BY <3>1 DEF Last
    <3> QED BY <2>2, <3>3, <3>4
  <2> QED BY <2>1, <2>2
<1>2. LagStep(none, out, l) = Append(out, e)
  BY DEF LagStep
<1> HIDE DEF old
<1>3. stats \in [StatKeys -> V]
  BY <1>1
<1> HIDE DEF stats
<1>4. e \in Tables(V)
  BY <1>3 DEF Tables
<1> HIDE DEF e
<1> QED BY <1>2, <1>4

(* A table says the totals of the members of its LAG.                      *)
SaysSpeed(t) ==
    t.name \in Lag /\ t.speed = SumFunction([i \in Range(members[t.name]) |-> LinkSpeed[i]])
SaysStatistics(t) ==
    \A k \in StatKeys :
        t.stats[k] = SumFunction([i \in Range(members[t.name]) |-> Statistic(i, k)])

LEMMA NamedLagsAre ==
    ASSUME NEW filter
    PROVE  NamedLags(filter) \in Seq(Lag)
<1>1. PICK K : K = {l \in ports \cap Lag : filter \in {All, l}}
  OBVIOUS
<1>2. IsFiniteSet(K) /\ K \subseteq Lag
  BY <1>1, CliAssumption, FS_Subset
<1>3. SetToSeq(K) \in Seq(K)
  BY <1>2, SetListed
<1>4. NamedLags(filter) = SetToSeq(K)
  BY <1>1 DEF NamedLags
<1> QED BY <1>2, <1>3, <1>4

LEMMA BriefSays ==
    ASSUME ColumnsInv, NEW filter, NEW t \in Range(show_lacp_interfaces_brief(filter))
    PROVE  SaysSpeed(t)
<1>1. PICK lags \in Seq(Lag) : lags = NamedLags(filter)
  BY NamedLagsAre
<1>2. show_lacp_interfaces_brief(filter)
        = [k \in DOMAIN lags |-> [name |-> lags[k], speed |-> SpeedOf(members[lags[k]])]]
  BY <1>1 DEF show_lacp_interfaces_brief, SpeedOf
<1>3. PICK k \in DOMAIN lags : t = [name |-> lags[k], speed |-> SpeedOf(members[lags[k]])]
  BY <1>2 DEF Range
<1>4. PICK l \in Lag : l = lags[k]
  BY <1>1, <1>3
<1>5. t.name = l /\ t.speed = SpeedOf(members[l])
  BY <1>3, <1>4
<1>6. SpeedOf(members[l]) = SumFunction([i \in Range(members[l]) |-> LinkSpeed[i]])
  BY <1>4, MembersAreList, SpeedIsSum
<1> QED BY <1>4, <1>5, <1>6 DEF SaysSpeed

LEMMA QueuesSay ==
    ASSUME ColumnsInv, NEW filter, NEW t \in Range(show_lacp_queue_stats(filter))
    PROVE  t.bytes = SumFunction([i \in {j \in Range(members[t.name]) : QueueBytes[j] # NoQueue}
                                    |-> QueueBytes[i]])
<1>1. PICK lags \in Seq(Lag) : lags = NamedLags(filter)
  BY NamedLagsAre
<1>2. show_lacp_queue_stats(filter)
        = [k \in DOMAIN lags |-> [name |-> lags[k], bytes |-> QueueOf(members[lags[k]])]]
  BY <1>1 DEF show_lacp_queue_stats, QueueOf, Added
<1>3. PICK k \in DOMAIN lags : t = [name |-> lags[k], bytes |-> QueueOf(members[lags[k]])]
  BY <1>2 DEF Range
<1>4. PICK l \in Lag : l = lags[k]
  BY <1>1, <1>3
<1>5. t.name = l /\ t.bytes = QueueOf(members[l])
  BY <1>3, <1>4
<1>6. QueueOf(members[l])
        = SumFunction([i \in {j \in Range(members[l]) : QueueBytes[j] # NoQueue} |-> QueueBytes[i]])
  BY <1>4, MembersAreList, QueueIsSum
<1> QED BY <1>5, <1>6

(* Of one LAG there is one table, which starts from 0.                     *)
LEMMA OneLagSays ==
    ASSUME ColumnsInv, NEW l \in Lag
    PROVE  \E t : /\ show_lacp_interfaces(l) = <<t>> /\ t.name = l
                  /\ SaysSpeed(t) /\ SaysStatistics(t)
<1>1. PICK none : none = 0
  OBVIOUS
<1>2. NamedLags(l) = <<l>>
  BY NamedLagsIs DEF ColumnsInv, PortName
<1>3. IsList(members[l], Interface)
  BY MembersAreList
<1>4. SpeedOf(members[l]) \in Nat /\ \A k \in StatKeys : StatisticOf(members[l], k) \in Nat
  BY <1>3, SpeedIsSum, StatisticIsSum
<1> DEFINE T == Seq(Tables(Nat))
           start == <<>>
           L == {l}
<1>5. start \in T /\ \A out \in T, x \in L : LagStep(none, out, x) \in T
  <2> DEFINE V == Nat
  <2>1. V \subseteq Nat /\ 0 \in V /\ (\A a, b \in V : a + b \in V) /\ SpeedOf(members[l]) \in V
        /\ \A k \in StatKeys : StatisticOf(members[l], k) \in V
    BY <1>4
  <2> HIDE DEF V
  <2>2. \A out \in Seq(Tables(V)) : LagStep(none, out, l) \in Seq(Tables(V))
    BY <2>1, TablesGrow
  <2> QED BY <2>2 DEF V
<1>6. start \in Seq(L) /\ l \in L /\ <<l>> = Append(start, l)
  OBVIOUS
<1> HIDE DEF T, L, start
<1>7. LagLoop!Result(none, start, start) = start
  BY <1>5, LagLoop!ResultOfNone DEF start
<1>8. LagLoop!Result(none, start, Append(start, l)) = LagStep(none, LagLoop!Result(none, start, start), l)
  BY <1>5, <1>6, LagLoop!ResultOfAppend
<1>9. show_lacp_interfaces(l) = LagStep(none, start, l)
  BY <1>2, <1>6, <1>7, <1>8, LagTablesAre DEF start
<1>10. PICK stats, t :
         /\ stats = [k \in StatKeys |-> 0 + StatisticOf(members[l], k)]
         /\ t = [name |-> l, speed |-> SpeedOf(members[l]), stats |-> stats]
  OBVIOUS
<1>11. LagStep(none, start, l) = <<t>>
  BY <1>10 DEF LagStep, start
<1>12. /\ t.name = l /\ t.speed = SpeedOf(members[l])
       /\ \A k \in StatKeys : t.stats[k] = StatisticOf(members[l], k)
  BY <1>4, <1>10
<1>13. SaysSpeed(t)
  BY <1>3, <1>12, SpeedIsSum DEF SaysSpeed
<1>14. SaysStatistics(t)
  BY <1>3, <1>12, StatisticIsSum DEF SaysStatistics
<1> QED BY <1>9, <1>11, <1>12, <1>13, <1>14

(* Without a filter some row is shown, if there is an interface at all.    *)
LEMMA SomeRowIsShown ==
    ASSUME ColumnsInv, OnlyIn(sort_interface, RowsShown(All)) = <<>>
    PROVE  Interface = {}
<1>1. \A i \in Interface : Skipped(i)
  <2> SUFFICES ASSUME NEW i \in Interface, ~Skipped(i) PROVE FALSE
    OBVIOUS
  <2>1. PICK rows : rows = OnlyIn(sort_interface, RowsShown(All))
    OBVIOUS
  <2>2. In(i, rows) <=> In(i, sort_interface) /\ i \in RowsShown(All)
    BY <2>1, SortIs, OnlyInIs
  <2>3. i \in RowsShown(All)
    BY DEF RowsShown
  <2> QED BY <2>1, <2>2, <2>3, SortIs DEF In
<1>2. ASSUME NEW i \in Interface, ParentOf[i] = NoInterface PROVE FALSE
  <2>1. uc[i].lane_split = "split"
    BY <1>1, <1>2 DEF Skipped, is_parent_interface_split
  <2>2. i \in Splittable
    BY <2>1 DEF ColumnsInv, RowsOK, RowOK
  <2>3. PICK c \in Interface : ParentOf[c] = i
    BY <2>2, CliAssumption
  <2>4. i # NoInterface
    BY CliAssumption
  <2> QED BY <1>1, <2>1, <2>3, <2>4 DEF Skipped, is_parent_interface_split
<1> QED BY <1>2, CliAssumption

(* Without interfaces every LAG has the totals 0.                          *)
LEMMA NoInterfacesSay ==
    ASSUME ColumnsInv, Interface = {}, NEW filter, NEW t \in Range(show_lacp_interfaces(filter))
    PROVE  SaysSpeed(t) /\ SaysStatistics(t)
<1> DEFINE V == {0}
           T == Seq(Tables(V))
           start == <<>>
<1>1. PICK none, lags : none = 0 /\ lags = NamedLags(filter) /\ lags \in Seq(Lag)
  BY NamedLagsAre
<1>2. ASSUME NEW l \in Lag
      PROVE  /\ members[l] = <<>> /\ IsList(members[l], Interface)
             /\ SpeedOf(members[l]) = 0 /\ \A k \in StatKeys : StatisticOf(members[l], k) = 0
  <2>1. IsList(members[l], Interface)
    BY MembersAreList
  <2>2. PICK s \in Seq(Interface) : s = members[l]
    BY <2>1 DEF IsList
  <2>3. s = <<>>
    <3>1. Len(s) \in Nat /\ \A k \in 1..Len(s) : s[k] \in Interface
      OBVIOUS
    <3>2. Len(s) # 0 => 1 \in 1..Len(s)
      BY <3>1
    <3>3. Len(s) = 0
      BY <3>1, <3>2
    <3> QED BY <3>3
  <2> QED BY <2>1, <2>2, <2>3, SpeedIsSum, StatisticIsSum
<1>3. start \in T /\ \A out \in T, l \in Lag : LagStep(none, out, l) \in T
  <2>1. V \subseteq Nat /\ 0 \in V /\ (\A a, b \in V : a + b \in V)
        /\ \A l \in Lag : /\ SpeedOf(members[l]) \in V
                          /\ \A k \in StatKeys : StatisticOf(members[l], k) \in V
    BY <1>2
  <2> HIDE DEF V
  <2>2. \A l \in Lag, out \in Seq(Tables(V)) : LagStep(none, out, l) \in Seq(Tables(V))
    BY <2>1, TablesGrow
  <2> QED BY <2>2
<1> HIDE DEF T, start
<1>4. LagLoop!Result(none, start, lags) \in T
  BY <1>1, <1>3, LagLoop!ResultInSet
<1>5. show_lacp_interfaces(filter) \in T
  BY <1>1, <1>4, LagTablesAre DEF start
<1>6. t \in Tables(V)
  <2>1. PICK s \in Seq(Tables(V)) : s = show_lacp_interfaces(filter)
    BY <1>5 DEF T
  <2> HIDE DEF V
  <2> QED BY <2>1 DEF Range
<1>7. t.name \in Lag /\ t.speed = 0 /\ \A k \in StatKeys : t.stats[k] = 0
  BY <1>6 DEF Tables
<1>8. SaysSpeed(t)
  BY <1>2, <1>7, SpeedIsSum DEF SaysSpeed
<1>9. SaysStatistics(t)
  BY <1>2, <1>7, StatisticIsSum DEF SaysStatistics
<1> QED BY <1>8, <1>9

(* The tables after the rows, or instead of them.                          *)
LEMMA LagTablesSay ==
    ASSUME ColumnsInv, NEW filter \in Lag \cup Interface \cup {All},
           NEW t \in Range(cli_show_interface_exec(filter, FALSE).lags)
    PROVE  SaysSpeed(t) /\ SaysStatistics(t) /\ (filter \in Lag => t.name = filter)
<1>1. PICK rows, a, message :
         /\ rows = OnlyIn(sort_interface, RowsShown(filter)) /\ a = show_lacp_interfaces(filter)
         /\ message = (filter \in Interface /\ Skipped(filter))
  OBVIOUS
<1>2. cli_show_interface_exec(filter, FALSE).lags
        = IF message THEN <<>> ELSE IF rows = <<>> THEN a ELSE <<>>
  BY <1>1 DEF cli_show_interface_exec
<1>3. Range(<<>>) = {}
  BY DEF Range
<1>4. rows = <<>> /\ t \in Range(a)
  BY <1>2, <1>3
<1>5. CASE filter \in Lag
  BY <1>1, <1>4, <1>5, OneLagSays DEF Range
<1>6. CASE filter \in Interface
  <2>1. NamedLags(filter) = <<>>
    BY <1>6, NamedLagsIs, CliAssumption DEF ColumnsInv, PortName
  <2>2. PICK none, start : none = 0 /\ start = <<>>
    OBVIOUS
  <2>3. a = LagLoop!Result(none, start, start)
    BY <1>1, <2>1, <2>2, LagTablesAre
  <2> DEFINE T == {start}
             L == {}
  <2>4. start \in T /\ \A out \in T, x \in L : LagStep(none, out, x) \in T
    OBVIOUS
  <2> HIDE DEF T, L
  <2>5. LagLoop!Result(none, start, <<>>) = start
    BY <2>4, LagLoop!ResultOfNone
  <2>6. a = start
    BY <2>2, <2>3, <2>5
  <2> QED BY <1>3, <1>4, <2>2, <2>6
<1>7. CASE filter = All
  <2>1. Interface = {}
    BY <1>1, <1>4, <1>7, SomeRowIsShown
  <2>2. All \notin Lag
    BY CliAssumption DEF All
  <2> QED BY <1>1, <1>4, <1>7, <2>1, <2>2, NoInterfacesSay
<1> QED BY <1>5, <1>6, <1>7

LEMMA ShortSays ==
    ASSUME ColumnsInv, NEW filter, NEW t \in Range(cli_show_interface_exec(filter, TRUE).lags)
    PROVE  SaysSpeed(t)
<1>1. PICK b, message : /\ b = show_lacp_interfaces_brief(filter)
                        /\ message = (filter \in Interface /\ Skipped(filter))
  OBVIOUS
<1>2. cli_show_interface_exec(filter, TRUE).lags = IF message THEN <<>> ELSE b
  BY <1>1 DEF cli_show_interface_exec
<1>3. Range(<<>>) = {}
  BY DEF Range
<1>4. t \in Range(b)
  BY <1>2, <1>3
<1> QED BY <1>1, <1>4, BriefSays

(* A LAG that is named is shown.                                           *)
LEMMA NamedLagIsShown ==
    ASSUME ColumnsInv, NEW l \in Lag
    PROVE  \E t \in Range(cli_show_interface_exec(l, FALSE).lags) : t.name = l
<1>1. PICK rows, a, message :
         /\ rows = OnlyIn(sort_interface, RowsShown(l)) /\ a = show_lacp_interfaces(l)
         /\ message = (l \in Interface /\ Skipped(l))
  OBVIOUS
<1>2. cli_show_interface_exec(l, FALSE).lags
        = IF message THEN <<>> ELSE IF rows = <<>> THEN a ELSE <<>>
  BY <1>1 DEF cli_show_interface_exec
<1>3. l \notin Interface /\ l # All
  BY CliAssumption DEF All
<1>4. rows = <<>>
  <2>1. RowsShown(l) = {}
    BY <1>3 DEF RowsShown
  <2>2. IsList(rows, Interface) /\ \A x : ~In(x, rows)
    BY <1>1, <2>1, SortIs, OnlyInIs
  <2>3. rows \in Seq(Interface) /\ Len(rows) \in Nat
    BY <2>2 DEF IsList
  <2>4. Len(rows) = 0
    BY <2>2, <2>3 DEF In
  <2> QED BY <2>3, <2>4
<1>5. PICK t : a = <<t>> /\ t.name = l
  BY <1>1, OneLagSays
<1>6. t \in Range(a)
  BY <1>5 DEF Range
<1> QED BY <1>1, <1>2, <1>3, <1>4, <1>5, <1>6

(* The four parts of LagTotals, each for one filter.                       *)
LEMMA ColumnsSayTotals ==
    ASSUME ColumnsInv
    PROVE  LagTotals
<1> SUFFICES ASSUME NEW filter \in Lag \cup Interface \cup {All}
    PROVE  /\ \A t \in Range(cli_show_interface_exec(filter, FALSE).lags)
                        \cup Range(cli_show_interface_exec(filter, TRUE).lags) :
                 t.speed = SumFunction([i \in Range(members[t.name]) |-> LinkSpeed[i]])
           /\ \A t \in Range(cli_show_interface_exec(filter, FALSE).lags), k \in StatKeys :
                 t.stats[k] = SumFunction([i \in Range(members[t.name]) |-> Statistic(i, k)])
           /\ \A t \in Range(show_lacp_queue_stats(filter)) :
                 t.bytes = SumFunction([i \in {j \in Range(members[t.name]) :
                                                  QueueBytes[j] # NoQueue} |-> QueueBytes[i]])
           /\ filter \in Lag => {t.name : t \in Range(cli_show_interface_exec(filter, FALSE).lags)}
                                  = {filter}
  BY DEF LagTotals
<1> DEFINE Wide == Range(cli_show_interface_exec(filter, FALSE).lags)
           Short == Range(cli_show_interface_exec(filter, TRUE).lags)
<1>1. \A t \in Wide : SaysSpeed(t) /\ SaysStatistics(t) /\ (filter \in Lag => t.name = filter)
  BY LagTablesSay
<1>2. \A t \in Short : SaysSpeed(t)
  BY ShortSays
<1>3. \A t \in Range(show_lacp_queue_stats(filter)) :
          t.bytes = SumFunction([i \in {j \in Range(members[t.name]) : QueueBytes[j] # NoQueue}
                                   |-> QueueBytes[i]])
  BY QueuesSay
<1>4. ASSUME filter \in Lag PROVE \E t \in Wide : t.name = filter
  BY <1>4, NamedLagIsShown
<1> HIDE DEF Wide, Short
<1>5. \A t \in Wide \cup Short : t.speed = SumFunction([i \in Range(members[t.name]) |-> LinkSpeed[i]])
  BY <1>1, <1>2 DEF SaysSpeed
<1>6. \A t \in Wide, k \in StatKeys :
          t.stats[k] = SumFunction([i \in Range(members[t.name]) |-> Statistic(i, k)])
  BY <1>1 DEF SaysStatistics
<1>7. ASSUME filter \in Lag PROVE {t.name : t \in Wide} = {filter}
  BY <1>1, <1>4, <1>7
<1> QED BY <1>3, <1>5, <1>6, <1>7 DEF Wide, Short

THEOREM TotalsAreOfMembers == ShowSpec => []LagTotals
<1>1. ShowSpec => []ColumnsInv
  BY ShowColumns
<1>2. ColumnsInv => LagTotals
  BY ColumnsSayTotals
<1> QED BY <1>1, <1>2, PTL
=============================================================================
