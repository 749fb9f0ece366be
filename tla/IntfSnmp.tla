------------------------------ MODULE IntfSnmp ------------------------------
(***************************************************************************)
(* The tables of IF-MIB and IP-MIB (src/src/snmp/): ifTable and ifXTable   *)
(* are made from Interface rows, ipIfStatsTable and ipSystemStatsTable     *)
(* from Port rows and the statistics of their first interface.  A table is *)
(* loaded as a whole by its *_container_load into a container and served   *)
(* from there until its cache expires.  Other daemons change the rows.     *)
(***************************************************************************)
EXTENDS Naturals, SequencesExt

CONSTANTS
    Interface, Port,  \* names of the rows that may exist
    Number,           \* what atoi makes of a name
    Lane,             \* the names with a dash
    FirstOf,          \* the first interface of a port that has interfaces
    InterfaceRows, PortRows,    \* contents of a row
    Systems,          \* the rows an agent may find, their order, the tables that are polled
    Unset,            \* an optional column without a value
    Garbage,          \* contents of an uninitialized long
    Word,             \* 2^32
    Mega,             \* 1000000
    MaxChanges, MaxNoMemory     \* bounds of a run

\* The schema of Interface: states are enumerations, counters are natural numbers.
Schema(r) ==
    /\ {r.admin_state, r.link_state} \subseteq {"up", "down", Unset}
    /\ r.link_speed \in Seq(Nat)
    /\ r.statistics \in [DOMAIN r.statistics -> Nat]
    /\ \A fam \in {"v4", "v6"} : r.ip[fam] \in [DOMAIN r.ip[fam] -> Nat]

\* The walk may meet every name, each once.
System(s) ==
    /\ s.intf \in [DOMAIN s.intf -> InterfaceRows] /\ DOMAIN s.intf \subseteq Interface
    /\ s.port \in [DOMAIN s.port -> PortRows] /\ DOMAIN s.port \subseteq Port
    /\ s.order \in Seq(Interface \cup Port) /\ IsInjective(s.order)
    /\ Range(s.order) = Interface \cup Port
    /\ \A p \in DOMAIN s.port : s.port[p].interfaces => FirstOf[p] \in DOMAIN s.intf
    /\ s.polled \subseteq {"ifTable", "ifXTable", "ipIfStatsTable", "ipSystemStatsTable"}

ASSUME SnmpAssumption ==
    /\ Word \in Nat \ {0} /\ Mega \in Nat \ {0}
    /\ FirstOf \in [Port -> Interface]
    /\ Lane \subseteq Interface \cup Port
    /\ Number \in [Interface \cup Port -> Nat]
    /\ Unset \notin {"up", "down", "testing"}
    /\ \A r \in InterfaceRows : Schema(r)
    /\ \A r \in PortRows : r.interfaces \in BOOLEAN
    /\ \A s \in Systems : System(s)

VARIABLES
    intf, port,  \* rows of the replica, by name
    order,       \* in which the IDL walks over the rows
    polled,      \* the tables managers ask for
    cache,       \* per table: its container and the state of its netsnmp_cache
    agent,       \* "running" or "dead"
    exact,       \* history: tables loaded to the end since the last change
    changes, nomem

vars == <<intf, port, order, polled, cache, agent, exact, changes, nomem>>

Table == {"ifTable", "ifXTable", "ipIfStatsTable", "ipSystemStatsTable"}
Empty == [n \in {} |-> 0]
NoCache == [valid |-> FALSE, expired |-> FALSE, rows |-> Empty]

----------------------------------------------------------------------------
(* Columns of IF-MIB.                                                      *)

ifTable_skip_function(i) == i \in Lane \/ Number[i] = 0

\* A status that is not listed leaves what the variable held.
StatusValue(s, old) ==
    IF s = "up" THEN 1 ELSE IF s = "down" THEN 2 ELSE IF s = "testing" THEN 3 ELSE old

\* Column link_speed is a sequence of at most one value.
LinkSpeed(r) == IF r.link_state = "up" /\ r.link_speed # <<>> THEN Head(r.link_speed) ELSE 0

ifSpeed(r) == IF LinkSpeed(r) >= Word - 1 THEN Word - 1 ELSE LinkSpeed(r)
\* Mutant of ifHighSpeed: the speed of a link that is down.
ifHighSpeedOfAnyLink(r) == IF r.link_speed # <<>> THEN Head(r.link_speed) \div Mega ELSE 0

ifHighSpeed(r) == LinkSpeed(r) \div Mega

Statistic(r, key) == IF key \in DOMAIN r.statistics THEN r.statistics[key] ELSE 0

InCounters(r) ==
    [ifInOctets |-> Statistic(r, "rx_bytes"),     ifInUcastPkts |-> Statistic(r, "rx_packets"),
     ifInDiscards |-> Statistic(r, "rx_dropped"), ifInErrors |-> Statistic(r, "rx_errors")]

OutCounters(r) ==
    [ifOutOctets |-> Statistic(r, "tx_bytes"),     ifOutUcastPkts |-> Statistic(r, "tx_packets"),
     ifOutDiscards |-> Statistic(r, "tx_dropped"), ifOutErrors |-> Statistic(r, "tx_errors")]

U64(n) == [high |-> n \div Word, low |-> n % Word]

HCCounters(r) ==
    [ifHCInOctets |-> U64(Statistic(r, "rx_bytes")),
     ifHCInUcastPkts |-> U64(Statistic(r, "rx_packets")),
     ifHCOutOctets |-> U64(Statistic(r, "tx_bytes")),
     ifHCOutUcastPkts |-> U64(Statistic(r, "tx_packets"))]

\* The columns of a row, in the order they are fetched in; admin and oper are
\* what the status columns came out as.
IfRow(r, admin, oper) ==
    [ifSpeed |-> ifSpeed(r), ifAdminStatus |-> admin, ifOperStatus |-> oper,
     in |-> InCounters(r), out |-> OutCounters(r)]

IfXRow(r) == [hc |-> HCCounters(r), ifHighSpeed |-> ifHighSpeed(r)]

----------------------------------------------------------------------------
(* Columns of IP-MIB.  A statistics key of a family is <<cast, direction,  *)
(* unit>>, as ipv4_uc_rx_packets is.                                       *)

IpStatistic(stats, cast, dir, unit) ==
    IF <<cast, dir, unit>> \in DOMAIN stats THEN stats[<<cast, dir, unit>>] ELSE 0

IpBoth(stats, dir, unit) ==
    IpStatistic(stats, "uc", dir, unit) + IpStatistic(stats, "mc", dir, unit)

IpCountersV4(r) ==
    [InReceives |-> IpBoth(r.ip.v4, "rx", "packets"),
     InOctets |-> IpBoth(r.ip.v4, "rx", "bytes"),
     OutTransmits |-> IpBoth(r.ip.v4, "tx", "packets"),
     OutOctets |-> IpBoth(r.ip.v4, "tx", "bytes"),
     InMcastPkts |-> IpStatistic(r.ip.v4, "mc", "rx", "packets"),
     InMcastOctets |-> IpStatistic(r.ip.v4, "mc", "rx", "bytes"),
     OutMcastPkts |-> IpStatistic(r.ip.v4, "mc", "tx", "packets"),
     OutMcastOctets |-> IpStatistic(r.ip.v4, "mc", "tx", "bytes")]

\* The function for OutOctets adds up packets.
IpCountersV6(r) ==
    [InReceives |-> IpBoth(r.ip.v6, "rx", "packets"),
     InOctets |-> IpBoth(r.ip.v6, "rx", "bytes"),
     OutTransmits |-> IpBoth(r.ip.v6, "tx", "packets"),
     OutOctets |-> IpBoth(r.ip.v6, "tx", "packets"),
     InMcastPkts |-> IpStatistic(r.ip.v6, "mc", "rx", "packets"),
     InMcastOctets |-> IpStatistic(r.ip.v6, "mc", "rx", "bytes"),
     OutMcastPkts |-> IpStatistic(r.ip.v6, "mc", "tx", "packets"),
     OutMcastOctets |-> IpStatistic(r.ip.v6, "mc", "tx", "bytes")]

IpCounters(r, fam) == IF fam = "v4" THEN IpCountersV4(r) ELSE IpCountersV6(r)

NoCounters == [c \in {"InReceives", "InOctets", "OutTransmits", "OutOctets", "InMcastPkts",
                      "InMcastOctets", "OutMcastPkts", "OutMcastOctets"} |-> 0]

\* Mutant of AddCounters: the sum is overwritten.
LastCounters(a, b) == b

AddCounters(a, b) == [c \in DOMAIN a |-> a[c] + b[c]]

\* Mutant of portTable_inet: the pointer is not looked at before the first character.
InetUnchecked(ports, p, fam) ==
    IF Number[p] = 0 THEN "no"
    ELSE IF ports[p].address[fam] \in {"none", "secondary"} THEN "fault"
    ELSE IF ports[p].address[fam] = "primary" THEN "yes" ELSE "no"

\* What portTable_inetv4 and portTable_inetv6 do with the address columns of a
\* port: a port that has secondary addresses only makes them read through NULL.
portTable_inet(ports, p, fam) ==
    LET a == ports[p].address[fam] IN
    IF Number[p] = 0 THEN "no"
    ELSE IF a = "primary" THEN "yes" ELSE IF a = "secondary" THEN "fault" ELSE "no"

----------------------------------------------------------------------------
(* The loads: the rows that are inserted, in this order, and whether a     *)
(* NULL is dereferenced after them.  Each walks over the rows there are,   *)
(* names of others in walk are passed over; what a step makes of the rows  *)
(* so far is the operator before the load.                                 *)

\* The variables of the loop live as long as the function: a row without a
\* status has the status of the row before.
ifTableRow(rows, acc, i) ==
    LET r == rows[i]
        oper == StatusValue(r.link_state, acc.oper)
        admin == StatusValue(r.admin_state, acc.admin)
    IN  IF acc.fault \/ i \notin DOMAIN rows \/ ifTable_skip_function(i) THEN acc
        ELSE IF r.admin_state = Unset THEN [acc EXCEPT !.fault = TRUE]
        ELSE [fault |-> FALSE, oper |-> oper, admin |-> admin,
              rows |-> Append(acc.rows, <<Number[i], IfRow(r, admin, oper)>>)]

ifTable_container_load(rows, walk, garbage) ==
    FoldLeft(LAMBDA acc, i : ifTableRow(rows, acc, i),
             [rows |-> <<>>, fault |-> FALSE, oper |-> garbage, admin |-> garbage], walk)

NoRows == [rows |-> <<>>, fault |-> FALSE]

ifXTableRow(rows, acc, i) ==
    IF i \notin DOMAIN rows \/ ifTable_skip_function(i) THEN acc
    ELSE [acc EXCEPT !.rows = Append(@, <<Number[i], IfXRow(rows[i])>>)]

ifXTable_container_load(rows, walk) ==
    FoldLeft(LAMBDA acc, i : ifXTableRow(rows, acc, i), NoRows, walk)

\* The row of a port in one family.
IpStatsRow(rows, ports, acc, p, fam, version) ==
    LET inet == portTable_inet(ports, p, fam)
    IN  IF acc.fault \/ inet = "no" THEN acc
        ELSE IF inet = "fault" THEN [acc EXCEPT !.fault = TRUE]
        ELSE [acc EXCEPT !.rows = Append(@,
                <<<<version, Number[p]>>, IpCounters(rows[FirstOf[p]], fam)>>)]

IpStatsRows(rows, ports, acc, p) ==
    IF p \notin DOMAIN ports \/ ~ports[p].interfaces \/ Number[p] = 0 THEN acc
    ELSE IpStatsRow(rows, ports, IpStatsRow(rows, ports, acc, p, "v4", 1), p, "v6", 2)

ipIfStatsTable_container_load(rows, ports, walk) ==
    FoldLeft(LAMBDA acc, p : IpStatsRows(rows, ports, acc, p), NoRows, walk)

\* The family of a port counts once: IPv6 of a port that has IPv4 does not.  It
\* is not looked whether the port has an interface.
SystemSum(rows, ports, acc, p) ==
    LET fam == IF portTable_inet(ports, p, "v4") = "no" THEN "v6" ELSE "v4"
        inet == portTable_inet(ports, p, fam)
    IN  IF acc.fault \/ p \notin DOMAIN ports \/ inet = "no" THEN acc
        ELSE IF inet = "fault" \/ ~ports[p].interfaces THEN [acc EXCEPT !.fault = TRUE]
        ELSE [acc EXCEPT !.sum[fam] = AddCounters(@, IpCounters(rows[FirstOf[p]], fam))]

SystemSums(rows, ports, walk) ==
    FoldLeft(LAMBDA acc, p : SystemSum(rows, ports, acc, p),
             [sum |-> [v4 |-> NoCounters, v6 |-> NoCounters], fault |-> FALSE], walk)

ipSystemStatsTable_container_load(rows, ports, walk) ==
    LET sums == SystemSums(rows, ports, walk)
    IN  [rows |-> IF sums.fault THEN <<>> ELSE <<<<1, sums.sum.v4>>, <<2, sums.sum.v6>>>>,
         fault |-> sums.fault]

ContainerLoad(t, rows, ports, walk, garbage) ==
    CASE t = "ifTable" -> ifTable_container_load(rows, walk, garbage)
      [] t = "ifXTable" -> ifXTable_container_load(rows, walk)
      [] t = "ipIfStatsTable" -> ipIfStatsTable_container_load(rows, ports, walk)
      [] t = "ipSystemStatsTable" -> ipSystemStatsTable_container_load(rows, ports, walk)

\* A load gives up at once when its root table is empty.
NothingToLoad(t) ==
    IF t \in {"ifTable", "ifXTable"} THEN DOMAIN intf = {} ELSE DOMAIN port = {}

\* A container refuses an entry whose index it has.
CONTAINER_INSERT(rows, entry) ==
    [n \in DOMAIN rows \cup {entry[1]} |-> IF n \in DOMAIN rows THEN rows[n] ELSE entry[2]]

Inserted(rows, entries) ==
    FoldLeft(LAMBDA acc, entry : CONTAINER_INSERT(acc, entry), rows, entries)

----------------------------------------------------------------------------
Init ==
    /\ \E s \in Systems : intf = s.intf /\ port = s.port /\ order = s.order /\ polled = s.polled
    /\ cache = [t \in Table |-> NoCache]
    /\ agent = "running"
    /\ exact = {}
    /\ changes = 0 /\ nomem = 0

\* Other daemons write, insert and delete rows.
Without(f, x) == [y \in DOMAIN f \ {x} |-> f[y]]
With(f, x, v) == [y \in DOMAIN f \cup {x} |-> IF y = x THEN v ELSE f[y]]

InterfaceChange(i) ==
    /\ changes < MaxChanges
    /\ \/ \E r \in InterfaceRows : intf' = With(intf, i, r)
       \/ /\ \A p \in DOMAIN port : ~(port[p].interfaces /\ FirstOf[p] = i)
          /\ intf' = Without(intf, i)
    /\ intf' # intf
    /\ changes' = changes + 1
    /\ exact' = {}
    /\ UNCHANGED <<port, order, polled, cache, agent, nomem>>

PortChange(p) ==
    /\ changes < MaxChanges
    /\ \/ \E r \in PortRows : /\ r.interfaces => FirstOf[p] \in DOMAIN intf
                              /\ port' = With(port, p, r)
       \/ port' = Without(port, p)
    /\ port' # port
    /\ changes' = changes + 1
    /\ exact' = {}
    /\ UNCHANGED <<intf, order, polled, cache, agent, nomem>>

\* The timeout of a cache passes.
CacheTimeout(t) ==
    /\ cache[t].valid /\ ~cache[t].expired
    /\ cache' = [cache EXCEPT ![t].expired = TRUE]
    /\ UNCHANGED <<intf, port, order, polled, agent, exact, changes, nomem>>

\* Mutant of _cache_free: the container is not cleared.
KeepRows(c) == c.rows

\* Before a load, the rows of a cache that was valid are freed.
_cache_free(c) == IF c.valid THEN Empty ELSE c.rows

\* A request finds a table that is not valid or has expired, and loads it.
\* Memory may run out at any row: the rows before stay, and the result is not
\* negative, so the cache counts as valid.
_cache_load(t) ==
    /\ agent = "running"
    /\ cache[t].valid => cache[t].expired
    /\ \/ /\ NothingToLoad(t)
          /\ cache' = [cache EXCEPT ![t] = [NoCache EXCEPT !.rows = _cache_free(cache[t])]]
          /\ exact' = exact \ {t}
          /\ UNCHANGED <<agent, nomem>>
       \/ \E g \in IF t = "ifTable" THEN Garbage ELSE {0} :
          LET load == ContainerLoad(t, intf, port, order, g)
              Loaded(n) == [valid |-> TRUE, expired |-> FALSE,
                            rows |-> Inserted(_cache_free(cache[t]), SubSeq(load.rows, 1, n))]
          IN  /\ ~NothingToLoad(t)
              /\ \/ /\ ~load.fault
                    /\ cache' = [cache EXCEPT ![t] = Loaded(Len(load.rows))]
                    /\ exact' = exact \cup {t}
                    /\ UNCHANGED <<agent, nomem>>
                 \/ /\ load.fault
                    /\ agent' = "dead"
                    /\ cache' = [u \in Table |-> NoCache]
                    /\ exact' = {}
                    /\ UNCHANGED nomem
                 \/ /\ nomem < MaxNoMemory
                    /\ \E n \in 1..Len(load.rows) :
                          cache' = [cache EXCEPT ![t] = Loaded(n - 1)]
                    /\ exact' = exact \ {t}
                    /\ nomem' = nomem + 1
                    /\ UNCHANGED agent
    /\ UNCHANGED <<intf, port, order, polled, changes>>

\* Mutant of CacheRelease: the cache is invalidated and its container is not cleared.
ReleaseKeepsRows(t) ==
    /\ cache[t].valid /\ cache[t].expired
    /\ cache' = [cache EXCEPT ![t].valid = FALSE]
    /\ exact' = exact \ {t}
    /\ UNCHANGED <<intf, port, order, polled, agent, changes, nomem>>

\* The library releases expired caches now and then.
CacheRelease(t) ==
    /\ cache[t].valid /\ cache[t].expired
    /\ cache' = [cache EXCEPT ![t] = NoCache]
    /\ exact' = exact \ {t}
    /\ UNCHANGED <<intf, port, order, polled, agent, changes, nomem>>

\* The agent is started again, and registers its tables.
AgentStart ==
    /\ agent = "dead"
    /\ agent' = "running"
    /\ UNCHANGED <<intf, port, order, polled, cache, exact, changes, nomem>>

\* What a manager is given: the row with the index asked for, column by column.
Served(t) == cache[t].rows

Next ==
    \/ \E i \in Interface : InterfaceChange(i)
    \/ \E p \in Port : PortChange(p)
    \/ \E t \in polled : CacheTimeout(t) \/ _cache_load(t) \/ CacheRelease(t)
    \/ AgentStart

Spec == Init /\ [][Next]_vars

----------------------------------------------------------------------------
(* Properties.                                                             *)

\* Rows, caches and the agent have the shape the code gives them; an invalid
\* cache has no rows, so that a load never finds rows of an earlier one.
TypeOK ==
    /\ intf \in [DOMAIN intf -> InterfaceRows] /\ DOMAIN intf \subseteq Interface
    /\ port \in [DOMAIN port -> PortRows] /\ DOMAIN port \subseteq Port
    /\ polled \subseteq Table
    /\ agent \in {"running", "dead"}
    /\ exact \subseteq {t \in Table : cache[t].valid}
    /\ \A t \in Table : cache[t].valid \/ cache[t] = NoCache

Shown == {i \in DOMAIN intf : ~ifTable_skip_function(i)}
Position(n) == CHOOSE k \in DOMAIN order : order[k] = n
FirstWith(S, n) == CHOOSE i \in S : /\ Number[i] = n
                                    /\ \A j \in S : Number[j] = n => Position(i) <= Position(j)

\* ifTable_container_load: there is one row per number.  It is that of the first
\* interface with that number in the walk; its admin status is the interface's
\* own; its operational status is that of the nearest interface in the walk, not
\* after it, that has a link state at all (its own if it has one).
StatusFromNearestRow ==
    "ifTable" \in exact =>
        /\ DOMAIN Served("ifTable") = {Number[i] : i \in Shown}
        /\ \A n \in DOMAIN Served("ifTable") :
             LET i == FirstWith(Shown, n)
                 row == Served("ifTable")[n]
                 before == {j \in Shown : Position(j) <= Position(i) /\ intf[j].link_state # Unset}
                 nearest == CHOOSE j \in before : \A k \in before : Position(k) <= Position(j)
             IN  /\ row.ifAdminStatus = IF intf[i].admin_state = "up" THEN 1 ELSE 2
                 /\ IF before = {} THEN row.ifOperStatus \in Garbage
                    ELSE row.ifOperStatus = IF intf[nearest].link_state = "up" THEN 1 ELSE 2

\* ifTable and ifXTable are loaded at different times by different functions
\* from the same rows.  When no row has changed they show the same interfaces,
\* a speed that fits into ifSpeed is the same in both, and the two words of a
\* 64-bit counter make up the plain one.
IfTablesAgree ==
    {"ifTable", "ifXTable"} \subseteq exact =>
        /\ DOMAIN Served("ifTable") = DOMAIN Served("ifXTable")
        /\ \A n \in DOMAIN Served("ifTable") :
             LET a == Served("ifTable")[n]
                 b == Served("ifXTable")[n]
                 Whole(u) == u.high * Word + u.low
             IN  /\ IF a.ifSpeed < Word - 1 THEN b.ifHighSpeed = a.ifSpeed \div Mega
                    ELSE b.ifHighSpeed >= (Word - 1) \div Mega
                 /\ b.ifHighSpeed > 0 => intf[FirstWith(Shown, n)].link_state = "up"
                 /\ Whole(b.hc.ifHCInOctets) = a.in.ifInOctets
                 /\ Whole(b.hc.ifHCInUcastPkts) = a.in.ifInUcastPkts
                 /\ Whole(b.hc.ifHCOutOctets) = a.out.ifOutOctets
                 /\ Whole(b.hc.ifHCOutUcastPkts) = a.out.ifOutUcastPkts

\* ipSystemStatsTable adds up what ipIfStatsTable shows per port, when no two
\* ports share a number: all rows of IPv4, and the rows of IPv6 whose port has no
\* row of IPv4.
TotalsMatchRows ==
    /\ {"ipIfStatsTable", "ipSystemStatsTable"} \subseteq exact
    /\ \A p, q \in DOMAIN port : Number[p] = Number[q] => p = q
    => LET rows == Served("ipIfStatsTable")
           v4 == {k \in DOMAIN rows : k[1] = 1}
           v6 == {k \in DOMAIN rows : k[1] = 2 /\ <<1, k[2]>> \notin v4}
           Total(ks, c) == SumFunction([k \in ks |-> rows[k][c]])
       IN  \A c \in DOMAIN NoCounters :
             /\ Served("ipSystemStatsTable")[1][c] = Total(v4, c)
             /\ Served("ipSystemStatsTable")[2][c] = Total(v6, c)

\* A request ends the agent only while a row lacks what a load takes for
\* granted: the admin state of a shown interface, the primary address beside
\* secondary ones, the interface of a port with an address.
DiesOfIncompleteRows ==
    [][agent = "running" /\ agent' = "dead" =>
         \/ \E i \in Shown : intf[i].admin_state = Unset
         \/ \E p \in DOMAIN port, fam \in {"v4", "v6"} :
               /\ Number[p] # 0
               /\ \/ port[p].address[fam] = "secondary"
                  \/ port[p].address[fam] = "primary" /\ ~port[p].interfaces]_vars
============================================================================
