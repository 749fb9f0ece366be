# A TLA+ model of intfd

`intfd` is the interface daemon of OpenSwitch (`src/src/`, C). It watches the
`Interface`, `Port` and `Subsystem` tables of OVSDB, decides for every
interface whether the hardware should run it and how, and writes the decision
back into `Interface:hw_intf_config`, `error` and `forwarding_state`, where
`ops-switchd`, `lacpd` and the protocols read it. The repository also holds the
CLI commands of interfaces (a plug-in of vtysh), a QoS extension of them, and
SNMP sub-agents.

This directory models the daemon, the commands and views of the CLI and the
loads of the SNMP tables. `PROJECT.json` lists
the runs, the line numbers behind every definition, the hazards and the
theorems. In this file `O` is `src/src/intfd_ovsdb_if.c`, `A` is
`src/src/intfd_arbiter.c`, `U` is `src/src/intfd_utils.c`, `V` is
`src/src/cli/intf_vty.c`, `Q` is `src/src/cli/qos_intf.c`, `X` is
`src/src/cli/vtysh_ovsdb_intf_context.c`.

## 1. The system

| component | state it keeps | operations | correct when |
|---|---|---|---|
| Main loop (`intfd.c`) | none | `ovsdb_idl_run`, `intfd_run`, `intfd_wait`, `poll_block`, forever | a change is handled, sooner or later |
| Reconfiguration (`O` 1622-2172) | `all_interfaces`, `all_ports` (caches by name), `idl_seqno` | `intfd_reconfigure`: ports, then interfaces, then the arbiter; one transaction | the columns it writes are a function of the rows, whatever the batches |
| Operational state (`O` 268-1619, `U`) | per interface: parsed `user_cfg`, `hw_info`, `pm_info`, `port_admin`, `op_state` | parse a column, `set_interface_config` | `enable` and the reason agree, nothing is left over from an earlier configuration |
| Arbiter (`A`) | one object per layer: `blocked`, `owner` | for every row, layer by layer, ask the protocols, write `forwarding_state` | every row gets the decision for its own columns |
| CLI (`V`) | the selected interface (`vty->index`) | one transaction per command; `split` with a prompt | the rows say what the commands said |
| CLI views (`V` 1245-3251, 3888-4121, `Q`) | none | show commands, each a walk over rows | what is shown agrees with the rows, with what intfd applies, and with the other views |
| CLI context callback (`X`) | none | prints `show running-config` | what is printed can be entered again |
| SNMP tables (`src/src/snmp/`) | per table: a container of rows and its cache | load a table from the rows, expire it, release it | what is served is what the rows said at the load |
| REST validator (`opsplugins/`) | none | refuses to delete physical interfaces | physical rows stay |

The components interact only through the database. intfd is single-threaded:
the replica it reads changes only in `ovsdb_idl_run` and inside
`ovsdb_idl_txn_commit_block`, never in the middle of a pass. What is hard is
elsewhere:

* **batches.** A pass sees all changes since the last one, without their order,
  as "inserted", "modified" and "deleted" flags, and walks over them in hash
  order. Branches of the code exclude each other (an insertion hides a
  deletion, a deletion ends the walk), so what happens to a change depends on
  what else is in its batch.
* **caches.** Parsed configuration is kept per interface, and split interfaces
  read each other's through pointers. Locals of the walk (`split_changed`,
  `pm_info_changed`) and objects of the arbiter (`blocked`, `owner`) survive
  from one row to the next.
* **one transaction per pass**, dropped when the pass returns 0, and a result of
  the commit that nobody looks at.
* **restarts**: the caches are lost, the columns are not. **Lost connections**:
  the caches stay, and every row comes back as inserted.
* **replicas of other processes**: the CLI decides from `error`, which intfd
  writes later, and keeps a transaction open while it asks a question.
* **incomplete rows**: rows come into being before all their columns are
  written, and the SNMP loads read some optional columns without looking.

## 2. Modules

| module | models | lines of the code |
|---|---|---|
| `ArbiterDecision` | the decision of the arbiter for one row, as a definition: which layers are blocked, who owns them, the keys | `A` 37-158, 413-424 |
| `IntfForwarding` | abstract specification: `enable` and `forwarding_state` of rows change together, to complete decisions | what the arbiter promises |
| `IntfArbiter` | the arbiter, loop iteration by loop iteration, with its pass and commit | `A` 172-495, `O` 2005-2172 |
| `IntfArbiterProofs` | lemmas about the decision, theorems about `IntfArbiter` | |
| `IntfOpState` | operators: parsing, capability, reason, `hw_intf_config` | `O` 92-1619, `U`, `intfd.h` |
| `IntfOpStateProofs` | lemmas about `set_interface_config`: what it keeps, when it enables, that it forgets | |
| `IntfConfig` | one interface whose columns change in any order, configured by `IntfOpState` | `O` 1063-1098, 1650-1734 |
| `IntfConfigProofs` | theorems about `IntfConfig` | |
| `IntfReconfig` | the daemon without the arbiter: clients, batches, caches, port and interface walks, commit, restart, lost connection | `O` 378-2172, `intfd.c` |
| `IntfDaemon` | the whole daemon: `IntfReconfig`, whose passes end with the arbiter's decision in the same transaction; implements `IntfForwarding` | `O` 2005-2172, `intfd.c` |
| `IntfDaemonProofs` | theorems about `IntfReconfig`: what the daemon remembers (types, caches, transactions) and what it writes (the columns of the database); about `IntfDaemon`, its refinement among them | |
| `IntfCli` | CLI sessions and `show running-config` | `V` 72-1243, 3253-3402, `X` |
| `IntfCliProofs` | theorems about `IntfCli`: types, prompts, lanes, `show running-config` | |
| `IntfShow` | the views of the database that `IntfCli` configures, with QoS and addresses | `V` 1317-1972, 2327-3251, 3888-4121, `Q` |
| `IntfSnmp` | the loads of `ifTable`, `ifXTable`, `ipIfStatsTable`, `ipSystemStatsTable`, their caches | `src/src/snmp/` |
| `IntfSnmpProofs` | theorems about `IntfSnmp` | |
| `IntfShowProofs` | theorems about `IntfShow`: every view | |
| `Loops` | no code: what folds, concatenations and sums compute and that finite sets can be sorted, proved for every sequence and every finite set | |
| `MC*` | instances for TLC | |

Definitions keep the names of the functions they model (`set_interface_config`,
`port_parse_admin`, `del_old_port`, ...). Definitions introduced as "Mutant
of D" are D with a plausible bug; no specification uses them. They show that
the properties can fail.

### 2.1 Arbiter

`IntfArbiter` has one action per loop iteration: `PickInterface` (any row that
is left: the order is the IDL's), `LayerRun` (is the layer held down by the one
below or by the hardware?), `ProtoRun` per protocol (`ProtoBlocks` or
`ProtoReleases`), `LayerOpen`, `PublishLayer`, and `LeavePass`, `EndPass`,
`Commit` around them. `blocked` and `owner` are functions of the layer only, as
in the code, so at the start of a row they hold what the previous row left.
Commits may fail, rows come and go, the daemon may restart between any two
steps.

`LayerProtos` is the list of layers and their protocols. The code registers one
layer with one protocol (LACP); the model and the proofs are about any list,
which is what the attach functions are for. `NONE`, the owner of a layer nobody
blocks, is assumed to be greater than every protocol
(`ArbiterDecision!ArbiterAssumption`): the enumeration is in a header of another
repository, and with a smaller NONE the comparison at `A` 189 would never hand
the layer over.

### 2.2 Operational state

`IntfOpState` has no variables. `set_interface_config(intf, family)` returns the
new `op_state` and the two columns, through the same sequence as the code:
mtu, capability (with its early returns, which leave old fields of `op_state`
in place), reason, pause, duplex, `hw_intf_config`. Text is abstracted: speeds
are lists of numbers with a marker for a token that is not one, the mtu is a
number or a marker, connectors and reasons are names. Numbers in text may be
larger than an int: `atoi` narrows them (strtol of a 64-bit build) and `uint32`
is the array speeds are kept in. `IntSpan` stands for 2^31. `Connectors`, `Families`
and `intfd_get_intf_type_str` are the three tables that list module types
independently of each other.

`IntfConfig` lets one interface go through every sequence of changes of its
columns and compares the outcome with a definition that knows no history:
`ReasonIsFirstThatApplies` says what each reason means in terms of the columns,
`HwConfigFollowsRow` what each key of `hw_intf_config` is, from the rate a module
is made for (`RateOf`) to the type of that very module.

### 2.3 Reconfiguration

The environment writes user_config, pm_info, statuses and ports; each write sets
what the IDL will report (`news`, `insI`, `modI`, `insP`, `delP`, `modP`). It may
act between passes and while a commit blocks. A pass is
`StartPass` (inserted and deleted interfaces; `add_new_interface`), then
`AddPorts`, `SkipPorts`, `DeleteOnePort` or `NoOldPorts` (the four exits of the
first part of `port_reconfigure`), `PortStep` for each modified port,
`IntfStep` for each interface of the walk, `EndPass`, `Commit` or
`CommitFails`. A walk takes its rows in any order.

The uninitialized `new_user_cfg.speeds` (`O` 1629, 1692) is a free choice
(`Spurious`): comparing it may or may not report a change.

There are three faults. `CommitFails`: the writes of a pass are lost and nothing
repeats them. `Restart`: the process dies at any step, a commit on the wire may
still land, and every row is new. `Reconnect`: the connection is lost, a commit
on the wire may still land, every row is inserted again but the caches stay, so
that the INSERTED branch (`O` 1642), which does not parse `user_config`, works on
old values. `all_ports` then holds pointers to rows the IDL has freed; intfd
follows them only when a port changes or goes, so `Reconnect` is an action of
instances without such changes.

The two faults other than a failed commit count as restarts; `MaxFaults` bounds
all three together. `UserConfigs` gives every interface a set of configurations,
so that an instance can have an interface nobody configures.

Two history variables name what the code loses: `reborn`, rows whose cache entry
belongs to an earlier row or value, and `unheard`, ports that are newer than the
first pass of this life of intfd and were never walked over (`add_new_port` does
not look at their interfaces; a port that is there at a start is read with
its interfaces).

`set_interface_config` for several rows of one step is one operator,
`ConfigureAll`; what a step puts into the caches before it (`Refreshed` for a
modified port, `ModifiedCache` for a modified row) is named apart, and the
proofs speak about these names.

### 2.4 The daemon as a whole

`IntfDaemon` extends `IntfReconfig` with `forwarding_state` and the protocols'
columns. `ArbitrateAndEnd` is the end of a pass: the arbiter runs over all rows
(one step: that its loops compute `Decision` is what `IntfArbiter` shows, for any
`enable`), reads `enable` from the *open* transaction, and its result is or-ed
into the one that decides whether there is a commit. `CommitBoth`, `LoseBoth` and
`RestartDaemon` treat both kinds of columns alike, since they travel together.

The refinement maps the committed columns to `IntfForwarding`. While a
transaction is on the wire, the abstract rows and protocol states are those intfd
read (`seen`): a change that arrives during the commit takes place, in the
abstract specification, after it (`Learn`), and the commit is `Publish`. When the
process dies or the transaction is lost, what intfd had read is given up: the rows
that changed meanwhile are learned at that moment, and where the commit still lands
it is published with it. `BondStatusWrite` is the write of `bond_status` that
`IntfReconfig` counts among the statuses, with its effect on the arbiter.

### 2.5 CLI commands

A command is a function from the `user_config` of the selected interface to the
new one (`RowAfter`), used twice: by the action `Configure` and by `Restored`,
which enters the printed configuration on an empty switch. `split` changes the
Port table through `remove_port_and_references`, whose loop removes members of
the array it runs over: `MembersLeft` computes which positions it reaches.
`default_port_add`, `lag` and intfd's writes of `error` are external. So is what
vtysh passes for the word a `no` form leaves out: `cli_intf_flowcontrol` compares
`argv[1]` with "on" in both forms, and the model takes the comments at `V` 795 and
829 at their word, that `no flowcontrol` is like "off".

`cli_intf_split` opens a prompt with a copy of the row in `prompt`; until
`AnswerYes` or `AnswerNo` nothing else happens in this session, but
`OtherSession` may commit commands on the same interface or its lanes. `AnswerYes`
writes the copy, over whatever the other session committed.

### 2.6 CLI views

`IntfShow` extends `IntfCli`: its views are operators over the same variables, and
QoS settings and addresses are two more columns of a port. A configuration view
(`cli_show_run_interface_exec`, `parse_lag`) returns a sequence of the commands
`IntfCli` knows, so that it can be entered again (`EnterShown`) and compared
section by section; a table returns records. The loops keep their early exits
and their variables that are not reset: `ShowRunStep` leaves the loop after flow
control when there is a filter (`V` 1838), `show_lacp_interfaces` adds to
statistics it never clears (`V` 2577), and the address of a LAG is printed whether
it was selected or not (`V` 1671). A port without a trust mode or a schedule profile
shows the System row's (`Inherited`); the CoS and DSCP overrides have no default
(`qos_intf.c` 173-193, 254-274).

### 2.7 SNMP

State: the rows of `Interface` and `Port`, the order in which the IDL walks over
them, and per table its container and whether the cache is valid and expired.
`_cache_load(t)` is a whole load, as the agent is single-threaded: free the old
rows, walk over the rows of the database in their order, insert. It has four
outcomes: nothing to load, the complete table, a table cut off by a lack of
memory (the loop ends, the result is not negative and the library takes the
cache for valid), and the end of the agent, when an optional column is read
through NULL. `exact` is history: the tables loaded to the end since the last
change of a row; the properties compare these with the rows.

Numbers are scaled: `Word` stands for 2^32 and `Mega` for 10^6, so that both the
saturation of `ifSpeed` and the second word of a counter happen with small
values. `Garbage` is what the uninitialized `long` of the status columns may
hold. External, from net-snmp and OVSDB: `CONTAINER_INSERT` refuses an entry
whose index is taken, a cache is valid when the load does not return a negative
value, and an interface cannot be deleted while a port refers to it.

## 3. Runs

States and times are of TLC with two workers.

| run | instance | properties | shows |
|---|---|---|---|
| `arbiter_safety` | 2 rows, 2 layers, 3 protocols, 1 failed commit, 1 restart (2.8 million states, 45 s) | `TypeOK`, `Settled`, `NoForwardingWhileDisabled`, `IInv`, `RefinesForwarding` | every committed row is a complete decision about its own columns; an interface that is disabled never forwards |
| `config` | 5 kinds of interface, 7 modules, an mtu below and one above the bounds, an mtu and a speed that only an int makes valid (142,000 states, 70 s) | `TypeOK`, `ReasonIsFirstThatApplies`, `HwConfigFollowsRow` | `error` and `hw_intf_config` are what the present columns ask for, whatever the history |
| `reconfig_split` | a splittable interface, one lane, 1 fault: a failed commit, a restart or a lost connection (827,000 states, 35 s) | `SplitExclusive`, `CacheTracksRows`, `ColumnsFollowRows`, `WritesAreCommitted` | parent and lane are never enabled together, not even when a lost connection leaves the caches old; columns are a function of the rows |
| `reconfig_ports` | 2 interfaces, an L3 port, a LAG (1.2 million states, 45 s) | `ColumnsFollowPorts`, `PortCacheTracksRows` | an interface is configured as a fresh start would configure it in the port it is in, however it got there, and is disabled outside |
| `reconfig_delete` | 1 interface, a loopback, their ports come and go (343,000 states, 12 s) | `TypeOK`, `EnabledNeedsRow`, `CacheTracksRows`, `PortsAreCached` | deletions lose port changes, but never a shutdown of an interface nor a port; entries and hash nodes of the caches come and go together |
| `daemon` | 1 interface, a loopback that comes and goes, LACP, 1 fault (65,000 states, 30 s) | `DaemonTypeOK`, `ForwardingFollowsEnable`, `DaemonRefinesForwarding`, `ShutdownStopsForwarding`, `BlockStopsForwarding`, `ReadyInterfaceForwards` | the composition implements `IntfForwarding`; shutdowns, blocks and releases reach the committed columns |
| `cli` | interfaces 7, 50, 50-1, a LAG that may hold the lane, 1 command of a second session per prompt (203,000 states, 60 s) | `TypeOK`, `FlowControlFollowsCommands`, `RunningConfigRestores`, `LaneInUseNeedsSplit`, `PortAdminAgrees` | commands and printed configuration agree with each other and with the Port table, also when a prompt overwrites another session |
| `show` | the same interfaces, LAGs lag1 and lag10, 2 QoS configurations of lag1, an address of interface 50 and of lag10 (94,000 states, 60 s) | `ShowRunRestores`, `FilteredIsSection`, `HiddenIsUnusable`, `ShownIsApplied`, `LagTotals`, `ViewsAgreeWithRunningConfig` | the views agree with intfd's decisions, with each other, and can be entered again |
| `snmp` | IF-MIB: interfaces 1, 2, 2.1 in two orders; IP-MIB: ports 50-1, 50-2, 51-1; 1 change of a row, 1 lack of memory (251,000 states, 45 s) | `TypeOK`, `StatusFromNearestRow`, `IfTablesAgree`, `TotalsMatchRows`, `DiesOfIncompleteRows` | whose status, speed and counters a row shows; that tables loaded at different times agree; what ends the agent |
| `finding_*` | see section 6 | one each | a statement of the repository the code does not keep |

**Bounds.** Two rows are the smallest number with which the shared layer
objects of the arbiter can leak from one row to another, and every rule of the
arbiter compares one row with the one before it; the proofs remove the bound.
Two layers give one that is held down by the other; two protocols in a layer
give a takeover. In `IntfReconfig` a parent and one lane show every pass-on
(lanes never read each other). Two interfaces are needed for the locals that
carry over between rows. Faults are bounded by `MaxFaults` (in the arbiter by
`MaxFailures` and `MaxRestarts`): one of them, of any kind and at any step, shows
what is lost with a cache or with a write. What two faults in a row could do,
and more lanes, ports and rows, is covered by the theorems of section 5, which
hold for every bound: every safety property of the runs of the daemon is proved
as well, so the instances are kept as small as the interesting cases allow. `Events` selects which kinds of change a run
of `IntfReconfig` has, since all of them together are too many: splits and
modules, port membership, deletions. In the CLI the columns of `user_config`
are written independently of each other, so every interface has a part of the
commands. `MaxOthers` bounds the commands of the other session during one
prompt: each of them can be overwritten by itself. `IntSpan` is 2^20 in the
instances, since TLC computes with 32-bit integers: above every mtu and speed, so
that only the values meant to be narrowed are. In `show`, lag1 is a prefix of
lag10, and one interface may be in either, so that every selection by name has
something to confuse.

In `snmp` three rows give each case of a walk: the row itself, one before it, and
one with the same index (`atoi` gives 2 and 2.1, and 50-1 and 50-2, the same
number). One change between two loads makes a table stale; the two MIBs have no
state in common, so each instance polls the tables of one.

**Deadlock** is checked in every run: the environment can always act.

**Symmetry** is used in `arbiter_safety` only, whose interfaces are model values
that nothing tells apart and whose properties are invariants and a safety
refinement. Elsewhere names carry meaning (ports have the names of interfaces,
lanes have parents) or a run checks liveness.

## 4. Fairness

The main loop (`src/src/intfd.c` 276-287) runs until it is told to exit.
`poll_block` wakes up when the IDL has data, `intfd_run` then calls
`intfd_reconfigure`, which runs to its end, and
`ovsdb_idl_txn_commit_block` returns when the server has answered. This justifies
weak fairness of the steps of a pass, and nothing else: other clients owe
nothing. `IntfDaemon!FairDaemonSpec` states it with the enabling condition
written out (`PassDue`: a pass is under way or the IDL has news), because
evaluating ENABLED of a pass is slow. The liveness properties are about the
composition, since only there a change of `bond_status` alone, which gives the
reconfiguration nothing to write, is carried by the arbiter's own result. They
hold across a restart. They make an exception for lost transactions
(`failures > 0`): a write that is lost is not repeated by the code, so nothing
eventually happens after it.

## 5. Proofs

Every safety property of every passing run is a theorem, and so are both refinements
of `IntfForwarding`. The theorems hold, under the assumptions of 5.1, for every set
of interfaces, lanes and ports (every finite one in the CLI), every hardware, every list of layers and protocols,
every user configuration and module the database can hold, every number of
faults, and every order in which rows are walked over. `PROJECT.json` lists them with the property each one states.

### 5.1 Assumptions

* `ArbiterAssumption`: each layer is a list of protocols in ascending order, all
  below NONE, and there is a layer; `BoundAssumption` (`IntfArbiter`): there is an
  interface, the bounds are numbers.
* `ReconfigAssumption`: a lane is a lane of a physical interface that is not a
  lane itself; virtual interfaces have ports of their names; the ports at the
  start are those of physical interfaces.
* `ConfigAssumption`: the columns and the hardware description
  have values of the types the parsers are written for; a speed list of the
  hardware has at least one entry and no more than the array it is parsed into,
  and each entry fits an int. `IntAssumption`: an int has values.
* `MtuAssumption`: an int holds every mtu the CLI accepts.
* `CliAssumption`: there are finitely many interfaces and LAGs; commands are what
  the grammar of vtysh lets through (`Grammar`; the mtu is any number, as `strtol`
  reads it); a splittable interface is one that has lanes, and no lane has lanes;
  names differ and have one of the forms `compare_nodes_by_interface_name_and_tag` tells apart (`NameForm`);
  the name of a lane has the number of its parent's name and a greater extension
  (`LanesFollow`: 50 and 50-1).
* `ShowAssumption`: link speeds, queue lengths and the statistics a row has are
  numbers.
* `SnmpAssumption`: states and counters of a row have the types of the schema, a
  walk meets every name once, a port that has interfaces has one that exists, and
  `Word` and `Mega` are positive.

These are assumptions about the modules' constants, and TLC evaluates them in
every run. Five theorems state one thing more, which their comments repeat:

| theorem | assumes | because |
|---|---|---|
| `ColumnsFollow` | no change of a port | with deletions the columns do *not* follow the rows (section 6) |
| `PortsAreFollowed`, `PortCacheTracks` | no Port row is deleted, no loopback comes or goes | the same; `EnabledAsConfigured` and `PortsStayCached` say what holds then |
| `EnabledAsConfigured` | `SplitIsPluggable`: an interface with lanes takes a module | a lane takes the module of its parent, and a parent with a fixed connector would say the lane has none |
| `LanesNeedSplit` | `LagsTellLanes`: no member of a LAG has a name with which a lane's begins | `no split` removes such a member and passes over the lane (section 6) |

`reconfig_split`, `reconfig_ports`, `reconfig_delete` and `cli` are instances of them.

### 5.2 The arbiter (`IntfArbiterProofs`)

`Settled` is not inductive, because it speaks of passes that are over. `IInv`
says what holds in the middle of one: rows already visited hold their decision
(`VisitedInv`), the layers of the current row below `lay` are decided and their
keys are in the local smap (`CurrentInv`), the protocols already asked do not
block and *own nothing* (`ProtoInv`), a layer about to be published is right
(`PublishInv`), uncommitted writes exist only in a pass that will commit
(`PendingInv`). The heart of it is `ProtoInv`: `blocked` and `owner` at the
start of a row are arbitrary, left by another row, and the loop over the
protocols is right only because a protocol that does not block gives up
ownership when its turn comes, so that at the end the owner is NONE or the first
that blocks. `FirstBlockerIs` and `ProtoFacts` relate the loop to the CHOOSE in
`ArbiterDecision`. The invariant was found with TLC (`arbiter_safety` checks it)
before it was proved. For the refinement (`ArbiterRefines`) every step of a pass
but the commit is a stutter, the changes of rows and protocols are `Learn`, and
`CommitDecides` says that the commit is a `Publish`: a set of complete decisions.

### 5.3 One interface (`IntfOpStateProofs`, `IntfConfigProofs`)

`set_interface_config` writes into the `op_state` it reads, and leaves fields of
it in place when it returns early, so it is not obvious that its result is a
function of the configuration. `OutcomeIgnoresHistory` proves that it is, for every
interface that is not virtual: two ifaces that agree in everything but `op_state`
are given the same columns. `EnabledHasNoReason` lists what an enabled
interface cannot have. Both go through `NewOpStateIs`, which names the three
states of `op_state` within a call. All later proofs use these lemmas and never
expand `set_interface_config`.

`IntfConfigProofs` has an invariant of two parts: the row has its columns
(`RowInv`), and the iface holds what the row says, its columns having been computed
from exactly that by some call, whatever `op_state` was then (`IfaceInv`).
`ReasonIsFirstReason` and `HwConfigFollows` follow by taking that last call apart
(`CallInv`): for the first, every entry of `Reasons`, the list of documented reasons
in order, is matched with the condition of the code that gives it (`ApplyingIs`,
`ReasonIsFirst`); for the second, `SpeedsOutcome` and `AutonegIs` relate the two
steps that compute speeds and autonegotiation to their definition, `SpeedsParsed`
and `MtuParsed` the parsed values to the numbers in the row. The speeds of an
interface without user speeds are `RateOf` its present module and its type is that
module, so a value of an earlier module or list cannot be left behind.

### 5.4 Reconfiguration (`IntfDaemonProofs`, first part)

The invariants are layers, each of which uses those below it. For each there is a
lemma per action or group of actions, and a lemma `...Step` that puts them
together.

| invariant | says | for |
|---|---|---|
| `TypeInv` = `ReplicaInv`, `BatchInv`, `CacheInv`, `LocalInv` | types; an interface is in one port; what the flags of a batch may hold at each place of a pass; an iface is cached with the type and hardware of its row | `TypeCorrect` |
| `TracksInv` | a cached row is fresh, or its change is still to be handled (`Pending`, which depends on where in the pass intfd is), or it is in `reborn` | `CacheTracks` |
| `PortsInv` | every port is cached, or an insertion is going to be noticed | `PortsStayCached` |
| `PortCacheInv` | a cached port has the members of its row, or its modification is still to be handled | `PortCacheTracks` |
| `WriteInv` | a pass that has not counted a change has written nothing, and `split_changed` and `pm_info_changed` give it no reason to write for lanes | `WritesCount` |
| `LinkInv` | an interface intfd has looked at has its split pointers; the physical interfaces enter the cache together | the rest |
| `EnabledInv` | an enabled column is one for which the *caches* give no reason against it | `EnabledAsConfigured` |
| `SplitInv` | parent and lane are not both enabled, in the open transaction and in the database | `SplitIsExclusive` |
| `LaneInv` | parent and lane agree on whether there is a module, or the lane is ahead of its parent within this batch | `EnabledAsConfigured` |
| `FixedInv` | every column is what `set_interface_config` gives for the caches as they are now (`Sync`) | `ColumnsFollow` |
| `HeardInv` | the same for interfaces in a port that was walked over; outside a port nothing is enabled, and no port is "up" in the cache | `PortsAreFollowed` |

`SplitIsExclusive` is the one that matters most for the hardware. Two separate
calls compute the columns of a parent and a lane, each from the caches at its
time, and a change of one row recomputes the other only through
`split_changed`. The proof does not follow the calls: by `EnabledInv` an enabled
parent means `no-split` and an enabled lane means `split` in the cache *as it is
now*, in every state of a pass, and the two exclude each other. That
`EnabledInv` survives a change of `lane_split` is exactly what `split_changed` is
for (`IntfStepEnabled`). As it speaks of caches and not of rows, it also survives
a lost connection, which leaves the caches old.

`CacheTracks` needs the most careful statement: a change can arrive while a commit
blocks, and whether it survives depends on which flags it sets beside which
others. `Pending` says for every value of `pc` which flags still count.

### 5.5 The daemon (`IntfDaemonProofs`, second part)

`DaemonReconfigures` proves that the composition is a behaviour of
`IntfReconfig`, so that all its theorems hold of the daemon (`DaemonKeeps`).
`ForwardingInv` adds what the two halves of a transaction have to do with each
other: while it is on the wire, `forwarding_state` in it is the decision about the
`enable` in it and the protocols' columns that were read (`TransactionInv`); rows
intfd has not read have empty columns in both (`UnknownInv`). `ForwardingFollows`
is its consequence for a daemon at rest. `DaemonRefines` maps each step: walks
are stutters, changes by others are `Learns`, and a commit is `Publishes` what
`TransactionInv` says about it; `WalksWrite` shows that a walk changes no
column outside the open transaction.

### 5.6 The CLI (`IntfCliProofs`, `IntfShowProofs`)

Three invariants, each of which uses the ones before it:

| invariant | says | for |
|---|---|---|
| `SessionInv` | the rows agree with the directions of flow control that are on now (`RowsInv`), the `user_config` an open prompt will write with those that were on when it was asked (`PromptInv`); the port's admin state is the interface's, or is in `undone` (`AdminInv`) | `PauseFollowsCommands`, `PortAgrees` |
| `ColumnsInv` | every row is one the readers accept, ports that are gone have nothing left, members are lists without repetition | `CliTypeOK`, and all theorems about views |
| `LanesInv` | the selected interface may be selected, and a lane in use has a split parent | `LanesNeedSplit` |

What a command makes of a row is one lemma, `RowAfterIs`; the case of flow control
(`FlowcontrolIs`) goes through the four values of `pause`. `AnswerKeeps` covers the
answer with every mixture of old and new rows the replica may give. For
`LanesNeedSplit` the loop of `remove_port_and_references` must be shown to miss no
lane although removing a member shortens the list it walks over: it passes over one
entry only after removing a LAG member by prefix, which `LagsTellLanes` excludes.

**Printing and entering.** `RunningConfigIsRestored` and `ShowRunIsRestored` relate
two loops: the one that prints the rows, sorted by name, and the one that enters
the lines. The sorted list exists and puts every parent before its lanes
(`CanBeSorted`, `NamesAreOrdered`). The section of a row selects it and makes of an
empty row the row that was printed (`Makes`, one lemma per command:
`LinesOfParts` puts them together), and writes no other row; where the interface is
a lane this needs that its parent's section has been entered (`RestoresRow`). Along
the list the rows printed so far are restored and the others still empty
(`RowsAreRestored`), by induction over the number of sections, for which
`ResultOfFlatten` takes the loop over all lines apart into loops over sections.

**Views and the daemon.** `ShownApplied` and `HiddenAreUnusable` connect the CLI with
the daemon: under `ColumnsInv` a row holds only values that `ShownConfig` and
`intfd_parse_user_cfg` read alike; `EnabledApplies`, from the lemmas of 5.3, says
what an enabled interface is given, and the errors `lanes_split` and
`lanes_not_split` are shown to be exactly the two conditions in which a view leaves
a row out.

**Views among themselves.** The output of `show running-config interface` is a
concatenation of one section per row and per LAG (`Parts`, `Around`). With a
name, the loop does nothing for every row but one (`ResultOfOne`), which gives that
section, and finding the section in the whole output gives the same
(`ShownIsSection`): a section starts with its own `interface` line, and no line
inside it starts another. `NameGivesSection` is that statement.
`ViewsAgree` needs an invariant of its own, `OneLag`: an interface is in one
LAG, since "lag" takes it out of the others. Then what a section says (`SectionSays`)
and what the QoS and address views say about a port come from the same row.
`TotalsAreOfMembers` follows from `SumOfLoop`: a loop over a list without
repetition adds what the sum over the set of its elements is, for each of the
statistics, the speeds and the queue.

### 5.7 Loops (`Loops`)

The loads and views are loops over rows, in the model `FoldLeft`. The library
defines it by recursion over data, which the provers cannot unfold; what follows
is proved here from sets. `InductionOnNat` is induction on a *set* of numbers (the
induction theorems of the library take a predicate, which the provers cannot
instantiate): if a set holds 0 and with every number the next, it holds all. From it
follows that the defining equation of a fold has a solution (`FoldExists`), hence
that the fold satisfies it, and `FoldRuns`: the values of the loop variables after 0,
1, 2, ... elements form a *run*, each made by a step from the one before, and the fold
is the last. A property of a load is then an invariant of a run, proved like one
of a specification. `SumOfMore` does the same for sums over finite sets, whose
definition takes the elements in an order CHOOSE gives: the sum does not depend on
it, and `SumOfLoop` says that a loop which adds up a list gives that sum.

A loop over a concatenation is a loop over its second part from the result of the
first (`ResultOfConcat`), over a list of lists a loop of loops (`ResultOfFlatten`),
and one that does nothing for all elements but one makes a single step (`ResultOfOne`).
`CanBeSorted` says that every finite set with a strict total order has the list
that the CHOOSE of a sort asks for. `Loops` writes `FoldLeft`, `SetToSeq` and
`FlattenSeq` down itself, with the library's definitions, because the modules that
use it make an instance per loop, and an instance copies everything that is extended.

### 5.8 The SNMP tables (`IntfSnmpProofs`)

`SnmpInv` has three parts: rows of the types of the schema and a fixed order
(`RowsInv`), empty containers of caches that are not valid (`CacheInv`), and, for
every table in `exact`, that its container is what a load of the *present* rows
gives (`ExactInv`), as the four table properties are about. They then follow from
what a load computes:

* `SnmpStatus`: the invariant of the run of `ifTable_container_load` says, after k
  rows, whose status the two variables hold: of the last shown interface that has
  one, or what was there at the start. `Inserted` keeps the first entry of an index,
  so a row of the container is that of the first interface with the number.
* `SnmpIfTables`: both loads shown to append a row for the same interfaces in the
  same order, hence the same one of those with equal numbers; the rest is arithmetic
  of the saturation and of the two words.
* `SnmpTotals`: the loads of `ipIfStatsTable` and `ipSystemStatsTable` side by side.
  After k ports, the sums are those over the rows inserted so far; a port adds one
  or two rows and counts once. Distinct numbers make the rows distinct.
* `SnmpDies`: a load only sets its fault at a row of one of the three kinds.

### 5.9 What stays with TLC

* The liveness properties (`ShutdownStopsForwarding`, `BlockStopsForwarding`,
  `ReadyInterfaceForwards`): fairness and ENABLED are beyond the prover.
* The findings, which are counterexamples.

## 6. What the code does not keep

Each has a run whose counterexample shows it; PROJECT.json quotes the lines.

* `finding_child_module`: a change of a module's `connector_status` does not
  reach the lanes of a split interface, only a change of its type does
  (`O` 1709, 1739).
* `finding_lag_delete`: interfaces of a deleted LAG stay enabled, because
  `del_old_port` looks for an interface with the LAG's name (`O` 1129).
* `finding_cli_split`: splitting interface 50 takes interface 5 out of its port
  (`V` 1075).

Observations without a run of their own:

* A change of `user_config` or `pm_info` made while intfd's connection to the
  database was down is not applied until the row changes again: the row comes
  back inserted, and that branch does not parse it (`O` 1642). The same happens to
  a loopback that is deleted and created again within one batch.
  `CacheTracksRows` names exactly these rows; `SplitExclusive` holds all the same.
* The interfaces of a port that is created with them are configured only if the
  IDL also counts the new row as modified, or with the next change of the port:
  `add_new_port` does not look at them (`O` 1033-1060). `ColumnsFollowPorts` makes
  the exception.
* A port set down in the same batch as the deletion of another port stays up in
  the hardware: the deletion ends the walk over ports and `idl_seqno` advances
  (`O` 1981, 1989). `EnabledNeedsRow` states what does hold then.
* An interface that leaves its port is disabled with an empty `error`
  (`O` 1916); the cached `op_state` still says it runs.
* The columns of a virtual interface may depend on what it was before: an mtu or
  speed list that is refused ends the capability check early but does not disable
  it, so its earlier autonegotiation stays (`OutcomeIgnoresHistory` is about the
  others).
* After a lost connection the parent of a lane may miss that its module came and
  went, so that the two disagree about it. `EnabledNeedsRow` makes the exception.
* `interface_type` is "unknown" for CLR4, PSM4, CWDM4 and LRM modules, which are
  otherwise supported: a case is missing in one of the tables
  (`U` 112-175, `O` 312-374). `HwConfigFollowsRow` names exactly these.
* A number that does not fit an int is not refused: an mtu of 2^32 + 1500 in
  `user_config` is programmed as 1500, and a speed likewise (`O` 467, 714). The CLI
  lets no such mtu through. `Applies` and `UserSpeeds` follow the code.
* An entry of `all_ports` that outlives its port (only one is removed per pass)
  keeps the members of the old port when a port of that name comes back
  (`O` 1967, 1989). `PortsAreCached` says that no port is missing; that members
  are right is `PortCacheTracksRows`, for ports that are not deleted.
* After a failed commit `hw_intf_config` stays wrong until the row changes again
  (`O` 2110, 2167), and `SplitExclusive` may fail. The properties of the database
  say `failures = 0`. The arbiter's columns heal with the next pass.
* Right after `split`, and before intfd has written `error`, selecting the parent
  gives it a port again (`V` 3337-3346).
* With 50 and 50-1 in one LAG, in this order, `no split` removes 50 and skips
  50-1 (`V` 1073-1079). `LaneInUseNeedsSplit` is checked and proved for LAGs in
  which no name is a prefix of a lane's.
* The answer to the prompt of `split` overwrites what another session committed
  to `user_config` of that interface in the meantime (`V` 1150-1175); the port's
  admin state, written by the same command, stays (`PortAdminAgrees` makes the
  exception). The prompt never ends when its input does (`V` 1195).
* A split interface keeps its mtu, speed and flow control but cannot be given
  them: `show running-config` prints them after `split`, where they are refused.
  "autonegotiation on" is never printed (`X` 264-267). `Printable` in `IntfCli`
  states both exceptions.
* `show running-config interface NAME` stops after flow control (`V` 1838);
  `show running-config interface lag1` also prints lag10, and the addresses of all
  LAGs (`V` 1604, 1671). `FilteredIsSection` states what remains.
* The commands of lanes whose parent is not split are printed; only `exit` keeps
  them from being applied to another interface on entry (`V` 1937).
* The queue view shows an interface that was never configured as up, where all
  other views and intfd have it down (`V` 2875). "auto-negotiation on" is shown
  for modules that have none.
* `show interface` of several LAGs would add up their statistics (`V` 2577); every
  way into that view selects one. `show interface brief queues` hands the word
  "brief" to the queue view as a name (`V` 3797).
* SNMP: an interface without a link state shows the operational status of
  another one, or an uninitialized value (`ifTable_data_access.c` 60;
  `StatusFromNearestRow` says whose).
* SNMP: interfaces with equal numbers (2 and 2.1; ports 50-1 and 50-2) share an
  index, and the first in the walk is the one that is shown.
* SNMP: IPv6 traffic of a port that also has IPv4 is missing in the totals of
  `ipSystemStatsTable`, and `OutOctets` of IPv6 adds up packets
  (`IP_MIB_custom.c` 259-276).
* SNMP: the agent ends when a row lacks `admin_state`, has secondary addresses
  only, or is a port with an address and no interface
  (`ipSystemStatsTable_data_access.c` 162), which is what `finding_cli_split`
  leaves behind. `DiesOfIncompleteRows` shows that nothing else does it.
* SNMP: after a lack of memory the part that was loaded is served as a valid
  table until it expires. `exact` excludes it.

## 7. Not modelled

* A second intfd that takes the OVSDB lock. A lost connection in a switch whose
  ports change: `port_info` points to rows that are freed, and what the code does
  with them is undefined.
* Process setup, options, unixctl commands, the debug dump: no state of the
  system depends on them.
* Views of transceivers and their diagnostics (`V` 2057-2325, 3407-3708) and of the
  management interface (`V` 1975-2044): formatting of columns nothing else in the
  repository writes or decides from. The lines of OSPF, DHCP relay, UDP forwarder,
  sFlow, LACP parameters and VLAN trunks within an interface's section, each
  printed from a table of another repository. VLAN interfaces, loopbacks and
  sub-interfaces are created by commands of other repositories.
* SNMP: columns that are constant, the mtu, the physical address and the names;
  the generated glue that registers the tables, looks a row up in the container
  and copies one column into an answer, and the net-snmp library behind it. Two
  things it does can be seen without a model: the index columns are not
  accessible (`_ifTable_get_column` has no case for ifIndex and answers
  noSuchInstance), and the 64-bit columns of IP-MIB are passed on as one
  `unsigned long long` where `ifXTable` passes a structure of two words
  (`ipIfStatsTable_interface.c` 326); what the library makes of them depends on
  its build.

## 8. Plan

Done: the arbiter with its proofs; operational state, with the proof that it does
not depend on history; reconfiguration with restarts and lost connections, every
safety property of its runs proved; the composition of the two with the proof that
it implements `IntfForwarding`; commands and views of the CLI with a second
session; loads of the SNMP tables. Every safety property of the passing runs is
proved.
