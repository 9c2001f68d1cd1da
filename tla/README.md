# A TLA+ model of USBGuard

USBGuard decides which USB devices a machine uses. This directory holds TLA+ modules
that model the daemon, its library and the programs that use it, TLC
configurations that check them on small instances, and TLAPS proofs of what matters
most for instances of every size. Definitions are translated from the C++ under
`src/src/`; `PROJECT.json` gives the source lines of each one.

## The system

| Part | State | Operations | Interacts with |
|---|---|---|---|
| Policy (`Policy`, `RuleSet`) | the rule sets, the static ID counter `_id_next`, the implicit target | append, remove, upsert (permanent decision), list, first matching rule | rule files, device manager (IDs), IPC |
| Rule files (`FileRuleSet`, `RuleSetFactory`, `NSHandler`) | one file per rule set | load at start; save: truncate, then write line by line | policy |
| Rule language (`RuleParser`, `RulePrivate`, `Rule::Attribute`) | the rule being parsed | parse, print, match a device, generate a rule for a device | files, IPC, policy |
| Rule conditions | a bit per condition; time, device targets, counters | update, evaluate | rule sets, device map |
| Device manager (`UEventDeviceManager`, `DeviceManagerBase`) | path map, device map, backlog, `_enumeration` | scan, insert, present, remove, apply a target | kernel (sysfs, uevents), daemon hooks |
| Daemon hooks (`Daemon::dmHook*`) | – | evaluate the policy for a device, apply, signal | policy, device manager, IPC |
| IPC server and access control | connections and their privileges, maps of users and groups | authenticate, execute a method, broadcast | clients |
| IPC client | connection, `_return_map`, client thread | connect, call with a time-out, receive, disconnect | server |
| Daemon process (`main`, `daemonize`, `run`) | three processes per start, PID file, lock, signal | start, fork, lock, write, report, stop | service manager |
| usbguard-dbus | main loop, bridge, timer | acquire the name, connect, forward calls | IPC client, D-Bus, polkit |
| usbguard watch | connection loop, thread, processes | connect, wait, sleep, start an executable for an event | IPC client |
| allow-, block-, reject-device | devices still to be asked for | list by query, one request per device | IPC, daemon hooks |
| Audit trail (`AuditEvent`, backends) | the event being recorded | construct, move, commit, destroy | daemon hooks, Linux Audit |
| Devices (`DeviceBase`, `USBDescriptorParser`) | device object, hash | read sysfs, parse descriptors, hash | device manager, rules |
| Uevents (`UEventParser`) | event being parsed | header, attribute, print | device manager |
| Files (`ConfigFile`, `KeyValueParser`, access control, `PolicyGenerator`, LDIF) | text, settings | parse, set, write, add and remove users, generate | daemon start, CLI |

What makes it hard to get right:

- The main thread (initial scan), the uevent thread and the IPC thread work on the same
  device map and the same ID counter, mostly without a common lock.
- Devices come and go faster than their uevents are read; a path may by then belong to
  another device; a hub takes its children with it.
- A save is many writes; the daemon may die between any two of them.
- A rule passes through text whenever it is stored or sent.
- Conditions are evaluated one after another in a world that changes meanwhile.
- A call over IPC may time out, be refused, be lost in a full queue or outlive its
  connection.
- A start of the daemon is three processes that hand over a lock, a file and a signal.
- A command about several devices makes the later ones disappear by its first request.
- An audit event is committed on some path or other, or by its destructor.
- What one program writes as text (rules, LDIF, settings, privileges) another reads.

`PROJECT.json` lists these hazards at the lines where they arise, with the properties
that cover them.

## Modules

`MC*.tla` give constants values for TLC; `*Proofs.tla` hold theorems, and
`DeviceManagerInvariant` and `DeviceManagerSteps` the lemmas of `DeviceManagerProofs`.

### Policy

`rulesets`, `idNext`, `implicit` are the data members; `files` the rule files;
`saveSet`, `saveOpen` say where `Policy::save` is; `reply` is the IPC request in progress
or last answered. A rule is an ID and a body, and a body is reduced to what the
operations tell apart: the devices, ports and parents it matches, whether it has
conditions, and its target.

| Action | Code |
|---|---|
| `AppendRule`, `RemoveRule`, `UpsertDeviceRule`, `SetImplicitPolicyTarget` | the methods of `Daemon` and what they call in `Policy` and `RuleSet`, errors included |
| `SaveOpen`, `SaveOpenFails`, `SaveLine`, `SaveClose` | `FileRuleSet::save` |
| `Restart` | death at any point, then `Daemon::loadRules` |
| `AssignDeviceID`, `ConditionsChange` | the device manager's thread; time and devices |

An ID is assigned in one step here. IPC requests are handled by one thread, so a request
is not interleaved with another.

`DurablePolicy` is the abstract specification: a list of rules per rule set, what is on
disk of it, and the answer to the last request. A request inserts, removes or replaces one
rule; a file under way holds the first rules of its set; "ok" after a save means that disk
and memory agree; a crash brings back the disk. `PolicyRefinement` maps `Policy` to it by
forgetting IDs, devices and the progress of a save.

### IdAllocation

The loads and stores of `_id_next`: `AppendLoad` … by the IPC thread
(`Policy::appendRule`, then the maximum in `RuleSet::appendRule`), `InsertLoad` … by the
threads that insert devices under the mutex of the device map, and the reset that an
evaluation of an LDAP rule set makes. It splits what `Policy` and `DeviceManager`
treat as one step.

### DeviceManager

`kern` is the kernel: at every sysfs path a device (identified by the generation of the
path), its authorization, and what the policy says of it. `sock` is the netlink socket,
`backlog`, `enumeration`, `ids`, `devmap`, `obj` the members of the device managers.
`job[t]` is the insertion, removal or request that thread `t` is in, with one step for
each piece of code between two points where another thread can intervene: look the path
up, build the device, insert it, learn its path, evaluate, get the device, write to
sysfs, set the target, signal. Reading and writing sysfs fails when the device of that
generation is gone (`On`), as `SysFSDevice` does with its directory descriptor.

### Administration, AuditTrail

`AuditTrail` has the audit event as the class has it: construction, keys, move, commit,
destruction, and the messages of the Linux backend. `Administration` composes
`DeviceManager` with it and with `usbguard allow-device` and its like: every step of a
hook or request of `DeviceManager` carries the audit records that the code around it
commits (`AuditedStep`), and `cmd` is a command that asks for one device by ID or lists
devices by a query and makes one request after another, while devices come and go.

### RuleMatching, RuleLanguage

`RuleMatching` has the set operators, `appliesTo` and the wildcards of IDs and interface
types as operators. `RuleLanguage` is the parser as a machine that is fed tokens, the
printer, and the generation of a rule from a device. Strings are sequences over six
classes of characters, as many as quoting tells apart, so escaping is modelled by what
it does.

### RuleEvaluation

`getFirstMatchingRule` for a device under the rule set's mutex, one step per condition;
clients change targets and the clock ticks in between; `Apply` writes the target later.
The state of the conditions is a word of `Width` bits, written as the set of the bits
that are set. A shift by the width, undefined in C++, has either result.

### AccessControl, IPC

`AccessControl` has the privileges, the maps of users and groups, which are filled with
`IPCAllowedUsers` and `IPCAllowedGroups` (all privileges) and then with the access control
files, and the matching of a connection. Loading and merging only ever add privileges,
and `std::map::emplace` keeps the first entry, so they are written as unions and as the
choice of the first entry instead of as loops. `config` of `IPC` is the configured
users, the configured groups and the files. `IPC` extends it by server, clients and two
bounded queues per connection. A full queue drops what is sent, and both sides ignore
that. libqb is external and modelled by how it is used.

### DaemonProcess, Services

`DaemonProcess` follows each start of `usbguard-daemon` through `main`, `daemonize` and
`run` as up to three processes, any of which may be killed. The wait of the original
process for SIGUSR1 can be interrupted and its signal be lost to that of another process;
an interruption that leaves time changes nothing, a later one makes the timeout negative
and the process spins (`Interrupted`). `Services` composes it with an IPC connection and
with `usbguard-dbus` or `usbguard watch --wait`. These two do not interact, so a behaviour
has one of them. A socket that is bound and not served blocks a client that connects; in
`usbguard-dbus` that is the main loop (`bus.blocked`).

### Formats

Parts of the program that work on their own, composed into one specification by the
variable `topic`, since none shares state with another:

| Module | Models | State |
|---|---|---|
| `RuleLanguage` | see above | the rule being read, what is left of the text |
| `PolicyGeneration` | `usbguard generate-policy` with its options, as a rule file or as LDIF with a name prefix, and loading it from either on a host it is for or not | `generator`, `policy` |
| `DeviceObject` | `DeviceBase`: sysfs attributes with retries, the descriptor stream with sizes and hierarchy, interface types, what the hash is made of | `device`, `stream` |
| `UEvents` | `UEventParser` and `UEvent`: header, attributes, printing | `uevent`, `ueventText` |
| `Codecs` | Base64 and the encoding of audit values, byte by byte | `data` |
| `ConfigText` | the configuration file parsed, changed, written and closed; nsswitch.conf and the LDAP file, and the source of rules that follows | `configFile`, `config`, `rules` |
| `AccessControlFiles` | `usbguard add-user`, `remove-user`, and the next start of the daemon | `acDir`, `granted`, `loaded` |
| `DeviceTree` | the tree of `usbguard list-devices`, with the recursion as a stack | `listed`, `stack`, `printed` |
| `SignalWatcher` | `usbguard watch --exec`: two threads that report events, the two forks for each, the environment | `executable`, `reporter`, `started`, `tally` |

Text is a sequence of the characters or words that the code tells apart. The hash
function is not modelled: a hash is the sequence of what was hashed.

## Runs

Every run is `tlc -config <cfg> <MC module>`. "Violation" runs check one property that a
comment or document of the repository states and the code does not have; `findings` in
`PROJECT.json` quote it.

| Run | Question | Instance |
|---|---|---|
| `policy` | Do IDs stay unique, does evaluation follow the listing, does an acknowledged permanent decision survive edits, crashes and reloads, can the files always be loaded; is all this a durable list of rules (`DurablePolicy`)? | 2 rule sets, 2 devices, 2 ports, IDs below 5, so that they run out |
| `id_allocation` | Does the counter stay in range whatever updates are lost; does the device map's mutex keep device IDs apart while no rule is appended? | 2 inserting threads, the IPC thread, LDAP, IDs below 8 |
| `id_allocation_race` (violation) | Are device IDs unique while rules are appended? No: the update to the maximum is a load and a store. | as above, no LDAP |
| `device_manager` | When all events are used up, do the device map, the clients and the kernel agree, and is every device in the configured state? Is every device that stays processed? | a hub and a device behind it, up to 4 devices over time, paths reused while their events are pending |
| `administration` | Do requests that race with events leave a target that is not the state in the kernel; does the audit log tell what was done and which devices are present; when a command succeeds, does every device it was about have the target or is gone? | a hub and a device behind it, up to 3 devices, one command by ID or query, a path reused only after its events were read |
| `device_manager_fixed` | Is a device that is present throughout tracked once and decided, although events race with the scan? | a fixed hub and a device behind it |
| `device_manager_startup` (violation) | Does every event that arrives during the scan get processed? No: one may be appended to the backlog after it was worked off. | as above |
| `device_manager_errors` (violation) | Is a device whose insertion fails rejected? No: the fallback uses a moved-from object. | errors in every step |
| `formats` | Is what is printed read back (rules, encodings, uevents, settings); do operators match as documented; do generated rules and policies, also by way of LDIF, apply to their devices; are interface types complete and hashes stable; is the source of rules the configured one; are exactly the granted privileges in force after a start; is the device tree complete; does each event start one executable that is told of it? | rule texts of up to 2 values, 4 devices, up to 5 descriptors, 3 attributes, 4 bytes, 8 configuration files, 3 commands, 6 devices of a tree, 2 connections with 4 events |
| `rule_evaluation` | Is a rule chosen or passed over by what its conditions were found to be; does "only if none is allowed" allow one device at most? | 3 devices, 5 rules with every operator, as many and more conditions than bits (`Width` 3) |
| `ipc` | Do methods run and signals arrive only with a privilege that the configuration or a file gives; does a call return what became of its own request and leave no slot behind; does every call return and every connection end once? | 1 client, 2 calls, 2 connections, 2 signals, 1 daemon restart, queues of 2, 5 configurations, 2 accounts |
| `services` | Is there one daemon at a time; does success mean that the PID was written; do all starts end, but for those whose wait is interrupted too late; are D-Bus calls answered; do usbguard-dbus and watch find a daemon that stays? | 2 starts, the second with a shorter PID, 1 kill or lost connection, any interruptions, 1 D-Bus call |

Every property has a mutant in `PROJECT.json`: a change of one definition, such as a
plausible mistake would make, under which TLC finds the property violated.

### Why the bounds are enough

- IDs run out in `policy` and `id_allocation`, so the limit is met from both sides.
- A path reused twice with the first event unread needs three generations at one path;
  `device_manager` has four for two paths. The hub shows what a removal does to children
  and what a missing parent does to an insertion. More devices act like these two, since
  threads share only the maps, which are indexed by path and ID.
- Two values per rule text are what is needed to tell operators apart; three parts of an
  interface type are what the wildcards concern.
- The word of the conditions has 3 bits, so that rules with fewer, as many and more
  conditions occur.
- IPC clients share nothing but the server's sequential loop. Two calls and two
  connections allow a late reply to meet a later call.
- Two starts are what a lock can be contended by.
- Five descriptors allow two configurations with interfaces, four bytes a full and a
  padded group of Base64; three attributes a contradiction to the header and a repetition.
- Three access control commands allow a file to be written, rewritten and removed.
- Two connections with four events allow an event of the first to meet the second.

`MaxPlugs`, `MaxRequests`, `MaxIDs`, `MaxCalls`, `MaxSignals`, `MaxConnects`, `MaxStops`,
`MaxFaults`, `MaxValues`, `MaxTime`, `MaxPresent`, `MaxDescriptors`, `MaxAttributes`,
`MaxBytes`, `MaxCommands`, `MaxPrinted` and `MaxConnections` are bounds of the model, not of the program.
Deadlock is not checked where a bounded behaviour ends (all runs but `policy` and
`rule_evaluation`).

### Fairness

- `DeviceManager!FairSpec`: weak fairness of the scan, the uevent thread and of every
  thread in its job. They are loops without conditions; a device mutex is held for one
  write. Plugging and requests have none.
- `IPC!FairSpec`: weak fairness of the calling thread, including its 15 s time-out. The
  server and the receiving thread have none: a call returns even if they do not run.
- `Services!Spec`: weak fairness of each process, of the loop of watch, and of the sources
  of the main loop of usbguard-dbus, which serves them all whenever it is not blocked.
  Starts, stops, interruptions and kills have none. Polkit is assumed to answer: its
  synchronous query (`DBusBridge.cpp:482`) has no time-out of its own.

The remaining runs check safety without fairness.

## Proofs

| Theorem | Statement | Inductive invariant |
|---|---|---|
| `PolicyProofs!TypeCorrect` | `Spec => []TypeOK`: no ID reaches the reserved values | `IdInv` |
| `PolicyProofs!RuleIdsStayUnique` | `Spec => []RuleIdsUnique` | `IdInv`: types, all IDs are below `idNext`, all IDs differ. Uniqueness alone is not inductive: a new ID differs from the old ones because these are smaller. The reload needs that the places before a place can be counted (`BeforeCounts`). |
| `PolicyProofs!PolicyImplementsDurable` | without write errors, `Spec => PolicyIsDurable`: `Policy` implements `DurablePolicy` | `SaveInv` with `IdInv`: the files of the rule sets that a save has passed hold their rules, and the one it is writing holds their first lines. Every action is shown to map to one step of the abstract specification or to a stutter; what remains is that inserting, removing or replacing the rule with an ID does the same to the list of bodies. |
| `PolicyProofs!DecisionsHold` | with `RuleFile` and without write errors, `Spec => []DecisionHolds` | `DecisionInv` with `SaveInv`: once a decision is acknowledged everything is on disk and the rule of the device decides. The step that matters is the restart: what is loaded from files that hold the policy decides alike (`LoadKeepsDecision`). |
| `IPCProofs!CallsAccountedFor` | `Spec => []CallsAccounted` | `CallsInv`: IDs are used in order, so a request in the queue is younger than all that were executed or denied, the one slot belongs to the call in progress, and every answer in a queue, a slot or a result is what became of the request with its ID |
| `IPCProofs!PrivilegesAreRespected` | `Spec => []PrivilegesRespected` | `AccessInv`: a connection has only privileges that the configuration or a file grants, and so have the signals in the queues. Below it: an entry that is not configured comes from a file that was loaded and has its key (`EntryFromFile`, by the least element of a set of numbers), a key that matches belongs to a configured name or a file that names the client (`MatchedNames`), and a privilege comes from a line (`PrivilegeFromLine`). |
| `DeviceManagerProofs!TypesKept` | if `Undisturbed`, `Spec => []TypeOK` | `TypeInv`, a conjunct of `Inv` |
| `DeviceManagerProofs!AllDevicesTracked` | if `Undisturbed`, `Spec => []DevicesTracked` | `Inv`, see below |
| `DeviceManagerProofs!AllPresenceAnnounced` | if `Undisturbed`, `Spec => []PresenceAnnounced` | `MapInv`: clients know the devices of the map, but for one being added or removed |
| `DeviceManagerProofs!AllDevicesDecided` | if `Undisturbed`, `Spec => []DevicesDecided` | `DecidedInv`: a device in the map that no pending event is about is in the state the configuration asks for, or the worker has that target in hand |
| `DeviceManagerProofs!ExceptionsReject` | if `Undisturbed`, `Spec => FailedInsertionsRejected`, an action property | `JobInv`: the parent of a device in the map is in the map, so a rule can be made for it; what is left is that the device is gone, or rejected because its parent is unknown |
| `IdAllocationProofs!TypeCorrect` | `Spec => []TypeOK`, for any number of threads | `TypeInv`: loaded values that are about to be stored are in range |
| `IdAllocationProofs!DeviceIdsStayUnique` | `Spec => []DeviceIdsUniqueAlone` | `DeviceInv`: a thread in an insertion holds the mutex, what it loaded is still the counter, assigned IDs are below it |
| `RuleEvaluationProofs!ConditionsAlwaysDecide` | `Spec => ConditionsDecide`, an action property | `Inv`: bit `i` of a thread's word is set if and only if condition `i + 1` was found true, and a rule that was found had its conditions met |
| `RuleEvaluationProofs!OneAlwaysAllowed` | if only the uevent thread evaluates, `Spec => []OneAllowed` | `ExclusiveInv` with `Inv`: once the condition of such a rule was found true, no device is allowed by that rule until it is applied. What clients ask for and removals take devices away from a rule and give it none. |
| `ServicesProofs!OneDaemonAtATime` | `Spec => []OneDaemon` | `ProcInv`: how far the three processes of one start have got with each other, and the processes that hold the socket are all of one start (`OneStart`) |
| `ServicesProofs!SuccessIsTrue` | `Spec => []SuccessTrue` | `StatusInv` with `ProcInv`: the PID file is written before the signal that lets the original process end, and it is as long as the PID of some start so far (`PidFileSize`); `usbguard-dbus` sets its status only where it acquired its bus name |

The properties of `DeviceManager` are about moments at which all events have been
processed; between them the map and the kernel differ. The invariant therefore says what
the daemon may believe while events are pending: there is a history `h` (`History`), with
`h[n]` the devices after the first `n` events in the socket, such that `h[0]` is what the
daemon has been told so far, a device is added where it was not, hubs come before and go
after what is behind them, and a path that no later event is about is in `h[n]` if and only
if the kernel has it. `Track` relates the path map, the device map, the objects and the
job of the worker to `h[0]`, and the generation, target and rule of a device to the kernel
as far as no event about it is pending (`NoEvent`). Plugging and unplugging extend the
history (`RemovalHistory` for a hub with all that is behind it), reading an event drops
its first state, and with an empty socket `h[0]` is what the kernel has (`EmptyHistory`).
The initial scan is the case of an empty socket in which some paths remain to be visited
(`Remaining`). The IPC thread changes targets only, and `DevicesDecided` is about
states before it was asked for anything.

`Undisturbed` says that nothing disappears during the scan: no uevents arrive, no access
fails, and the policy for present devices rejects none and blocks no controller. It leaves
everything open after the scan: any number of controllers and of devices behind them (two
levels, as `ConstantsAssumption` says), plugged, unplugged and replaced faster than their
events are read, any policy for inserted devices, rejected hubs, and any requests of
clients. It is needed: an event that arrives during the scan can be lost (run
`device_manager_startup`), and so can the one of a device that the scan itself makes
disappear; a failed access leaves a device unrejected (run `device_manager_errors`).

What depends on induction (a set of numbers has a least element, sets are counted element
by element, sets of paths are finite) is a conjunct of the invariants (`Counting`,
`CountsPaths`), and is proved at the end of each module from the theorems of the library.

The assumptions are the `ConstantsAssumption` of the modules (numbers are natural, sets
are subsets of their types, the access control files are numbered, configured names and
PIDs are not empty), and the conditions in
the table. Those of `DecisionsHold` are both necessary: without either one TLC finds a
counterexample. The theorems about `IPC` and `Services` need none.

Only model-checked: `EvaluationFollowsListing` and `RestartLoads`; the fixed devices of a
scan that races with events, the targets that administrators set and the audit trail, which
need the assumptions of their runs on how requests meet replugged devices; everything about
the language; and what eventually happens (every device processed, every call returned).
Liveness is out of the prover's reach, and so is what the recursive parts of the language
compute for every input.

## Where code and documents differ

The three violation runs show:

- `RuleSet.cpp:94`: the counter is raised by a load and a store, so an ID can be given to
  two devices, in spite of the comment "so that we don't generate a duplicit one".
- `UEventDeviceManager.cpp:322`: an event can be appended to the backlog after it was
  processed ("We keep track of the uevents received during the scanning and process them
  ad-hoc at the end").
- `DeviceManagerBase.cpp:329`: the fallback of a failed insertion works on a moved-from
  object ("we take the safe route and fallback to rejecting the device").

The modules contain the following as the code has it, and the properties are stated so
that they do not depend on it:

- `Daemon::upsertRule` saves only if `RuleFile` is set (`Daemon.cpp:683`), while
  `usbguard-daemon.conf(5)` says of the rule folder that it is used "to write new rules
  received via the IPC interface". `Policy.cfg` with `RuleFile = FALSE` gives a
  counterexample to `DecisionHolds`.
- A failed write to a rule file is not noticed (`FileRuleSet.cpp:112`). `WriteErrors = TRUE`
  gives a counterexample to `DecisionHolds`.
- A rule appended as temporary is written by the next save (`RuleSet.cpp:251`).
- A permanent decision replaces a rule that matches more than the device
  (`RuleSet.cpp:134`), and looks for more than one match in each rule set on its own
  (`Policy.cpp:114`).
- Parent ID 0, with which `RuleSet::appendRule` inserts at the beginning, is looked up as
  the ID of a rule and refused by `Policy::appendRule` (`Policy.cpp:75`), although
  `Interface.hpp` says that "the rule can be inserted anywhere in the policy".
- An evaluation of an LDAP rule set may reset the ID counter (`LDAPRuleSet.cpp:111`).
- A scan that finds nothing leaves the backlog unprocessed (`UEventDeviceManager.cpp:103`).
- A request that is between its look-up and its write when its device is replaced by
  another can leave a stale target: `administration` has `FastReplug = FALSE`.
- `rule-applied` and `rule-evaluated` read counters that are always zero
  (`RuleAppliedCondition.cpp:50`); `rule-evaluated` is printed as `rule-applied`
  (`RuleEvaluatedCondition.cpp:38`), which is the one difference that `RoundTrip` allows;
  `localtime` is evaluated in UTC.
- `equals`, `equals-ordered` and `match-all` mean a pairing of the values of rule and
  device. Where one value matches several of the other list the code may find `equals` to
  hold without a pairing (`Rule.hpp:627`), and `match-all` has its documented meaning for
  interface types only. `OperatorsAsDocumented` leaves these cases out and is an
  equivalence otherwise.
- 64 conditions shift by the width of the word (`RulePrivate.cpp:139`).
- `OneAllowed` needs that one thread evaluates; during the scan there may be two.
- Without access control files a client may connect but has no privileges
  (`IPCServerPrivate.cpp:283`). Of two files for one user the first counts.
- A reply that arrives after its call timed out ends the connection
  (`IPCClientPrivate.cpp:449`). `IPCDisconnected` is always told of an exception
  (`IPCClientPrivate.cpp:149`).
- usbguard-dbus does not connect again after it lost the daemon, since the bridge is made
  without a callback (`gdbus-server.cpp:153`).
- The PID file is not truncated (`Daemon.cpp:627`): after a longer PID its last digits
  follow the new one. `SuccessTrue` says that the file begins with the PID and that nothing
  else can follow. A start that gives up after five seconds may leave a daemon behind
  (`Daemon.cpp:614`).
- If the wait for SIGUSR1 is interrupted more than five seconds after it began (the process
  was stopped meanwhile, say), the timeout is negative, `sigtimedwait` fails with EINVAL,
  which the loop does not test, and the original process does not end
  (`Daemon.cpp:605-619`; the comment is "avoid potentially endless loop"). It also keeps the
  socket bound. `EveryStartEnds` and `EveryCallAnswered` name this case.
- The configuration file is not truncated when it becomes shorter
  (`ConfigFilePrivate.cpp:91`): the end of the old text stays. `ConfigKept` is about texts
  that do not.
- LDIF is generated without `USBGuardRuleOrder` (`LDAPUtil.cpp:88`), which the schema
  requires (`Tests/LDAP/usbguard.schema:87`); without an order, a rule that blocks the rest
  may come first. The default query finds only names that begin with "Rule"
  (`LDAPHandler.cpp:259`), so entries with another `--name-prefix` are not loaded,
  and `GeneratedPolicyAllows` says so. Base and object class are taken to be
  what the directory expects.
- "default update interval is 1h" (`LDAPHandler.cpp:51`) is a number of milliseconds that is
  compared with seconds (`LDAPRuleSet.cpp:98`).
- Equal hubs behind each other have equal hashes; `usbguard list-devices --tree` does not
  return from them (`usbguard-list-devices.cpp:73`). `TreeComplete` is about devices with
  different hashes.
- A variable of the name of one that `usbguard watch` sets, if it inherits one, hides it
  from the executable (`IPCSignalWatcher.cpp:265`). The executable for "IPC.Connected" may
  start after that for a signal of the same connection, since the client thread runs
  before `IPCConnected` is called.

## What is not modelled

- The search in an LDAP directory and the refresh after its interval: I/O with a server,
  and a cache that the code refreshes on a copy. What it does to the ID counter, and the
  rules that are read from entries, are modelled.
- The logger, seccomp and capabilities: output, and restrictions enforced by the kernel.
- The fields that are hashed before the descriptors (name, ID and serial,
  `DevicePrivate.cpp:142`): `HashStandsForDevice` is about the descriptors.
- The writing of `authorized_default` to controllers (`DeviceManagerBase.cpp:183`, `281`):
  what the kernel gives new devices is a constant of `DeviceManager`.
- `setParameter` of `InsertedDevicePolicy` (`Daemon.cpp:696`) as an action of
  `DeviceManager`. The method is used once per device; in the runs it is "apply-policy" and
  the rule of a device, chosen when it is plugged in, also stands for a method that was
  put in force by then.
- The hash function, protobuf and libqb: libraries, modelled by how they are used.
- The translation between IPC and D-Bus types and the polkit query: one call each without
  state of their own.
- Lost uevents (`ENOBUFS`) and the end of the uevent thread on a failed read: the code has
  no recovery whose correctness could be stated.
- The remaining CLI commands, which parse options, make one IPC call and print.
- The UMockdev backend, which is for tests.
- Memory: data races on containers, reference counts of libqb connections.
- `Policy` is not interleaved with `DeviceManager` other than through IDs and conditions:
  what the policy says of a device is fixed when it is plugged in.
