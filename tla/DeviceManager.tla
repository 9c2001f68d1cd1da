--------------------------- MODULE DeviceManager ---------------------------
(***************************************************************************)
(* The tracking of USB devices and the enforcement of decisions: the       *)
(* kernel's devices and uevents, the main thread that scans sysfs and      *)
(* works off the backlog, the uevent thread, and the IPC thread that       *)
(* serves applyDevicePolicy.                                               *)
(*                                                                         *)
(* A device is its sysfs path and the generation of that path: a replugged *)
(* device, or another one in its place, is a new generation.  What the     *)
(* policy says of a device (module Policy) is an attribute of it.  An ID   *)
(* assignment is one step; module IdAllocation splits it.                  *)
(*                                                                         *)
(* What new devices get from the kernel is a constant.  The daemon writes  *)
(* it (authorized_default) to each controller as that one is inserted; the *)
(* time before, when the kernel has its own value, is not modelled.        *)
(***************************************************************************)
EXTENDS Integers, Sequences, FiniteSets

CONSTANTS
  Paths,                \* sysfs paths of USB devices
  NoPath,
  Parent,               \* [Paths -> Paths \cup {NoPath}]: the hub, if any
  Rank,                 \* [Paths -> Nat]: the order of ueventEnumerateComparePath,
                        \* in which controllers come first
  Boot,                 \* the sets of paths with a device when the daemon starts
  Fixed,                \* paths of devices that stay, such as controllers
  Rules,                \* what the policy may say of a device
  AuthorizedDefault,    \* the kernel's setting for new devices
  PresentControllerPolicy, PresentDevicePolicy, InsertedDevicePolicy,
                        \* the options of the same names
  MaxPlugs,             \* bound on the devices ever plugged in
  RequestTargets, MaxRequests,   \* the requests of IPC clients
  StartupEvents,        \* do devices come and go while the daemon starts?
  FastReplug,           \* may a path be reused while its events are pending?
  Errors                \* may reading or authorizing a device fail?

Threads == {"main", "uevent", "ipc"}
Targets == {"allow", "block", "reject"}

ASSUME ConstantsAssumption ==
  /\ IsFiniteSet(Paths) /\ NoPath \notin Paths
  /\ Parent \in [Paths -> Paths \cup {NoPath}]
  /\ \A p \in Paths : Parent[p] # NoPath => Parent[Parent[p]] = NoPath
  /\ Rank \in [Paths -> Nat]
  /\ \A p, q \in Paths : /\ Rank[p] = Rank[q] => p = q
                         /\ Parent[p] = NoPath /\ Parent[q] # NoPath => Rank[p] < Rank[q]
  /\ \A on \in Boot : on \subseteq Paths
       /\ \A p \in on : Parent[p] # NoPath => Parent[p] \in on
  /\ Fixed \subseteq Paths
  /\ Rules \subseteq Targets /\ RequestTargets \subseteq Targets
  /\ AuthorizedDefault \in {"allow", "block"}
  /\ {PresentControllerPolicy, PresentDevicePolicy}
       \subseteq Targets \cup {"keep", "apply-policy"}
  /\ InsertedDevicePolicy \in {"block", "reject", "apply-policy"}
  /\ MaxPlugs \in Nat /\ MaxRequests \in Nat
  /\ {StartupEvents, FastReplug, Errors} \subseteq BOOLEAN

VARIABLES
  kern,        \* the kernel: the device at every path
  sock,        \* the uevents in the netlink socket
  main,        \* where Daemon::run and UEventDeviceManager::scan are
  todo,        \* the rest of what main enumerates: devices, then backlog
  found,       \* has the enumeration found a device?
  enumeration, \* _enumeration
  backlog,     \* _backlog
  ids,         \* _sysfs_path_to_id_map
  obj,         \* the Device objects, by ID
  devmap,      \* the IDs in _device_map
  mutex,       \* the IDs of the devices whose mutex is held
  job,         \* what each thread does in ueventProcessAction or for a client
  requests,    \* number of client requests
  announced    \* IDs that clients know from DevicePresenceChanged

vars == <<kern, sock, main, todo, found, enumeration, backlog, ids, obj, devmap,
          mutex, job, requests, announced>>

kernel == <<kern, sock>>
scanning == <<main, todo, found, enumeration, backlog>>
tracking == <<ids, obj, devmap>>

Unknown == -1   \* a path that is not in _sysfs_path_to_id_map
NoID == 0       \* a path that was learned without an ID

NoJob == [pc |-> "idle", act |-> "none", path |-> NoPath, gen |-> 0, id |-> NoID,
          known |-> FALSE, parent |-> NoID, target |-> "none", rule |-> "none"]

-----------------------------------------------------------------------------
(* The kernel *)

Children(p) == {q \in Paths : Parent[q] = p}

\* Does the directory that a SysFSDevice of the path has opened still exist?
On(p, gen) == kern[p].on /\ kern[p].gen = gen

Plugs == UNION {{p} \X (1 .. kern[p].gen) : p \in Paths}

Event(act, p) == [act |-> act, path |-> p]

\* The orders of a set of paths
Orders(S) ==
  {s \in [1 .. Cardinality(S) -> S] :
     /\ \A i, j \in DOMAIN s : s[i] = s[j] => i = j
     /\ \A p \in S : \E i \in DOMAIN s : s[i] = p}

EventsOf(act, order) == [n \in DOMAIN order |-> Event(act, order[n])]

\* A hub comes after the devices behind it
HubsLast(S) == {s \in Orders(S) : \A i, j \in DOMAIN s : Parent[s[i]] = s[j] => i < j}

\* The devices at the paths S disappear from k
KernelRemove(k, S) ==
  LET gone == {p \in S : k[p].on}
  IN  /\ kern' = [p \in Paths |-> IF p \in gone THEN [k[p] EXCEPT !.on = FALSE] ELSE k[p]]
      /\ \E order \in HubsLast(gone) : sock' = sock \o EventsOf("remove", order)

\* Writing the attributes "authorized" and "remove" of a device.  The devices
\* behind a hub disappear with its authorization.
KernelApply(p, target) ==
  LET k == [kern EXCEPT ![p].auth = target]
  IN  CASE target = "allow"  -> kern' = k /\ UNCHANGED sock
        [] target = "block"  -> KernelRemove(k, Children(p))
        [] target = "reject" -> KernelRemove(kern, {p} \cup Children(p))

Hotplug == StartupEvents \/ main = "run"

\* Is the daemon not about to process an event of the path?
Settled(p) ==
  /\ \A n \in DOMAIN sock : sock[n].path # p
  /\ \A t \in Threads : job[t].pc # "idle" => job[t].path # p

Plug(p, rule) ==
  /\ Hotplug
  /\ Cardinality(Plugs) < MaxPlugs
  /\ ~kern[p].on
  /\ Parent[p] # NoPath => kern[Parent[p]].on /\ kern[Parent[p]].auth = "allow"
  /\ FastReplug \/ Settled(p)
  /\ kern' = [kern EXCEPT ![p] = [on |-> TRUE, gen |-> @.gen + 1,
                                  auth |-> AuthorizedDefault, rule |-> rule,
                                  boot |-> main # "run"]]
  /\ sock' = Append(sock, Event("add", p))
  /\ UNCHANGED <<scanning, tracking, mutex, job, requests, announced>>

Unplug(p) ==
  /\ Hotplug
  /\ kern[p].on /\ p \notin Fixed
  /\ KernelRemove(kern, {p} \cup Children(p))
  /\ UNCHANGED <<scanning, tracking, mutex, job, requests, announced>>

-----------------------------------------------------------------------------
(* The main thread: Daemon::run, UEventDeviceManager::scan.  The uevent thread *)
(* has been started.                                                           *)

\* The devices found by readdir, sorted with ueventEnumerateComparePath
Enumerated ==
  {EventsOf("scan", order) :
     order \in {s \in Orders({p \in Paths : kern[p].on}) :
                  \A i, j \in DOMAIN s : i < j => Rank[s[i]] < Rank[s[j]]}}

ScanBegin ==
  /\ main = "start"
  /\ enumeration' = TRUE
  /\ todo' \in Enumerated
  /\ main' = "scan"
  /\ UNCHANGED <<kernel, found, backlog, tracking, mutex, job, requests,
                 announced>>

\* ueventEnumerateTriggerDevice
ScanTrigger ==
  /\ main = "scan" /\ todo # <<>> /\ job["main"].pc = "idle"
  /\ todo' = Tail(todo)
  /\ LET p == Head(todo).path
     IN  IF kern[p].on
         THEN /\ ids' = [ids EXCEPT ![p] = NoID]
              /\ found' = TRUE
              /\ job' = [job EXCEPT !["main"] =
                           [NoJob EXCEPT !.pc = "look", !.act = "add", !.path = p]]
         ELSE UNCHANGED <<ids, found, job>>
  /\ UNCHANGED <<kernel, main, enumeration, backlog, obj, devmap, mutex, requests,
                 announced>>

\* Mutation: _enumeration is not reset
ScanEndKeepsFlag ==
  /\ main = "scan" /\ todo = <<>> /\ job["main"].pc = "idle"
  /\ main' = IF found THEN "backlog" ELSE "run"
  /\ UNCHANGED <<kernel, todo, found, enumeration, backlog, tracking, mutex, job,
                 requests, announced>>

ScanEnd ==
  /\ main = "scan" /\ todo = <<>> /\ job["main"].pc = "idle"
  /\ enumeration' = FALSE
  /\ main' = IF found THEN "backlog" ELSE "run"
  /\ UNCHANGED <<kernel, todo, found, backlog, tracking, mutex, job, requests,
                 announced>>

\* processBacklog
BacklogBegin ==
  /\ main = "backlog"
  /\ todo' = backlog
  /\ main' = "backlogged"
  /\ UNCHANGED <<kernel, found, enumeration, backlog, tracking, mutex, job,
                 requests, announced>>

BacklogNext ==
  /\ main = "backlogged" /\ job["main"].pc = "idle"
  /\ IF todo = <<>>
     THEN /\ main' = "run"
          /\ UNCHANGED <<todo, job>>
     ELSE /\ todo' = Tail(todo)
          /\ job' = [job EXCEPT !["main"] =
                       [NoJob EXCEPT !.pc = "look", !.act = Head(todo).act,
                                     !.path = Head(todo).path]]
          /\ UNCHANGED main
  /\ UNCHANGED <<kernel, found, enumeration, backlog, tracking, mutex, requests,
                 announced>>

-----------------------------------------------------------------------------
(* The uevent thread: ueventProcessRead and ueventProcessUEvent *)

ReadEvent ==
  /\ sock # <<>> /\ job["uevent"].pc = "idle"
  /\ sock' = Tail(sock)
  /\ job' = [job EXCEPT !["uevent"] =
               [NoJob EXCEPT !.pc = "check", !.act = Head(sock).act,
                             !.path = Head(sock).path]]
  /\ UNCHANGED <<kern, scanning, tracking, mutex, requests, announced>>

CheckEnumeration ==
  /\ job["uevent"].pc = "check"
  /\ job' = [job EXCEPT !["uevent"].pc = IF enumeration THEN "append" ELSE "look"]
  /\ UNCHANGED <<kernel, scanning, tracking, mutex, requests, announced>>

AppendBacklog ==
  /\ job["uevent"].pc = "append"
  /\ backlog' = Append(backlog, Event(job["uevent"].act, job["uevent"].path))
  /\ job' = [job EXCEPT !["uevent"] = NoJob]
  /\ UNCHANGED <<kernel, main, todo, found, enumeration, tracking, mutex, requests,
                 announced>>

-----------------------------------------------------------------------------
(* ueventProcessAction, on the main or the uevent thread *)

Goto(t, pc) == job' = [job EXCEPT ![t].pc = pc]
Finish(t) == job' = [job EXCEPT ![t] = NoJob]

\* Mutation: every path counts as known
AnyPathKnown(p) == TRUE

\* DeviceManagerBase::knownSysfsPath
KnownSysfsPath(p) == ids[p] # Unknown

\* "add" of a path with an ID: processDevicePresence.  It reloads the device,
\* which fails if the device is gone.
LookPresence(t) ==
  LET id == ids[job[t].path]
  IN  /\ job[t].pc = "look" /\ job[t].act = "add" /\ id > NoID
      /\ IF id \in devmap /\ On(obj[id].path, obj[id].gen)
         THEN job' = [job EXCEPT ![t].pc = "event", ![t].id = id, ![t].known = TRUE]
         ELSE Finish(t)
      /\ UNCHANGED <<kernel, scanning, tracking, mutex, requests, announced>>

\* "add" of another path: the SysFSDevice is opened
LookInsertion(t) ==
  LET p == job[t].path
  IN  /\ job[t].pc = "look" /\ job[t].act = "add" /\ ids[p] <= NoID
      /\ IF kern[p].on
         THEN job' = [job EXCEPT ![t].pc = "build", ![t].gen = kern[p].gen,
                                 ![t].known = KnownSysfsPath(p)]
         ELSE Finish(t)
      /\ UNCHANGED <<kernel, scanning, tracking, mutex, requests, announced>>

\* DeviceBase::DeviceBase.  The device is rejected if it cannot be read or if
\* its parent device is unknown; nothing can be written if it is gone.
Build(t) ==
  LET p == job[t].path
      orphan == Parent[p] # NoPath /\ ids[Parent[p]] = Unknown
  IN  /\ job[t].pc = "build"
      /\ \/ /\ On(p, job[t].gen) /\ ~orphan
            /\ job' = [job EXCEPT ![t].pc = "insert", ![t].target = kern[p].auth,
                         ![t].rule = kern[p].rule,
                         ![t].parent = IF Parent[p] = NoPath THEN NoID ELSE ids[Parent[p]]]
            /\ UNCHANGED kernel
         \/ /\ On(p, job[t].gen) /\ (orphan \/ Errors)
            /\ KernelApply(p, "reject")
            /\ Finish(t)
         \/ /\ ~On(p, job[t].gen)
            /\ Finish(t)
            /\ UNCHANGED kernel
      /\ UNCHANGED <<scanning, tracking, mutex, requests, announced>>

\* Daemon::dmHookAssignID
NextID == Len(obj) + 1

\* DeviceManagerPrivate::insertDevice
Insert(t) ==
  LET p == job[t].path
      id == NextID
  IN  /\ job[t].pc = "insert"
      /\ obj' = Append(obj, [path |-> p, gen |-> job[t].gen, target |-> job[t].target,
                             rule |-> job[t].rule, parent |-> job[t].parent])
      /\ devmap' = devmap \cup {id}
      /\ job' = [job EXCEPT ![t].pc = "learn", ![t].id = id]
      /\ UNCHANGED <<kernel, scanning, ids, mutex, requests, announced>>

\* Mutation: std::map::emplace, which does not replace the ID 0 of a known path
LearnUnknownOnly(t) ==
  /\ job[t].pc = "learn"
  /\ ids' = [ids EXCEPT ![job[t].path] = IF @ = Unknown THEN job[t].id ELSE @]
  /\ Goto(t, "event")
  /\ UNCHANGED <<kernel, scanning, obj, devmap, mutex, requests, announced>>

\* DeviceManagerBase::insertDevice
Learn(t) ==
  /\ job[t].pc = "learn"
  /\ ids' = [ids EXCEPT ![job[t].path] = job[t].id]
  /\ Goto(t, "event")
  /\ UNCHANGED <<kernel, scanning, obj, devmap, mutex, requests, announced>>

\* Mutation: the stored hash of a parent that is not a USB device is not used
HasParentInMap(id) == obj[id].parent \in devmap

\* DevicePrivate::getDeviceRule with the hash of the parent device
HasDeviceRule(id) == Parent[obj[id].path] = NoPath \/ obj[id].parent \in devmap

\* The devices without a parent are the controllers
PresentPolicy(p) ==
  IF Parent[p] = NoPath THEN PresentControllerPolicy ELSE PresentDevicePolicy

\* Daemon::getPresentDevicePolicyRule, Daemon::getInsertedDevicePolicyRule.  The latter
\* is asked once for each device: with "apply-policy", the rule of the device stands also
\* for a method that setParameter has put in force by then
PolicyRule(id, present) ==
  LET method == IF present THEN PresentPolicy(obj[id].path) ELSE InsertedDevicePolicy
  IN  CASE method = "apply-policy" -> obj[id].rule
        [] method = "keep"         -> obj[id].target
        [] OTHER                   -> method

\* Daemon::dmHookDeviceEvent up to dmApplyDevicePolicy
DeviceEvent(t) ==
  LET id == job[t].id
  IN  /\ job[t].pc = "event"
      /\ \/ /\ HasDeviceRule(id)
            /\ announced' = announced \cup {id}
            /\ job' = [job EXCEPT ![t].pc = "get",
                                  ![t].target = PolicyRule(id, job[t].known)]
         \/ /\ ~HasDeviceRule(id) \/ Errors
            /\ Finish(t)
            /\ UNCHANGED announced
      /\ UNCHANGED <<kernel, scanning, tracking, mutex, requests>>

\* "remove": DeviceManagerBase::removeDevice erases the device from the map
LookRemoval(t) ==
  LET id == ids[job[t].path]
  IN  /\ job[t].pc = "look" /\ job[t].act = "remove"
      /\ IF id \in devmap
         THEN /\ devmap' = devmap \ {id}
              /\ job' = [job EXCEPT ![t].pc = "forget", ![t].id = id]
         ELSE /\ Finish(t)
              /\ UNCHANGED devmap
      /\ UNCHANGED <<kernel, scanning, ids, obj, mutex, requests, announced>>

\* Mutation: the path is not forgotten
NotForgotten(p) == ids

\* DeviceManagerBase::forgetSysfsPath
Forgotten(p) == [ids EXCEPT ![p] = Unknown]

\* Mutation: only a device that can still be read is reported
DepartureIfOn(id) == {i \in {id} : HasDeviceRule(i) /\ On(obj[i].path, obj[i].gen)}

\* The Remove event of Daemon::dmHookDeviceEvent
Departure(id) == {i \in {id} : HasDeviceRule(i)}

Forget(t) ==
  /\ job[t].pc = "forget"
  /\ ids' = Forgotten(job[t].path)
  /\ announced' = announced \ Departure(job[t].id)
  /\ Finish(t)
  /\ UNCHANGED <<kernel, scanning, obj, devmap, mutex, requests>>

-----------------------------------------------------------------------------
(* Daemon::applyDevicePolicy and dmApplyDevicePolicy, on every thread *)

\* An IPC client asks for a target for a device in the map
Request(id, target) ==
  /\ main = "run" /\ job["ipc"].pc = "idle" /\ requests < MaxRequests
  /\ requests' = requests + 1
  /\ job' = [job EXCEPT !["ipc"] =
               [NoJob EXCEPT !.pc = "get", !.act = "apply", !.path = obj[id].path,
                             !.id = id, !.target = target]]
  /\ UNCHANGED <<kernel, scanning, tracking, mutex, announced>>

\* DeviceManagerBase::applyDevicePolicy looks the device up again
GetDevice(t) ==
  /\ job[t].pc = "get"
  /\ IF job[t].id \in devmap THEN Goto(t, "write") ELSE Finish(t)
  /\ UNCHANGED <<kernel, scanning, tracking, mutex, requests, announced>>

\* Mutation: the device mutex is not taken
NeverLocked(id) == FALSE

Locked(id) == id \in mutex

\* It takes the mutex of the device and writes to sysfs, which reaches only the
\* device that was opened
Write(t) ==
  LET id == job[t].id
  IN  /\ job[t].pc = "write" /\ ~Locked(id)
      /\ \/ /\ On(obj[id].path, obj[id].gen)
            /\ KernelApply(obj[id].path, job[t].target)
            /\ mutex' = mutex \cup {id}
            /\ Goto(t, "set")
         \/ /\ ~On(obj[id].path, obj[id].gen) \/ Errors
            /\ Finish(t)
            /\ UNCHANGED <<kernel, mutex>>
      /\ UNCHANGED <<scanning, tracking, requests, announced>>

SetTarget(t) ==
  LET id == job[t].id
  IN  /\ job[t].pc = "set"
      /\ Goto(t, "signal")
      /\ obj' = [obj EXCEPT ![id].target = job[t].target]
      /\ mutex' = mutex \ {id}
      /\ UNCHANGED <<kernel, scanning, ids, devmap, requests, announced>>

\* The signals DevicePolicyChanged and DevicePolicyApplied, the audit event
Signal(t) ==
  /\ job[t].pc = "signal"
  /\ Finish(t)
  /\ UNCHANGED <<kernel, scanning, tracking, mutex, requests, announced>>

-----------------------------------------------------------------------------

Init ==
  /\ \E on \in Boot, rule \in [Paths -> Rules] :
       kern = [p \in Paths |-> [on |-> p \in on, gen |-> IF p \in on THEN 1 ELSE 0,
                               auth |-> "allow", boot |-> TRUE,
                               rule |-> IF p \in on THEN rule[p] ELSE "none"]]
  /\ sock = <<>>
  /\ main = "start" /\ todo = <<>> /\ found = FALSE
  /\ enumeration = FALSE /\ backlog = <<>>
  /\ ids = [p \in Paths |-> Unknown]
  /\ obj = <<>> /\ devmap = {} /\ mutex = {}
  /\ job = [t \in Threads |-> NoJob]
  /\ requests = 0 /\ announced = {}

Kernel ==
  \/ \E p \in Paths, rule \in Rules : Plug(p, rule)
  \/ \E p \in Paths : Unplug(p)

Scan == ScanBegin \/ ScanTrigger \/ ScanEnd \/ BacklogBegin \/ BacklogNext

UEvent == ReadEvent \/ CheckEnumeration \/ AppendBacklog

Step(t) ==
  \/ LookPresence(t) \/ LookInsertion(t) \/ LookRemoval(t)
  \/ Build(t) \/ Insert(t) \/ Learn(t) \/ DeviceEvent(t) \/ Forget(t)
  \/ GetDevice(t) \/ Write(t) \/ SetTarget(t) \/ Signal(t)

Quiet ==
  /\ main = "run" /\ sock = <<>>
  /\ \A t \in Threads : job[t].pc = "idle"

Next ==
  \/ Kernel
  \/ Scan
  \/ UEvent
  \/ \E t \in Threads : Step(t)
  \/ \E id \in devmap, target \in RequestTargets : Request(id, target)

Spec == Init /\ [][Next]_vars

\* Every thread keeps running.  The uevent thread waits in select, the IPC
\* thread in its loop; a device mutex is held for one write only.
Fairness ==
  /\ WF_vars(Scan)
  /\ WF_vars(UEvent)
  /\ \A t \in Threads : WF_vars(Step(t))

FairSpec == Spec /\ Fairness

-----------------------------------------------------------------------------
(* Properties *)

Jobs ==
  [pc : {"idle", "check", "append", "look", "build", "insert", "learn", "event", "get",
         "write", "set", "signal", "forget"},
   act : {"none", "add", "remove", "apply"}, path : Paths \cup {NoPath}, gen : Nat,
   id : Nat, known : BOOLEAN, parent : Nat,
   target : Targets \cup {"none"}, rule : Targets \cup {"none"}]

Events == [act : {"add", "remove", "scan"}, path : Paths]

\* The variables hold values of the types the code gives them.
TypeOK ==
  /\ kern \in [Paths -> [on : BOOLEAN, gen : Nat, auth : {"allow", "block"},
                         boot : BOOLEAN, rule : Targets \cup {"none"}]]
  /\ sock \in Seq(Events) /\ todo \in Seq(Events) /\ backlog \in Seq(Events)
  /\ main \in {"start", "scan", "backlog", "backlogged", "run"}
  /\ found \in BOOLEAN /\ enumeration \in BOOLEAN
  /\ ids \in [Paths -> Nat \cup {Unknown}]
  /\ obj \in Seq([path : Paths, gen : Nat, target : Targets,
                  rule : Targets, parent : Nat])
  /\ devmap \subseteq DOMAIN obj /\ mutex \subseteq DOMAIN obj
  /\ announced \subseteq DOMAIN obj
  /\ job \in [Threads -> Jobs]
  /\ requests \in 0 .. MaxRequests

Tracks(id, p) == obj[id].path = p /\ On(p, obj[id].gen) /\ ids[p] = id

\* When all events have been processed, the device map holds one entry for
\* every device in the system, under the ID that its path is known by, and no
\* other, however fast devices came and went (UEventDeviceManager::scan,
\* ueventProcessAction; comment: "This is to avoid any inconsistent state while
\* enumerating the devices").
DevicesTracked ==
  Quiet => /\ \A p \in Paths : kern[p].on => \E id \in devmap : Tracks(id, p)
           /\ \A id \in devmap : Tracks(id, obj[id].path)

\* A device that is there from the start and stays is tracked, under one ID and
\* with its state in the kernel as its target, and it is in the state that the
\* policy for present devices asks for unless a client changed it, whatever
\* happens to other devices while the main thread scans and the uevent thread
\* runs (UEventDeviceManager::scan, DeviceManagerBase::applyDevicePolicy).
FixedDevicesTracked ==
  Quiet => \A p \in Fixed : kern[p].on =>
    \E id \in devmap :
      /\ Tracks(id, p)
      /\ \A i \in devmap : obj[i].path = p => i = id
      /\ obj[id].target = kern[p].auth
      /\ requests = 0 /\ PresentPolicy(p) = "apply-policy" => kern[p].auth = kern[p].rule

\* When all events and requests have been processed, the target of a device in
\* the map is its state in the kernel (DeviceManagerBase::applyDevicePolicy;
\* Interface.hpp on listDevices: "The target in each rule represents the
\* current authorization state of the device").
TargetsCurrent ==
  Quiet => \A id \in devmap : obj[id].target = kern[obj[id].path].auth

\* When all events have been processed and no client has interfered, every
\* device is in the state that the configuration asks for: by the policy for
\* devices that were there at the start, by the policy for inserted devices
\* otherwise (Daemon::dmHookDeviceEvent, usbguard-daemon.conf).
DevicesDecided ==
  Quiet /\ requests = 0 =>
    \A p \in Paths : kern[p].on =>
      LET method == IF kern[p].boot THEN PresentPolicy(p) ELSE InsertedDevicePolicy
      IN  method # "keep" =>
            kern[p].auth = IF method = "apply-policy" THEN kern[p].rule ELSE method

\* When all events have been processed, a client that follows the signals
\* DevicePresenceChanged knows exactly the devices that listDevices returns.
PresenceAnnounced == Quiet => announced = devmap

\* A thread raises an exception while it handles an inserted device.
Raises(t) ==
  /\ job[t].pc \in {"build", "insert", "learn", "event", "get", "write"}
  /\ job[t].gen # 0
  /\ job'[t].pc = "idle"

\* If handling an inserted device raises an exception, the device is gone
\* afterwards (DeviceManagerBase::processDeviceInsertion, comment: "In either
\* case, we take the safe route and fallback to rejecting the device").
FailedInsertionsRejected ==
  [][\A t \in Threads : Raises(t) =>
       LET k == kern'[job[t].path] IN ~(k.on /\ k.gen = job[t].gen)]_vars

\* Every device that stays in the system is eventually in the device map, with
\* no thread still working on it.
EveryDeviceProcessed ==
  \A p \in Paths :
    kern[p].on ~> \/ ~kern[p].on
                  \/ /\ \E id \in devmap : Tracks(id, p)
                     /\ \A t \in {"main", "uevent"} : job[t].path # p
=============================================================================
