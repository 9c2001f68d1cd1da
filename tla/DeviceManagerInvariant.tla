----------------------- MODULE DeviceManagerInvariant -----------------------
(***************************************************************************)
(* The inductive invariant of DeviceManager, which relates the device map  *)
(* to the uevents that the daemon has still to read, the types, and what   *)
(* devices that come and go change.                                        *)
(***************************************************************************)
EXTENDS DeviceManager, TLAPS

-----------------------------------------------------------------------------
(* The uevents in the socket *)

Present == {p \in Paths : kern[p].on}

\* No event of the path is in the socket
NoEvent(p) == \A n \in DOMAIN sock : sock[n].path # p

\* h[n] is the set of devices after the first n events of s, which lead to the
\* devices on: a device appears behind a hub that is there and disappears
\* before it
History(h, s, on) ==
  /\ h \in [0 .. Len(s) -> SUBSET Paths]
  /\ \A n \in 0 .. Len(s) : \A p \in h[n] : Parent[p] # NoPath => Parent[p] \in h[n]
  /\ \A n \in DOMAIN s :
       \/ s[n].act = "add" /\ s[n].path \notin h[n - 1] /\ h[n] = h[n - 1] \cup {s[n].path}
       \/ s[n].act = "remove" /\ h[n] = h[n - 1] \ {s[n].path}
  /\ \A n \in 0 .. Len(s) : \A p \in Paths :
       (\A m \in n + 1 .. Len(s) : s[m].path # p) => (p \in h[n] <=> p \in on)

-----------------------------------------------------------------------------
(* The inductive invariant *)

\* Sets of paths are finite
CountsPaths == \A S \in SUBSET Paths : Cardinality(S) \in Nat

ObjTargets == {"insert", "get", "write", "set"}

KernelDevices == [on : BOOLEAN, gen : Nat, auth : {"allow", "block"},
                  boot : BOOLEAN, rule : Targets \cup {"none"}]

Objects == [path : Paths, gen : Nat, target : Targets, rule : Targets, parent : Nat]

JobTypeOK(j, known) ==
  /\ j \in Jobs
  /\ j.pc # "idle" => j.path \in Paths
  /\ j.pc \in ObjTargets => j.target \in Targets
  /\ j.pc = "insert" => j.rule \in Rules
  /\ j.pc \in {"learn", "event", "get", "write", "set", "signal", "forget"} =>
       j.id \in known

DataTypeOK ==
  /\ kern \in [Paths -> KernelDevices]
  /\ \A p \in Paths : kern[p].on => kern[p].rule \in Rules
  /\ sock \in Seq(Events) /\ todo \in Seq(Events) /\ backlog \in Seq(Events)
  /\ main \in {"start", "scan", "backlog", "backlogged", "run"}
  /\ found \in BOOLEAN /\ enumeration \in BOOLEAN
  /\ ids \in [Paths -> Nat \cup {Unknown}]
  /\ \A p \in Paths : ids[p] > NoID => ids[p] \in DOMAIN obj
  /\ obj \in Seq(Objects)
  /\ devmap \subseteq DOMAIN obj /\ mutex \subseteq DOMAIN obj
  /\ announced \subseteq DOMAIN obj
  /\ requests \in 0 .. MaxRequests

TypeInv ==
  /\ CountsPaths
  /\ DataTypeOK
  /\ job = [t \in Threads |-> job[t]] /\ \A t \in Threads : JobTypeOK(job[t], DOMAIN obj)

\* The thread that handles devices: main while it scans, then uevent
Worker == IF main = "run" THEN "uevent" ELSE "main"

Early == {"check", "look", "build", "insert", "learn"}
Deciding == {"event", "get", "write"}

\* Nothing but main runs until it has scanned
ScanInv ==
  /\ job["ipc"].pc \in {"idle", "get", "write", "set", "signal"} /\ job["ipc"].gen = 0
  /\ job["ipc"].pc # "idle" => requests > 0
  /\ main # "run" => sock = <<>> /\ job["uevent"].pc = "idle" /\ requests = 0
  /\ main # "scan" => job["main"].pc = "idle"
  /\ enumeration = (main = "scan")
  /\ backlog = <<>>
  /\ main = "backlogged" => todo = <<>>
  /\ main = "start" => \A p \in Paths : ids[p] = Unknown
  /\ main = "scan" =>
       /\ \A i, k \in DOMAIN todo : i < k => Rank[todo[i].path] < Rank[todo[k].path]
       /\ \A i \in DOMAIN todo :
            /\ ids[todo[i].path] = Unknown
            /\ job["main"].pc # "idle" => Rank[job["main"].path] < Rank[todo[i].path]

\* What a present device may be told without another one disappearing
Mild(p, target) == target = "allow" \/ (target = "block" /\ Parent[p] # NoPath)

PresentInv ==
  main # "run" =>
    /\ \A p \in Paths : kern[p].boot /\ Mild(p, kern[p].auth)
    /\ \A id \in DOMAIN obj : Mild(obj[id].path, obj[id].target)
    /\ job["main"].pc \in ObjTargets => Mild(job["main"].path, job["main"].target)

\* Main has still to scan the path
Remaining(p) ==
  main = "start" \/ (main = "scan" /\ \E i \in DOMAIN todo : todo[i].path = p)

\* The state of the event that the worker j handles
JobInv(j, now) ==
  j.pc # "idle" =>
    /\ j.pc # "append"
    /\ \/ /\ j.act = "add" /\ j.pc # "forget" /\ j.path \in now
          /\ kern[j.path].boot = (main # "run")
       \/ /\ j.act = "remove" /\ j.pc \in {"check", "look", "forget"} /\ j.path \notin now
          /\ main = "run"
    /\ j.act = "add" /\ j.pc \in Early => ids[j.path] = IF main = "run" THEN Unknown ELSE NoID
    /\ j.pc \in {"build", "insert", "learn", "event"} => j.known = (main # "run")
    /\ j.pc \in {"build", "insert", "learn"} /\ NoEvent(j.path) => j.gen = kern[j.path].gen
    /\ j.pc = "insert" =>
         /\ Parent[j.path] # NoPath => j.parent > NoID /\ j.parent = ids[Parent[j.path]]
         /\ NoEvent(j.path) => j.rule = kern[j.path].rule
    /\ j.pc \in {"learn", "event", "get", "write", "set", "signal"} =>
         j.id \in devmap /\ obj[j.id].path = j.path /\ obj[j.id].gen = j.gen
    /\ j.pc = "learn" /\ NoEvent(j.path) => obj[j.id].rule = kern[j.path].rule
    /\ j.pc = "forget" =>
         /\ j.id = ids[j.path] /\ j.id \in announced /\ j.id \notin devmap
         /\ obj[j.id].path = j.path /\ HasDeviceRule(j.id)

\* The paths, the objects and the map agree, but for what the worker handles
MapInv(j, now) ==
  /\ \A p \in Paths : ids[p] > NoID =>
       /\ obj[ids[p]].path = p
       /\ ids[p] \in devmap \/ (j.pc = "forget" /\ j.path = p)
       /\ p \in now \/ (j.pc # "idle" /\ j.act = "remove" /\ j.path = p)
  /\ \A p \in Paths : ids[p] = NoID => main # "run" /\ j.path = p /\ j.pc \in Early
  /\ \A id \in devmap :
       /\ ids[obj[id].path] = id \/ (j.pc = "learn" /\ j.id = id)
       /\ Parent[obj[id].path] # NoPath =>
            obj[id].parent = ids[Parent[obj[id].path]] /\ obj[id].parent > NoID
  /\ \A id \in DOMAIN obj : id \in announced <=>
       \/ id \in devmap /\ ~(j.pc \in {"learn", "event"} /\ j.id = id)
       \/ j.pc = "forget" /\ j.id = id

\* A device that no event announces a change of is in the map, as it is
CurrentInv(j, now) ==
  \A p \in now : NoEvent(p) =>
    /\ ids[p] > NoID \/ Remaining(p) \/ (j.path = p /\ j.pc \in Early)
    /\ ids[p] > NoID => obj[ids[p]].gen = kern[p].gen /\ obj[ids[p]].rule = kern[p].rule

Method(p) == IF kern[p].boot THEN PresentPolicy(p) ELSE InsertedDevicePolicy

\* What the configuration asks for
Asks(p, target) ==
  Method(p) # "keep" =>
    target = IF Method(p) = "apply-policy" THEN kern[p].rule ELSE Method(p)

DecidedInv(j, now) ==
  requests = 0 => \A p \in now : NoEvent(p) /\ ids[p] > NoID =>
    /\ j.path = p /\ j.pc \in {"get", "write"} => Asks(p, j.target)
    /\ Asks(p, kern[p].auth) \/ (j.path = p /\ j.pc \in Deciding)

EventInv ==
  \A n \in DOMAIN sock : sock[n].act = "add" => ~kern[sock[n].path].boot

Track(h) ==
  /\ History(h, sock, Present)
  /\ JobInv(job[Worker], h[0])
  /\ MapInv(job[Worker], h[0])
  /\ CurrentInv(job[Worker], h[0])
  /\ DecidedInv(job[Worker], h[0])

Inv ==
  /\ TypeInv
  /\ ScanInv
  /\ PresentInv
  /\ EventInv
  /\ \E h : Track(h)

-----------------------------------------------------------------------------
(* IDs *)

\* A path without an ID, or unknown, has no positive one.
LEMMA IdOrder == ~(NoID > NoID) /\ ~(Unknown > NoID) /\ Unknown # NoID
  BY SMT, Z3 DEF NoID, Unknown

-----------------------------------------------------------------------------
(* Sequences of events *)

\* The events of an order of paths.
LEMMA OrderEvents ==
  ASSUME CountsPaths, NEW S \in SUBSET Paths, NEW s \in Orders(S),
         NEW a \in {"add", "remove", "scan"}
  PROVE  /\ Cardinality(S) \in Nat
         /\ s \in [1 .. Cardinality(S) -> S]
         /\ EventsOf(a, s) \in Seq(Events)
         /\ Len(EventsOf(a, s)) = Cardinality(S)
         /\ \A i \in 1 .. Cardinality(S) :
              EventsOf(a, s)[i].act = a /\ EventsOf(a, s)[i].path = s[i]
<1>1. Cardinality(S) \in Nat
  BY Zenon DEF CountsPaths
<1>2. s \in [1 .. Cardinality(S) -> S]
  BY Zenon DEF Orders
<1>3. EventsOf(a, s) = [n \in 1 .. Cardinality(S) |-> [act |-> a, path |-> s[n]]]
  BY <1>2, Zenon DEF EventsOf, Event
<1>4. \A n \in 1 .. Cardinality(S) : [act |-> a, path |-> s[n]] \in Events
  BY <1>2, Zenon DEF Events
<1>5. EventsOf(a, s) \in [1 .. Cardinality(S) -> Events]
  BY <1>3, <1>4, Zenon
<1>6. EventsOf(a, s) \in Seq(Events) /\ Len(EventsOf(a, s)) = Cardinality(S)
  BY <1>1, <1>5, SMT, Z3
<1> QED  BY <1>1, <1>2, <1>3, <1>6, SMT, Z3

-----------------------------------------------------------------------------
(* Changes of the kernel's devices *)

\* Sets of paths that hold the devices behind their hubs
Whole(S) == \A p \in Paths : Parent[p] \in S => p \in S

\* The socket after the events of a removal: one for every device that was
\* there, a hub last.
Removed(s, gone, c, order) ==
  /\ c \in Nat /\ order \in [1 .. c -> gone]
  /\ s \in Seq(Events)
  /\ Len(s) = Len(sock) + c /\ Len(sock) \in Nat
  /\ DOMAIN sock = 1 .. Len(sock) /\ DOMAIN s = 1 .. Len(sock) + c
  /\ \A i \in 1 .. Len(sock) : s[i] = sock[i]
  /\ \A i \in 1 .. c : s[Len(sock) + i].act = "remove" /\ s[Len(sock) + i].path = order[i]
  /\ \A p \in gone : \E i \in 1 .. c : order[i] = p
  /\ \A i, m \in 1 .. c : Parent[order[i]] = order[m] => i < m

\* A removal appends such events.
LEMMA RemovalShape ==
  ASSUME CountsPaths, sock \in Seq(Events), NEW gone \in SUBSET Paths,
         NEW order \in HubsLast(gone)
  PROVE  Removed(sock \o EventsOf("remove", order), gone, Cardinality(gone), order)
<1> DEFINE ev == EventsOf("remove", order)
           c == Cardinality(gone)
<1>1. order \in Orders(gone) /\ "remove" \in {"add", "remove", "scan"}
  BY Zenon DEF HubsLast
<1>2. c \in Nat /\ order \in [1 .. c -> gone] /\ ev \in Seq(Events) /\ Len(ev) = c
  <2>1. c \in Nat
    BY Zenon DEF CountsPaths
  <2>2. order \in [1 .. c -> gone]
    BY <1>1, Zenon DEF Orders
  <2>3. ev \in Seq(Events)
    BY <1>1, OrderEvents, Zenon
  <2>4. Len(ev) = c
    BY <1>1, OrderEvents, ZenonT(30)
  <2> QED  BY <2>1, <2>2, <2>3, <2>4, Zenon
<1>3. \A i \in 1 .. c : ev[i].act = "remove" /\ ev[i].path = order[i]
  BY <1>2 DEF EventsOf, Event
<1> HIDE DEF ev, c
<1>4. DOMAIN order = 1 .. c
  BY <1>2, Zenon
<1>5. /\ \A p \in gone : \E i \in 1 .. c : order[i] = p
      /\ \A i, m \in 1 .. c : Parent[order[i]] = order[m] => i < m
  BY <1>1, <1>4, ZenonT(30) DEF Orders, HubsLast
<1> DEFINE s == sock \o ev
<1>6. /\ s \in Seq(Events) /\ Len(s) = Len(sock) + Len(ev) /\ Len(sock) \in Nat
      /\ \A i \in 1 .. Len(sock) : s[i] = sock[i]
      /\ \A i \in 1 .. Len(ev) : s[Len(sock) + i] = ev[i]
  <2>1. ev \in Seq(Events)
    BY <1>2, Zenon
  <2> QED  BY <2>1, SMT, Z3
<1> HIDE DEF s
<1>7. DOMAIN sock = 1 .. Len(sock) /\ DOMAIN s = 1 .. Len(sock) + c
  BY <1>2, <1>6, SMT, Z3
<1>8. Len(s) = Len(sock) + c /\ Len(sock) \in Nat
  BY <1>2, <1>6, Zenon
<1>9. \A i \in 1 .. c : s[Len(sock) + i].act = "remove" /\ s[Len(sock) + i].path = order[i]
  BY <1>2, <1>3, <1>6, ZenonT(30)
<1>10. Removed(s, gone, c, order)
  BY <1>2, <1>5, <1>6, <1>7, <1>8, <1>9, Zenon DEF Removed
<1> QED  BY <1>10, Zenon DEF s, c, ev

\* What a removal changes: the devices of S are gone, and for each of them that
\* was there an event is pending.
LEMMA RemovalEffect ==
  ASSUME CountsPaths, NEW k \in [Paths -> KernelDevices], NEW S \in SUBSET Paths,
         sock \in Seq(Events), KernelRemove(k, S)
  PROVE  /\ sock' \in Seq(Events)
         /\ kern' \in [Paths -> KernelDevices]
         /\ \A p \in Paths :
              /\ kern'[p].gen = k[p].gen /\ kern'[p].auth = k[p].auth
              /\ kern'[p].boot = k[p].boot /\ kern'[p].rule = k[p].rule
              /\ kern'[p].on <=> k[p].on /\ p \notin S
              /\ NoEvent(p)' => NoEvent(p) /\ ~(p \in S /\ k[p].on)
         /\ \A n \in DOMAIN sock' :
              sock'[n].act = "remove" \/ (n \in DOMAIN sock /\ sock'[n] = sock[n])
         /\ S = {} => sock' = sock
<1> DEFINE gone == {p \in S : k[p].on}
           upd == [p \in Paths |-> IF p \in gone THEN [k[p] EXCEPT !.on = FALSE] ELSE k[p]]
           L == Len(sock)
<1>1. kern' = upd
  BY Zenon DEF KernelRemove
<1>2. \A p \in Paths :
         /\ upd[p] \in KernelDevices
         /\ upd[p].gen = k[p].gen /\ upd[p].auth = k[p].auth
         /\ upd[p].boot = k[p].boot /\ upd[p].rule = k[p].rule
         /\ upd[p].on <=> k[p].on /\ p \notin S
  BY Zenon DEF KernelDevices
<1>3. \A p \in Paths : p \in gone <=> p \in S /\ k[p].on
  BY Zenon
<1>a. PICK c, order : Removed(sock', gone, c, order)
  <2>1. PICK order \in HubsLast(gone) : sock' = sock \o EventsOf("remove", order)
    BY Zenon DEF KernelRemove
  <2>2. gone \in SUBSET Paths
    BY Zenon
  <2> HIDE DEF gone
  <2> QED  BY <2>1, <2>2, RemovalShape, Zenon
<1> HIDE DEF gone
<1>4. /\ c \in Nat /\ order \in [1 .. c -> gone]
      /\ sock' \in Seq(Events) /\ Len(sock') = L + c
      /\ L \in Nat /\ DOMAIN sock = 1 .. L /\ DOMAIN sock' = 1 .. L + c
      /\ \A i \in 1 .. L : sock'[i] = sock[i]
      /\ \A i \in 1 .. c : sock'[L + i].act = "remove" /\ sock'[L + i].path = order[i]
      /\ \A p \in gone : \E i \in 1 .. c : order[i] = p
      /\ \A i, m \in 1 .. c : Parent[order[i]] = order[m] => i < m
  BY <1>a, Zenon DEF Removed
<1> HIDE DEF upd, L
<1>5. ASSUME NEW p \in Paths, NoEvent(p)'
      PROVE  NoEvent(p) /\ p \notin gone
  <2>1. \A n \in 1 .. L + c : sock'[n].path # p
    BY <1>4, <1>5, Zenon DEF NoEvent
  <2>2. NoEvent(p)
    BY <1>4, <2>1, SMT, Z3 DEF NoEvent
  <2>3. \A i \in 1 .. c : L + i \in 1 .. L + c
    BY <1>4, SMT, Z3
  <2>4. ASSUME p \in gone
        PROVE  FALSE
    <3>1. PICK i \in 1 .. c : order[i] = p
      BY <1>4, <2>4, Zenon
    <3> QED  BY <1>4, <2>1, <2>3, <3>1, Zenon
  <2> QED  BY <2>2, <2>4, Zenon
<1>6. ASSUME NEW n \in DOMAIN sock'
      PROVE  sock'[n].act = "remove" \/ (n \in DOMAIN sock /\ sock'[n] = sock[n])
  <2>1. n \in 1 .. L \/ (n - L \in 1 .. c /\ L + (n - L) = n)
    BY <1>4, SMT, Z3
  <2> QED  BY <1>4, <2>1, SMT, Z3, SMTT(20), Z3T(20)
<1>7. kern' \in [Paths -> KernelDevices]
  BY <1>1, <1>2, Zenon DEF upd
<1>8. ASSUME S = {}
      PROVE  sock' = sock
  <2>1. gone = {}
    BY <1>8, Zenon DEF gone
  <2>2. c = 0
    BY <1>4, <2>1, SMT, Z3
  <2> QED  BY <1>4, <2>2, SMT, Z3
<1> QED  BY <1>1, <1>2, <1>3, <1>4, <1>5, <1>6, <1>7, <1>8, Zenon

\* A removal continues the history of the events.
LEMMA RemovalHistory ==
  ASSUME CountsPaths, NEW k \in [Paths -> KernelDevices], NEW S \in SUBSET Paths, Whole(S),
         sock \in Seq(Events), KernelRemove(k, S),
         NEW h, History(h, sock, {p \in Paths : k[p].on})
  PROVE  \E g : History(g, sock', Present') /\ g[0] = h[0]
<1> DEFINE on == {p \in Paths : k[p].on}
           gone == {p \in S : k[p].on}
           L == Len(sock)
<1>1. gone \subseteq S /\ gone \subseteq on /\ \A p \in on : p \in S => p \in gone
  BY Zenon
<1>2. Present' = on \ gone
  <2>1. \A p \in Paths : kern'[p].on <=> k[p].on /\ p \notin S
    BY RemovalEffect, Zenon
  <2> QED  BY <2>1, Zenon DEF Present
<1>3. History(h, sock, on) /\ on \subseteq Paths
  BY Zenon
<1>a. PICK c, order : Removed(sock', gone, c, order)
  <2>1. PICK order \in HubsLast(gone) : sock' = sock \o EventsOf("remove", order)
    BY Zenon DEF KernelRemove
  <2>2. gone \in SUBSET Paths
    BY Zenon
  <2> HIDE DEF gone
  <2> QED  BY <2>1, <2>2, RemovalShape, Zenon
<1> HIDE DEF gone
<1>4. /\ c \in Nat /\ order \in [1 .. c -> gone]
      /\ sock' \in Seq(Events) /\ Len(sock') = L + c
      /\ L \in Nat /\ DOMAIN sock = 1 .. L /\ DOMAIN sock' = 1 .. L + c
      /\ \A i \in 1 .. L : sock'[i] = sock[i]
      /\ \A i \in 1 .. c : sock'[L + i].act = "remove" /\ sock'[L + i].path = order[i]
      /\ \A p \in gone : \E i \in 1 .. c : order[i] = p
      /\ \A i, m \in 1 .. c : Parent[order[i]] = order[m] => i < m
  BY <1>a, Zenon DEF Removed
<1>n. L \in Nat /\ c \in Nat
  BY <1>4, Zenon
<1> HIDE DEF on, L
<1> DEFINE g == [n \in 0 .. L + c |->
                   IF n <= L THEN h[n] ELSE on \ {order[i] : i \in 1 .. n - L}]
<1>8. /\ h \in [0 .. L -> SUBSET Paths]
      /\ \A n \in 0 .. L : \A p \in h[n] : Parent[p] # NoPath => Parent[p] \in h[n]
      /\ \A n \in 1 .. L :
           \/ sock[n].act = "add" /\ sock[n].path \notin h[n - 1] /\ h[n] = h[n - 1] \cup {sock[n].path}
           \/ sock[n].act = "remove" /\ h[n] = h[n - 1] \ {sock[n].path}
      /\ \A n \in 0 .. L : \A p \in Paths :
           (\A m \in n + 1 .. L : sock[m].path # p) => (p \in h[n] <=> p \in on)
  BY <1>3, <1>4, Zenon DEF History, L
<1>9. h[L] = on
  <2>1. \A p \in Paths : p \in h[L] <=> p \in on
    BY <1>n, <1>8, SMT, Z3, SMTT(20), Z3T(20)
  <2>2. h[L] \subseteq Paths /\ on \subseteq Paths
    BY <1>3, <1>n, <1>8, SMT, Z3
  <2> QED  BY <2>1, <2>2, Zenon
<1>10. \A i \in 0 .. c : g[L + i] = on \ {order[m] : m \in 1 .. i}
  <2>1. TAKE i \in 0 .. c
  <2>2. CASE i = 0
    BY <1>n, <1>9, <2>2, SMT, Z3
  <2>3. CASE i # 0
    <3>1. L + i \in 0 .. L + c /\ ~(L + i <= L) /\ (L + i) - L = i
      BY <1>n, <2>3, SMT, Z3
    <3> QED  BY <3>1, Zenon
  <2> QED  BY <2>2, <2>3, Zenon
<1>11. \A n \in 0 .. L : g[n] = h[n]
  BY <1>n, SMT, Z3
<1>12. \A n \in 0 .. L + c : n \in 0 .. L \/ (n - L \in 1 .. c /\ L + (n - L) = n)
  BY <1>n, SMT, Z3
<1>13. g \in [0 .. Len(sock') -> SUBSET Paths]
  <2>1. \A n \in 0 .. L + c : (n <= L => h[n] \in SUBSET Paths) /\ on \in SUBSET Paths
    BY <1>3, <1>n, <1>8, SMT, Z3
  <2> QED  BY <1>4, <2>1, Zenon
<1> HIDE DEF g
<1>14. ASSUME NEW n \in 0 .. L + c, NEW p \in g[n], Parent[p] # NoPath
       PROVE  Parent[p] \in g[n]
  <2>1. CASE n \in 0 .. L
    BY <1>8, <1>11, <1>14, <2>1, Zenon
  <2>2. CASE n - L \in 1 .. c /\ L + (n - L) = n
    <3> DEFINE i == n - L
    <3>1. g[n] = on \ {order[m] : m \in 1 .. i}
      BY <1>10, <2>2, SMT, Z3
    <3>2. p \in on /\ Parent[p] \in on
      <4>1. p \in h[L] /\ L \in 0 .. L
        BY <1>n, <1>9, <1>14, <3>1, SMT, Z3, SMTT(20), Z3T(20)
      <4> QED  BY <1>8, <1>9, <1>14, <4>1, Zenon
    <3> HIDE DEF i
    <3>3. ASSUME NEW m \in 1 .. i, order[m] = Parent[p]
          PROVE  FALSE
      <4>1. m \in 1 .. c
        BY <1>n, <2>2, <3>3, SMT, Z3, SMTT(20), Z3T(20) DEF i
      <4>2. Parent[p] \in S /\ p \in gone
        BY <1>1, <1>3, <1>4, <3>2, <3>3, <4>1, Zenon DEF Whole
      <4>3. PICK q \in 1 .. c : order[q] = p
        BY <1>4, <4>2, Zenon
      <4>4. q < m
        BY <1>4, <3>3, <4>1, <4>3, Zenon
      <4>5. q \in 1 .. i
        BY <2>2, <4>1, <4>3, <4>4, SMT, Z3, SMTT(20), Z3T(20) DEF i
      <4> QED  BY <1>14, <3>1, <4>3, <4>5, Zenon
    <3> QED  BY <3>1, <3>2, <3>3, Zenon
  <2> QED  BY <1>12, <2>1, <2>2, Zenon
<1>15. ASSUME NEW n \in 1 .. L + c
       PROVE  \/ /\ sock'[n].act = "add" /\ sock'[n].path \notin g[n - 1]
                 /\ g[n] = g[n - 1] \cup {sock'[n].path}
              \/ sock'[n].act = "remove" /\ g[n] = g[n - 1] \ {sock'[n].path}
  <2>1. CASE n \in 1 .. L
    <3>1. n - 1 \in 0 .. L /\ n \in 0 .. L
      BY <1>n, <2>1, SMT, Z3
    <3> QED  BY <1>4, <1>8, <1>11, <2>1, <3>1, SMT, Z3, SMTT(20), Z3T(20)
  <2>2. CASE n > L
    <3> DEFINE i == n - L
    <3>1. i \in 1 .. c /\ L + i = n /\ i - 1 \in 0 .. c /\ L + (i - 1) = n - 1 /\ i \in 0 .. c
      BY <1>n, <2>2, SMT, Z3
    <3>2. g[n] = on \ {order[m] : m \in 1 .. i}
      BY <1>10, <3>1, Zenon
    <3>3. g[n - 1] = on \ {order[m] : m \in 1 .. i - 1}
      BY <1>10, <3>1, Zenon
    <3>4. sock'[n].act = "remove" /\ sock'[n].path = order[i]
      BY <1>4, <3>1, SMT, Z3, SMTT(20), Z3T(20)
    <3>5. \A m \in Int : m \in 1 .. i <=> m \in 1 .. i - 1 \/ m = i
      BY <3>1, SMT, Z3, SMTT(20), Z3T(20)
    <3>6. {order[m] : m \in 1 .. i} = {order[m] : m \in 1 .. i - 1} \cup {order[i]}
      BY <3>1, <3>5, SMT, Z3
    <3> QED  BY <3>2, <3>3, <3>4, <3>6, Zenon
  <2> QED  BY <1>n, <2>1, <2>2, SMT, Z3, SMTT(20), Z3T(20)
<1>16. ASSUME NEW n \in 0 .. L + c, NEW p \in Paths,
              \A m \in n + 1 .. L + c : sock'[m].path # p
       PROVE  p \in g[n] <=> p \in on \ gone
  <2>1. CASE n \in 0 .. L
    <3>1. \A i \in 1 .. c : L + i \in n + 1 .. L + c
      BY <1>n, <2>1, SMT, Z3
    <3>2. ASSUME p \in gone
          PROVE  FALSE
      <4>1. PICK i \in 1 .. c : order[i] = p
        BY <1>4, <3>2, Zenon
      <4>2. L + i \in n + 1 .. L + c /\ sock'[L + i].path = p
        BY <1>4, <3>1, <4>1, Zenon
      <4> QED  BY <1>16, <4>2, Zenon
    <3>3. \A m \in n + 1 .. L : m \in n + 1 .. L + c /\ m \in 1 .. L
      BY <1>n, <2>1, SMT, Z3, SMTT(20), Z3T(20)
    <3>4. \A m \in n + 1 .. L : sock[m].path # p
      BY <1>4, <1>16, <3>3, Zenon
    <3> QED  BY <1>8, <1>11, <2>1, <3>2, <3>4, Zenon
  <2>2. CASE n - L \in 1 .. c /\ L + (n - L) = n
    <3> DEFINE i == n - L
    <3>1. g[n] = on \ {order[m] : m \in 1 .. i}
      BY <1>10, <2>2, SMT, Z3, SMTT(20), Z3T(20)
    <3>2. {order[m] : m \in 1 .. i} \subseteq gone
      <4>1. \A m \in 1 .. i : m \in 1 .. c
        BY <1>n, <2>2, SMT, Z3, SMTT(20), Z3T(20)
      <4> QED  BY <1>4, <4>1, SMT, Z3, SMTT(20), Z3T(20)
    <3>3. ASSUME p \in gone
          PROVE  p \in {order[m] : m \in 1 .. i}
      <4>1. PICK q \in 1 .. c : order[q] = p
        BY <1>4, <3>3, Zenon
      <4>2. CASE q \in 1 .. i
        BY <4>1, <4>2, Zenon
      <4>3. CASE q > i
        <5>1. L + q \in n + 1 .. L + c
          BY <1>n, <2>2, <4>1, <4>3, SMT, Z3, SMTT(20), Z3T(20)
        <5> QED  BY <1>4, <1>16, <4>1, <5>1, Zenon
      <4> QED  BY <2>2, <4>1, <4>2, <4>3, SMT, Z3, SMTT(20), Z3T(20)
    <3> QED  BY <3>1, <3>2, <3>3, Zenon
  <2> QED  BY <1>12, <2>1, <2>2, Zenon
<1>17. History(g, sock', Present')
  BY <1>2, <1>4, <1>13, <1>14, <1>15, <1>16, ZenonT(30) DEF History
<1>18. g[0] = h[0]
  BY <1>n, <1>11, SMT, Z3
<1> QED  BY <1>17, <1>18, Zenon

\* What applyDevicePolicy does to the kernel's devices
Applied(p, target) ==
  /\ sock' \in Seq(Events)
  /\ kern' \in [Paths -> KernelDevices]
  /\ \A q \in Paths :
       /\ kern'[q].gen = kern[q].gen /\ kern'[q].boot = kern[q].boot
       /\ kern'[q].rule = kern[q].rule /\ (kern'[q].on => kern[q].on)
       /\ NoEvent(q)' => NoEvent(q)
       /\ q # p => kern'[q].auth = kern[q].auth
  /\ target # "reject" => kern'[p].auth = target
  /\ target = "reject" => ~kern'[p].on /\ (kern[p].on => ~NoEvent(p)')
  /\ \A n \in DOMAIN sock' :
       sock'[n].act = "remove" \/ (n \in DOMAIN sock /\ sock'[n] = sock[n])
  /\ \A h : History(h, sock, Present) => \E g : History(g, sock', Present') /\ g[0] = h[0]
  /\ Mild(p, target) => sock' = sock /\ \A q \in Paths : (kern'[q].on <=> kern[q].on)

\* A path and the devices behind it, and those devices alone, are whole.
LEMMA WholeSets ==
  ASSUME NEW p \in Paths
  PROVE  /\ Children(p) \in SUBSET Paths /\ Whole(Children(p))
         /\ {p} \cup Children(p) \in SUBSET Paths /\ Whole({p} \cup Children(p))
         /\ Parent[p] # NoPath => Children(p) = {}
<1>1. \A q \in Paths : Parent[q] # NoPath => Parent[q] \in Paths /\ Parent[Parent[q]] = NoPath
  BY ConstantsAssumption, Zenon
<1>2. NoPath \notin Paths
  BY ConstantsAssumption, Zenon
<1> QED  BY <1>1, <1>2, Zenon DEF Children, Whole

\* KernelApply does that.
LEMMA ApplyEffect ==
  ASSUME CountsPaths, sock \in Seq(Events), kern \in [Paths -> KernelDevices],
         NEW p \in Paths, NEW target \in Targets, KernelApply(p, target)
  PROVE  Applied(p, target)
<1> DEFINE k == [kern EXCEPT ![p].auth = target]
<1>1. CASE target = "allow"
  <2>1. kern' = k /\ sock' = sock
    BY <1>1, Zenon DEF KernelApply
  <2>2. /\ k \in [Paths -> KernelDevices]
        /\ \A q \in Paths :
             /\ k[q].gen = kern[q].gen /\ k[q].boot = kern[q].boot
             /\ k[q].rule = kern[q].rule /\ k[q].on = kern[q].on
             /\ q # p => k[q].auth = kern[q].auth
        /\ k[p].auth = target
    BY <1>1, SMT, Z3 DEF KernelDevices
  <2>3. Present' = Present
    BY <2>1, <2>2, Zenon DEF Present
  <2>4. \A q \in Paths : NoEvent(q)' = NoEvent(q)
    BY <2>1, Zenon DEF NoEvent
  <2> HIDE DEF k
  <2>5. \A h : History(h, sock, Present) => \E g : History(g, sock', Present') /\ g[0] = h[0]
    BY <2>1, <2>3, Zenon
  <2> QED  BY <1>1, <2>1, <2>2, <2>3, <2>4, <2>5, Zenon DEF Applied
<1>2. CASE target = "block"
  <2> DEFINE S == Children(p)
  <2>1. KernelRemove(k, S)
    BY <1>2, Zenon DEF KernelApply
  <2>2. /\ k \in [Paths -> KernelDevices]
        /\ \A q \in Paths :
             /\ k[q].gen = kern[q].gen /\ k[q].boot = kern[q].boot
             /\ k[q].rule = kern[q].rule /\ k[q].on = kern[q].on
             /\ q # p => k[q].auth = kern[q].auth
        /\ k[p].auth = target
    BY <1>2, SMT, Z3 DEF KernelDevices
  <2>3. {q \in Paths : k[q].on} = Present
    BY <2>2, Zenon DEF Present
  <2>a. S \in SUBSET Paths /\ Whole(S) /\ (Parent[p] # NoPath => S = {})
    BY WholeSets, Zenon
  <2> HIDE DEF k, S
  <2>b. k \in [Paths -> KernelDevices]
    BY <2>2, Zenon
  <2>4. /\ sock' \in Seq(Events)
        /\ kern' \in [Paths -> KernelDevices]
        /\ \A q \in Paths :
             /\ kern'[q].gen = k[q].gen /\ kern'[q].auth = k[q].auth
             /\ kern'[q].boot = k[q].boot /\ kern'[q].rule = k[q].rule
             /\ kern'[q].on <=> k[q].on /\ q \notin S
             /\ NoEvent(q)' => NoEvent(q) /\ ~(q \in S /\ k[q].on)
        /\ \A n \in DOMAIN sock' :
             sock'[n].act = "remove" \/ (n \in DOMAIN sock /\ sock'[n] = sock[n])
        /\ S = {} => sock' = sock
    BY <2>1, <2>a, <2>b, RemovalEffect, Zenon
  <2>5. \A h : History(h, sock, Present) => \E g : History(g, sock', Present') /\ g[0] = h[0]
    BY <2>1, <2>2, <2>3, <2>a, RemovalHistory, Zenon
  <2>6. ASSUME Mild(p, target)
        PROVE  sock' = sock /\ \A q \in Paths : (kern'[q].on <=> kern[q].on)
    <3>1. S = {}
      BY <1>2, <2>6, <2>a, Zenon DEF Mild
    <3> QED  BY <2>2, <2>4, <3>1, Zenon
  <2> QED  BY <1>2, <2>2, <2>4, <2>5, <2>6, SMT, Z3, SMTT(20), Z3T(20) DEF Applied
<1>3. CASE target = "reject"
  <2> DEFINE S == {p} \cup Children(p)
  <2>1. KernelRemove(kern, S) /\ p \in S
    BY <1>3, Zenon DEF KernelApply
  <2>2. S \in SUBSET Paths /\ Whole(S)
    BY WholeSets, Zenon
  <2> HIDE DEF S
  <2>3. {q \in Paths : kern[q].on} = Present
    BY Zenon DEF Present
  <2>4. /\ sock' \in Seq(Events)
        /\ kern' \in [Paths -> KernelDevices]
        /\ \A q \in Paths :
             /\ kern'[q].gen = kern[q].gen /\ kern'[q].auth = kern[q].auth
             /\ kern'[q].boot = kern[q].boot /\ kern'[q].rule = kern[q].rule
             /\ kern'[q].on <=> kern[q].on /\ q \notin S
             /\ NoEvent(q)' => NoEvent(q) /\ ~(q \in S /\ kern[q].on)
        /\ \A n \in DOMAIN sock' :
             sock'[n].act = "remove" \/ (n \in DOMAIN sock /\ sock'[n] = sock[n])
    BY <2>1, <2>2, RemovalEffect, Zenon
  <2>5. \A h : History(h, sock, Present) => \E g : History(g, sock', Present') /\ g[0] = h[0]
    BY <2>1, <2>2, <2>3, RemovalHistory, Zenon
  <2>6. ~Mild(p, target)
    BY <1>3, Zenon DEF Mild
  <2> QED  BY <1>3, <2>1, <2>4, <2>5, <2>6, Zenon DEF Applied
<1> QED  BY <1>1, <1>2, <1>3, Zenon DEF Targets

-----------------------------------------------------------------------------
(* Types *)

\* The invariant has the types of module DeviceManager.
LEMMA TypesHold ==
  ASSUME TypeInv
  PROVE  TypeOK
<1>1. job \in [Threads -> Jobs]
  BY Zenon DEF TypeInv, JobTypeOK
<1> QED  BY <1>1, Zenon DEF TypeInv, TypeOK, DataTypeOK, KernelDevices, Objects

\* The types of the constants.
LEMMA ConstantTypes ==
  /\ Rules \subseteq Targets /\ RequestTargets \subseteq Targets
  /\ AuthorizedDefault \in {"allow", "block"}
  /\ InsertedDevicePolicy \in {"block", "reject", "apply-policy"}
  /\ \A p \in Paths : PresentPolicy(p) \in Targets \cup {"keep", "apply-policy"}
  /\ MaxRequests \in Nat
  BY ConstantsAssumption, Zenon DEF PresentPolicy

NewJob(act, p, pc) == [NoJob EXCEPT !.pc = pc, !.act = act, !.path = p]

\* The idle job.
LEMMA NoJobTypes == ASSUME NEW known PROVE JobTypeOK(NoJob, known)
  BY ConstantsAssumption, Zenon DEF JobTypeOK, NoJob, Jobs, ObjTargets, NoID

\* The events that main enumerates.
LEMMA EnumeratedTypes ==
  ASSUME CountsPaths, NEW s \in Enumerated
  PROVE  /\ s \in Seq(Events)
         /\ \A i \in DOMAIN s : s[i].path \in Paths
         /\ \A i, k \in DOMAIN s : i < k => Rank[s[i].path] < Rank[s[k].path]
         /\ \A p \in Present : \E i \in DOMAIN s : s[i].path = p
<1>1. PICK order \in Orders(Present) :
        /\ s = EventsOf("scan", order)
        /\ \A i, j \in DOMAIN order : i < j => Rank[order[i]] < Rank[order[j]]
  BY Zenon DEF Enumerated, Present
<1>2. Present \in SUBSET Paths /\ "scan" \in {"add", "remove", "scan"}
  BY Zenon DEF Present
<1>3. s \in Seq(Events)
  BY <1>1, <1>2, OrderEvents, Zenon
<1>4. order \in [1 .. Cardinality(Present) -> Present]
  BY Zenon DEF Orders
<1>5. DOMAIN s = DOMAIN order /\ \A i \in DOMAIN order : s[i].path = order[i]
  BY <1>1, <1>4, Zenon DEF EventsOf, Event
<1>6. \A p \in Present : \E i \in DOMAIN order : order[i] = p
  BY Zenon DEF Orders
<1>7. \A i \in DOMAIN s : s[i].path \in Paths
  BY <1>2, <1>4, <1>5, Zenon
<1>8. \A i, k \in DOMAIN s : i < k => Rank[s[i].path] < Rank[s[k].path]
  BY <1>1, <1>5, SMT, Z3, SMTT(20), Z3T(20)
<1>9. \A p \in Present : \E i \in DOMAIN s : s[i].path = p
  BY <1>5, <1>6, Zenon
<1> QED  BY <1>3, <1>7, <1>8, <1>9, Zenon

\* The type of an object.
LEMMA ObjectTypes ==
  ASSUME TypeInv, NEW id \in DOMAIN obj
  PROVE  /\ obj[id] \in Objects /\ obj[id].path \in Paths /\ obj[id].gen \in Nat
         /\ obj[id].target \in Targets /\ obj[id].rule \in Targets /\ obj[id].parent \in Nat
<1>1. obj \in Seq(Objects)
  BY Zenon DEF TypeInv, DataTypeOK
<1>2. obj[id] \in Objects
  BY <1>1, SMT, Z3, SMTT(20), Z3T(20)
<1> QED  BY <1>2, Zenon DEF Objects

\* The uevent thread is idle or handles an event of the device's path.
LEMMA UEventFacts ==
  ASSUME TypeInv, ScanInv, NEW h, Track(h), job["uevent"].pc # "idle" \/ sock # <<>>
  PROVE  /\ main = "run" /\ Worker = "uevent" /\ "uevent" \in Threads /\ ~enumeration
         /\ job["uevent"].pc # "append"
         /\ \A n \in DOMAIN sock : sock[n].act # "scan"
<1>1. main = "run"
  BY Zenon DEF ScanInv
<1>2. enumeration = FALSE /\ Worker = "uevent"
  BY <1>1, Zenon DEF ScanInv, Worker
<1>3. job["uevent"].pc # "append"
  BY <1>2, Zenon DEF Track, JobInv
<1>4. \A n \in DOMAIN sock : sock[n].act # "scan"
  BY Zenon DEF Track, History
<1> QED  BY <1>1, <1>2, <1>3, <1>4, Zenon DEF Threads

\* Every step keeps the types.
LEMMA TypesStay ==
  ASSUME Inv, [Next]_vars
  PROVE  TypeInv'
\* A step that changes the job of one thread and removes no object keeps the
\* types if the new job has one.
<1>JobStep.
  ASSUME TypeInv, NEW t \in Threads, NEW j, job' = [job EXCEPT ![t] = j],
         JobTypeOK(j, DOMAIN obj'), DataTypeOK', DOMAIN obj \subseteq DOMAIN obj'
  PROVE  TypeInv'
  <2> USE <1>JobStep
  <2>1. CountsPaths /\ \A u \in Threads : JobTypeOK(job[u], DOMAIN obj)
    BY Zenon DEF TypeInv
  <2>2. job' = [u \in Threads |-> job'[u]] /\ \A u \in Threads : job'[u] = IF u = t THEN j ELSE job[u]
    BY Zenon DEF TypeInv
  <2>3. \A u \in Threads : JobTypeOK(job'[u], DOMAIN obj')
    <3>1. TAKE u \in Threads
    <3>2. CASE u = t
      BY <2>2, <3>2, Zenon DEF JobTypeOK
    <3>3. CASE u # t
      BY <2>1, <2>2, <3>3, Zenon DEF JobTypeOK
    <3> QED  BY <3>2, <3>3, Zenon
  <2>4. CountsPaths'
    BY <2>1, Zenon DEF CountsPaths
  <2> QED  BY <2>2, <2>3, <2>4, Zenon DEF TypeInv
\* A step that leaves the jobs alone keeps the types if it keeps those of the data.
<1>DataStep.
  ASSUME TypeInv, job' = job, DataTypeOK', DOMAIN obj \subseteq DOMAIN obj'
  PROVE  TypeInv'
  <2> USE <1>DataStep
  <2>1. CountsPaths /\ \A u \in Threads : JobTypeOK(job[u], DOMAIN obj)
    BY Zenon DEF TypeInv
  <2>2. \A u \in Threads : JobTypeOK(job'[u], DOMAIN obj')
    BY <2>1, Zenon DEF JobTypeOK
  <2>3. CountsPaths'
    BY <2>1, Zenon DEF CountsPaths
  <2> QED  BY <2>2, <2>3, Zenon DEF TypeInv
\* Devices come and go.
<1>KernelTypes.
  ASSUME TypeInv, Kernel
  PROVE  TypeInv'
  <2> USE <1>KernelTypes
  <2>1. ASSUME NEW p \in Paths, NEW rule \in Rules, Plug(p, rule)
        PROVE  TypeInv'
    <3> DEFINE d == [on |-> TRUE, gen |-> kern[p].gen + 1, auth |-> AuthorizedDefault,
                     rule |-> rule, boot |-> main # "run"]
    <3>1. kern' = [kern EXCEPT ![p] = d] /\ sock' = Append(sock, Event("add", p))
      BY <2>1, Zenon DEF Plug
    <3>2. kern \in [Paths -> KernelDevices] /\ sock \in Seq(Events)
      BY Zenon DEF TypeInv, DataTypeOK
    <3>3. d \in KernelDevices /\ d.rule \in Rules
      BY <3>2, ConstantTypes, SMT, Z3 DEF KernelDevices
    <3>4. Event("add", p) \in Events
      BY Zenon DEF Event, Events
    <3> HIDE DEF d
    <3>5. sock' \in Seq(Events)
      BY <3>1, <3>2, <3>4, SMT, Z3, SMTT(20), Z3T(20)
    <3>6. kern' \in [Paths -> KernelDevices] /\ \A q \in Paths : kern'[q].on => kern'[q].rule \in Rules
      BY <3>1, <3>2, <3>3, Zenon DEF TypeInv, DataTypeOK
    <3>7. DataTypeOK'
      BY <2>1, <3>5, <3>6, Zenon DEF TypeInv, DataTypeOK, Plug, scanning, tracking
    <3> QED  BY <2>1, <3>7, <1>DataStep, Zenon DEF Plug, scanning, tracking
  <2>2. ASSUME NEW p \in Paths, Unplug(p)
        PROVE  TypeInv'
    <3> DEFINE S == {p} \cup Children(p)
    <3>1. KernelRemove(kern, S) /\ S \in SUBSET Paths
      BY <2>2, Zenon DEF Unplug, Children
    <3>2. CountsPaths /\ kern \in [Paths -> KernelDevices] /\ sock \in Seq(Events)
      BY Zenon DEF TypeInv, DataTypeOK
    <3> HIDE DEF S
    <3>3. /\ sock' \in Seq(Events) /\ kern' \in [Paths -> KernelDevices]
          /\ \A q \in Paths : kern'[q].rule = kern[q].rule /\ (kern'[q].on => kern[q].on)
      BY <3>1, <3>2, RemovalEffect, SMT, Z3
    <3>4. DataTypeOK'
      BY <2>2, <3>3, Zenon DEF TypeInv, DataTypeOK, Unplug, scanning, tracking
    <3> QED  BY <2>2, <3>4, <1>DataStep, Zenon DEF Unplug, scanning, tracking
  <2> QED  BY <2>1, <2>2, Zenon DEF Kernel
<1>NewJobTypes.
  ASSUME NEW act \in {"add", "remove", "scan"}, NEW p \in Paths, NEW pc \in {"check", "look"},
         act # "scan", NEW known
  PROVE  JobTypeOK(NewJob(act, p, pc), known)
  BY <1>NewJobTypes, ConstantsAssumption, Zenon DEF JobTypeOK, NewJob, NoJob, Jobs, ObjTargets, NoID
\* The scan and the backlog.
<1>ScanTypes.
  ASSUME TypeInv, backlog = <<>>, main = "backlogged" => todo = <<>>, Scan
  PROVE  TypeInv'
  <2> USE <1>ScanTypes
  <2>1. DataTypeOK /\ CountsPaths
    BY Zenon DEF TypeInv
  <2>2. CASE ScanBegin
    <3>1. todo' \in Seq(Events)
      BY <2>1, <2>2, EnumeratedTypes, Zenon DEF ScanBegin
    <3>2. DataTypeOK'
      BY <2>1, <2>2, <3>1, Zenon DEF DataTypeOK, ScanBegin, kernel, tracking
    <3> QED  BY <2>2, <3>2, <1>DataStep, Zenon DEF ScanBegin, kernel, tracking
  <2>3. CASE ScanTrigger
    <3> DEFINE p == Head(todo).path
    <3>a. Head(todo) \in Events /\ Tail(todo) \in Seq(Events)
      BY <2>1, <2>3, SMT, Z3, SMTT(20), Z3T(20) DEF DataTypeOK, ScanTrigger
    <3>1. todo' \in Seq(Events) /\ p \in Paths
      BY <2>3, <3>a, Zenon DEF ScanTrigger, Events
    <3>2. CASE kern[p].on
      <4>1. /\ ids' = [ids EXCEPT ![p] = NoID]
            /\ found' = TRUE
            /\ job' = [job EXCEPT !["main"] = NewJob("add", p, "look")]
        BY <2>3, <3>2, Zenon DEF ScanTrigger, NewJob
      <4> HIDE DEF p
      <4>2. DataTypeOK'
        BY <2>1, <2>3, <3>1, <4>1, SMT, Z3, SMTT(20), Z3T(20) DEF DataTypeOK, ScanTrigger, kernel, NoID
      <4>3. JobTypeOK(NewJob("add", p, "look"), DOMAIN obj')
        BY <3>1, <1>NewJobTypes, Zenon
      <4>4. "main" \in Threads /\ DOMAIN obj \subseteq DOMAIN obj'
        BY <2>3, Zenon DEF Threads, ScanTrigger
      <4> QED  BY <4>1, <4>2, <4>3, <4>4, <1>JobStep, Zenon
    <3>3. CASE ~kern[p].on
      <4>1. ids' = ids /\ found' = found /\ job' = job
        BY <2>3, <3>3, Zenon DEF ScanTrigger
      <4>2. DataTypeOK'
        BY <2>1, <2>3, <3>1, <4>1, Zenon DEF DataTypeOK, ScanTrigger, kernel
      <4> QED  BY <2>3, <4>1, <4>2, <1>DataStep, Zenon DEF ScanTrigger
    <3> QED  BY <3>2, <3>3, Zenon
  <2>4. CASE ScanEnd
    <3>1. DataTypeOK'
      BY <2>1, <2>4, Zenon DEF DataTypeOK, ScanEnd, kernel, tracking
    <3> QED  BY <2>4, <3>1, <1>DataStep, Zenon DEF ScanEnd, tracking
  <2>5. CASE BacklogBegin
    <3>1. DataTypeOK'
      BY <2>1, <2>5, Zenon DEF DataTypeOK, BacklogBegin, kernel, tracking
    <3> QED  BY <2>5, <3>1, <1>DataStep, Zenon DEF BacklogBegin, tracking
  <2>6. CASE BacklogNext
    <3>1. main' = "run" /\ todo' = todo /\ job' = job
      BY <2>6, Zenon DEF BacklogNext
    <3>2. DataTypeOK'
      BY <2>1, <2>6, <3>1, Zenon DEF DataTypeOK, BacklogNext, kernel, tracking
    <3> QED  BY <2>6, <3>1, <3>2, <1>DataStep, Zenon DEF BacklogNext, tracking
  <2> QED  BY <2>2, <2>3, <2>4, <2>5, <2>6, Zenon DEF Scan
\* The uevent thread takes an event of a device.
<1>UEventTypes.
  ASSUME TypeInv, ~enumeration \/ job["uevent"].pc = "idle", job["uevent"].pc # "append",
         \A n \in DOMAIN sock : sock[n].act # "scan", UEvent
  PROVE  TypeInv'
  <2> USE <1>UEventTypes
  <2>1. DataTypeOK /\ CountsPaths /\ "uevent" \in Threads
    BY Zenon DEF TypeInv, Threads
  <2>2. CASE ReadEvent
    <3> DEFINE a == Head(sock).act
               p == Head(sock).path
    <3>1. Head(sock) = sock[1] /\ 1 \in DOMAIN sock /\ sock' = Tail(sock) /\ sock' \in Seq(Events)
      BY <2>1, <2>2, SMT, Z3, SMTT(20), Z3T(20) DEF DataTypeOK, ReadEvent
    <3>a. sock[1] \in Events
      BY <2>1, <3>1, SMT, Z3, SMTT(20), Z3T(20) DEF DataTypeOK
    <3>2. p \in Paths /\ a \in {"add", "remove", "scan"} /\ a # "scan"
      BY <3>1, <3>a, Zenon DEF Events
    <3>3. job' = [job EXCEPT !["uevent"] = NewJob(a, p, "check")]
      BY <2>2, Zenon DEF ReadEvent, NewJob
    <3> HIDE DEF a, p
    <3>4. JobTypeOK(NewJob(a, p, "check"), DOMAIN obj')
      BY <3>2, <1>NewJobTypes, Zenon
    <3>5. DataTypeOK'
      BY <2>1, <2>2, <3>1, Zenon DEF DataTypeOK, ReadEvent, scanning, tracking
    <3>6. obj' = obj
      BY <2>2, Zenon DEF ReadEvent, tracking
    <3> QED  BY <2>1, <3>3, <3>4, <3>5, <3>6, <1>JobStep, Zenon
  <2>3. CASE CheckEnumeration
    <3> DEFINE j == [job["uevent"] EXCEPT !.pc = "look"]
    <3>1. job' = [job EXCEPT !["uevent"] = j]
      BY <2>1, <2>3, Zenon DEF CheckEnumeration, TypeInv
    <3>2. DataTypeOK' /\ obj' = obj
      BY <2>1, <2>3, Zenon DEF DataTypeOK, CheckEnumeration, kernel, scanning, tracking
    <3>3. JobTypeOK(j, DOMAIN obj')
      BY <2>1, <2>3, <3>2, SMT, Z3, SMTT(20), Z3T(20) DEF TypeInv, JobTypeOK, CheckEnumeration, Jobs, ObjTargets
    <3> HIDE DEF j
    <3> QED  BY <2>1, <3>1, <3>2, <3>3, <1>JobStep, Zenon
  <2> QED  BY <2>2, <2>3, Zenon DEF UEvent, AppendBacklog
\* A step that changes the fields of a job only.
<1>JobOnlyStep.
  ASSUME TypeInv, NEW t \in Threads, NEW j, job' = [job EXCEPT ![t] = j],
         JobTypeOK(j, DOMAIN obj),
         UNCHANGED <<kernel, scanning, tracking, mutex, requests, announced>>
  PROVE  TypeInv'
  <2> USE <1>JobOnlyStep
  <2>1. DataTypeOK' /\ obj' = obj
    BY Zenon DEF TypeInv, DataTypeOK, kernel, scanning, tracking
  <2> QED  BY <2>1, <1>JobStep, Zenon
\* Updates of a job.
<1>InsertJob.
  ASSUME NEW j \in Jobs, NEW n \in Nat, NEW target \in Targets, NEW rule \in Targets
  PROVE  [j EXCEPT !.pc = "insert", !.target = target, !.rule = rule, !.parent = n] \in Jobs
  BY <1>InsertJob, Zenon DEF Jobs
<1>BuildJob.
  ASSUME NEW j \in Jobs, NEW n \in Nat, NEW b \in BOOLEAN
  PROVE  [j EXCEPT !.pc = "build", !.gen = n, !.known = b] \in Jobs
  BY <1>BuildJob, Zenon DEF Jobs
<1>PresenceJob.
  ASSUME NEW j \in Jobs, NEW n \in Nat
  PROVE  [j EXCEPT !.pc = "event", !.id = n, !.known = TRUE] \in Jobs
  BY <1>PresenceJob, Zenon DEF Jobs
<1>ForgetJob.
  ASSUME NEW j \in Jobs, NEW n \in Nat
  PROVE  [j EXCEPT !.pc = "forget", !.id = n] \in Jobs
  BY <1>ForgetJob, Zenon DEF Jobs
\* The steps of ueventProcessAction up to the insertion.
<1>LookTypes.
  ASSUME TypeInv, NEW t \in Threads,
         LookPresence(t) \/ LookInsertion(t) \/ LookRemoval(t) \/ Build(t)
  PROVE  TypeInv'
  <2> USE <1>LookTypes
  <2> DEFINE p == job[t].path
  <2>1. DataTypeOK /\ CountsPaths /\ JobTypeOK(job[t], DOMAIN obj) /\ JobTypeOK(NoJob, DOMAIN obj)
    BY NoJobTypes, Zenon DEF TypeInv
  <2>2. CASE LookPresence(t)
    <3> DEFINE id == ids[p]
    <3>1. p \in Paths /\ id \in DOMAIN obj /\ id \in Nat
      <4>1. p \in Paths /\ id > NoID
        BY <2>1, <2>2, Zenon DEF LookPresence, JobTypeOK
      <4>2. id \in DOMAIN obj /\ obj \in Seq(Objects)
        BY <2>1, <4>1, Zenon DEF DataTypeOK
      <4>3. \A q \in Seq(Objects) : DOMAIN q \subseteq Nat
        BY SMT, Z3
      <4> QED  BY <4>1, <4>2, <4>3, Zenon
    <3>2. CASE id \in devmap /\ On(obj[id].path, obj[id].gen)
      <4> DEFINE j == [job[t] EXCEPT !.pc = "event", !.id = id, !.known = TRUE]
      <4>1. job' = [job EXCEPT ![t] = j]
        BY <2>2, <3>2, Zenon DEF LookPresence, TypeInv
      <4>2. j \in Jobs
        BY <2>1, <3>1, <1>PresenceJob, Zenon DEF JobTypeOK
      <4>3. j.pc = "event" /\ j.path = p /\ j.id = id
        BY <2>1, Zenon DEF JobTypeOK, Jobs
      <4> HIDE DEF j
      <4>4. JobTypeOK(j, DOMAIN obj)
        BY <3>1, <4>2, <4>3, Zenon DEF JobTypeOK, ObjTargets
      <4> QED  BY <2>2, <4>1, <4>4, <1>JobOnlyStep, Zenon DEF LookPresence
    <3>3. CASE ~(id \in devmap /\ On(obj[id].path, obj[id].gen))
      <4>1. job' = [job EXCEPT ![t] = NoJob]
        BY <2>2, <3>3, Zenon DEF LookPresence, Finish
      <4> QED  BY <2>1, <2>2, <4>1, <1>JobOnlyStep, Zenon DEF LookPresence
    <3> QED  BY <3>2, <3>3, ZenonT(30)
  <2>3. CASE LookInsertion(t)
    <3>1. p \in Paths /\ kern[p].gen \in Nat /\ KnownSysfsPath(p) \in BOOLEAN
      BY <2>1, <2>3, Zenon DEF LookInsertion, JobTypeOK, DataTypeOK, KernelDevices, KnownSysfsPath
    <3>2. CASE kern[p].on
      <4> DEFINE j == [job[t] EXCEPT !.pc = "build", !.gen = kern[p].gen, !.known = KnownSysfsPath(p)]
      <4>1. job' = [job EXCEPT ![t] = j]
        BY <2>3, <3>2, Zenon DEF LookInsertion, TypeInv
      <4>2. j \in Jobs
        BY <2>1, <3>1, <1>BuildJob, Zenon DEF JobTypeOK
      <4>3. j.pc = "build" /\ j.path = p
        BY <2>1, Zenon DEF JobTypeOK, Jobs
      <4> HIDE DEF j
      <4>4. JobTypeOK(j, DOMAIN obj)
        BY <3>1, <4>2, <4>3, Zenon DEF JobTypeOK, ObjTargets
      <4> QED  BY <2>3, <4>1, <4>4, <1>JobOnlyStep, Zenon DEF LookInsertion
    <3>3. CASE ~kern[p].on
      <4>1. job' = [job EXCEPT ![t] = NoJob]
        BY <2>3, <3>3, Zenon DEF LookInsertion, Finish
      <4> QED  BY <2>1, <2>3, <4>1, <1>JobOnlyStep, Zenon DEF LookInsertion
    <3> QED  BY <3>2, <3>3, Zenon
  <2>4. CASE LookRemoval(t)
    <3> DEFINE id == ids[p]
    <3>1. CASE id \in devmap
      <4> DEFINE j == [job[t] EXCEPT !.pc = "forget", !.id = id]
      <4>1. job' = [job EXCEPT ![t] = j] /\ devmap' = devmap \ {id}
        BY <2>4, <3>1, Zenon DEF LookRemoval, TypeInv
      <4>2. id \in DOMAIN obj /\ id \in Nat /\ p \in Paths
        BY <2>1, <2>4, <3>1, SMT, Z3, SMTT(20), Z3T(20) DEF DataTypeOK, JobTypeOK, LookRemoval
      <4>3. j \in Jobs
        BY <2>1, <4>2, <1>ForgetJob, Zenon DEF JobTypeOK
      <4>4. j.pc = "forget" /\ j.path = p /\ j.id = id
        BY <2>1, Zenon DEF JobTypeOK, Jobs
      <4> HIDE DEF j
      <4>5. JobTypeOK(j, DOMAIN obj)
        BY <4>2, <4>3, <4>4, Zenon DEF JobTypeOK, ObjTargets
      <4>6. DataTypeOK' /\ obj' = obj
        BY <2>1, <2>4, <4>1, Zenon DEF LookRemoval, DataTypeOK, kernel, scanning
      <4> QED  BY <4>1, <4>5, <4>6, <1>JobStep, Zenon
    <3>2. CASE id \notin devmap
      <4>1. job' = [job EXCEPT ![t] = NoJob] /\ devmap' = devmap
        BY <2>4, <3>2, Zenon DEF LookRemoval, Finish
      <4> QED  BY <2>1, <2>4, <4>1, <1>JobOnlyStep, Zenon DEF LookRemoval, tracking
    <3> QED  BY <3>1, <3>2, Zenon
  <2>5. CASE Build(t)
    <3> DEFINE orphan == Parent[p] # NoPath /\ ids[Parent[p]] = Unknown
               parent == IF Parent[p] = NoPath THEN NoID ELSE ids[Parent[p]]
               j == [job[t] EXCEPT !.pc = "insert", !.target = kern[p].auth, !.rule = kern[p].rule,
                                   !.parent = parent]
    <3>1. p \in Paths /\ (Parent[p] # NoPath => Parent[p] \in Paths)
      BY <2>1, <2>5, ConstantsAssumption, Zenon DEF Build, JobTypeOK
    <3>2. CASE On(p, job[t].gen) /\ ~orphan /\ job' = [job EXCEPT ![t] = j] /\ UNCHANGED kernel
      <4>1. parent \in Nat
        BY <2>1, <3>1, <3>2, Zenon DEF DataTypeOK, NoID
      <4>2. kern[p].auth \in Targets /\ kern[p].rule \in Rules /\ kern[p].rule \in Targets
        BY <2>1, <3>1, <3>2, ConstantTypes, Zenon DEF DataTypeOK, KernelDevices, On, Targets
      <4> HIDE DEF parent
      <4>3. j \in Jobs
        BY <2>1, <4>1, <4>2, <1>InsertJob, Zenon DEF JobTypeOK
      <4>4. j.pc = "insert" /\ j.path = p /\ j.target = kern[p].auth /\ j.rule = kern[p].rule
        BY <2>1, Zenon DEF JobTypeOK, Jobs
      <4> HIDE DEF j, orphan
      <4>5. JobTypeOK(j, DOMAIN obj)
        BY <3>1, <4>2, <4>3, <4>4, Zenon DEF JobTypeOK, ObjTargets
      <4> QED  BY <2>5, <3>2, <4>5, <1>JobOnlyStep, Zenon DEF Build
    <3>3. CASE KernelApply(p, "reject") /\ Finish(t)
      <4>1. Applied(p, "reject")
        BY <2>1, <3>1, <3>3, ApplyEffect, Zenon DEF DataTypeOK, Targets
      <4>2. DataTypeOK' /\ obj' = obj
        BY <2>1, <2>5, <4>1, Zenon DEF Build, DataTypeOK, scanning, tracking, Applied
      <4> QED  BY <2>1, <3>3, <4>2, <1>JobStep, Zenon DEF Finish
    <3>4. CASE Finish(t) /\ UNCHANGED kernel
      BY <2>1, <2>5, <3>4, <1>JobOnlyStep, Zenon DEF Build, Finish
    <3>5. \/ On(p, job[t].gen) /\ ~orphan /\ job' = [job EXCEPT ![t] = j] /\ UNCHANGED kernel
          \/ KernelApply(p, "reject") /\ Finish(t)
          \/ Finish(t) /\ UNCHANGED kernel
      BY <2>5, Zenon DEF Build, TypeInv
    <3> QED  BY <3>2, <3>3, <3>4, <3>5, Zenon
  <2> QED  BY <2>2, <2>3, <2>4, <2>5, Zenon
\* The other steps of ueventProcessAction.
<1>InsertTypes.
  ASSUME TypeInv, NEW t \in Threads, Insert(t) \/ Learn(t) \/ DeviceEvent(t) \/ Forget(t)
  PROVE  TypeInv'
  <2> USE <1>InsertTypes
  <2> DEFINE p == job[t].path
  <2>1. DataTypeOK /\ CountsPaths /\ JobTypeOK(job[t], DOMAIN obj) /\ job[t] \in Jobs
    BY Zenon DEF TypeInv, JobTypeOK
  <2>2. CASE Insert(t)
    <3> DEFINE o == [path |-> p, gen |-> job[t].gen, target |-> job[t].target,
                     rule |-> job[t].rule, parent |-> job[t].parent]
               id == Len(obj) + 1
               j == [job[t] EXCEPT !.pc = "learn", !.id = id]
    <3>1. o \in Objects /\ obj \in Seq(Objects)
      BY <2>1, <2>2, ConstantTypes, Zenon DEF Insert, JobTypeOK, DataTypeOK, Jobs, Objects, ObjTargets
    <3>2. obj' = Append(obj, o) /\ devmap' = devmap \cup {id}
      BY <2>2, Zenon DEF Insert, NextID
    <3>3. job' = [job EXCEPT ![t] = j]
      BY <2>2, Zenon DEF Insert, NextID, TypeInv
    <3> HIDE DEF o
    <3>4. /\ obj' \in Seq(Objects) /\ DOMAIN obj' = DOMAIN obj \cup {id} /\ id \in Nat
          /\ DOMAIN obj \subseteq DOMAIN obj'
      BY <3>1, <3>2, SMT, Z3, SMTT(20), Z3T(20)
    <3> HIDE DEF id
    <3>5. j \in Jobs
      BY <2>1, <3>4, Zenon DEF Jobs
    <3>6. j.pc = "learn" /\ j.path = p /\ j.id = id
      BY <2>1, Zenon DEF Jobs
    <3> HIDE DEF j
    <3>7. JobTypeOK(j, DOMAIN obj')
      BY <2>1, <2>2, <3>4, <3>5, <3>6, Zenon DEF JobTypeOK, ObjTargets, Insert
    <3>8. DataTypeOK'
      BY <2>1, <2>2, <3>2, <3>4, Zenon DEF DataTypeOK, Insert, kernel, scanning
    <3> QED  BY <3>3, <3>4, <3>7, <3>8, <1>JobStep, Zenon
  <2>3. CASE Learn(t)
    <3> DEFINE j == [job[t] EXCEPT !.pc = "event"]
    <3>1. job' = [job EXCEPT ![t] = j]
      BY <2>3, Zenon DEF Learn, Goto, TypeInv
    <3>2. j \in Jobs
      BY <2>1, Zenon DEF Jobs
    <3>3. JobTypeOK(j, DOMAIN obj)
      BY <2>1, <2>3, <3>2, Zenon DEF JobTypeOK, ObjTargets, Learn, Jobs
    <3> HIDE DEF j
    <3>4. p \in Paths /\ job[t].id \in DOMAIN obj /\ job[t].id \in Nat
      BY <2>1, <2>3, Zenon DEF JobTypeOK, Learn, Jobs
    <3>5. DataTypeOK' /\ obj' = obj
      BY <2>1, <2>3, <3>4, Zenon DEF DataTypeOK, Learn, kernel, scanning
    <3> QED  BY <3>1, <3>3, <3>5, <1>JobStep, Zenon
  <2>4. CASE DeviceEvent(t)
    <3> DEFINE id == job[t].id
    <3>1. id \in DOMAIN obj
      BY <2>1, <2>4, Zenon DEF DeviceEvent, JobTypeOK
    <3>2. CASE /\ announced' = announced \cup {id}
               /\ job' = [job EXCEPT ![t].pc = "get", ![t].target = PolicyRule(id, job[t].known)]
      <4> DEFINE target == PolicyRule(id, job[t].known)
                 j == [job[t] EXCEPT !.pc = "get", !.target = target]
      <4>1. target \in Targets
        <5>1. obj[id] \in Objects /\ obj[id].path \in Paths
          BY <3>1, ObjectTypes, Zenon
        <5>2. PresentPolicy(obj[id].path) \in Targets \cup {"keep", "apply-policy"}
          BY <5>1, ConstantTypes, Zenon
        <5>3. InsertedDevicePolicy \in Targets \cup {"keep", "apply-policy"}
          BY ConstantTypes, Zenon DEF Targets
        <5> DEFINE method == IF job[t].known THEN PresentPolicy(obj[id].path) ELSE InsertedDevicePolicy
        <5>4. method \in Targets \cup {"keep", "apply-policy"}
          BY <5>2, <5>3, Zenon
        <5>5. target = CASE method = "apply-policy" -> obj[id].rule
                         [] method = "keep" -> obj[id].target
                         [] OTHER -> method
          BY Zenon DEF PolicyRule
        <5> HIDE DEF target, method
        <5>6. obj[id].rule \in Targets /\ obj[id].target \in Targets
          BY <5>1, Zenon DEF Objects
        <5> QED  BY <5>4, <5>5, <5>6, Zenon
      <4>2. job' = [job EXCEPT ![t] = j]
        BY <3>2, Zenon DEF TypeInv
      <4> HIDE DEF target
      <4>3. j \in Jobs
        BY <2>1, <4>1, Zenon DEF Jobs
      <4>4. j.pc = "get" /\ j.path = p /\ j.id = id /\ j.target = target
        BY <2>1, Zenon DEF Jobs
      <4> HIDE DEF j
      <4>5. JobTypeOK(j, DOMAIN obj)
        BY <2>1, <2>4, <3>1, <4>1, <4>3, <4>4, Zenon DEF JobTypeOK, ObjTargets, DeviceEvent
      <4>6. DataTypeOK' /\ obj' = obj
        BY <2>1, <2>4, <3>1, <3>2, Zenon DEF DataTypeOK, DeviceEvent, kernel, scanning, tracking
      <4> QED  BY <4>2, <4>5, <4>6, <1>JobStep, Zenon
    <3>3. CASE Finish(t) /\ UNCHANGED announced
      BY <2>4, <3>3, NoJobTypes, <1>JobOnlyStep, Zenon DEF DeviceEvent, Finish
    <3> QED  BY <2>4, <3>2, <3>3, Zenon DEF DeviceEvent
  <2>5. CASE Forget(t)
    <3>1. p \in Paths /\ obj' = obj
      BY <2>1, <2>5, Zenon DEF JobTypeOK, Forget
    <3>2. ids' = [ids EXCEPT ![p] = Unknown] /\ announced' \subseteq announced
      BY <2>5, Zenon DEF Forget, Forgotten
    <3>3. ids' \in [Paths -> Nat \cup {Unknown}] /\ \A q \in Paths : ids'[q] > NoID => ids'[q] \in DOMAIN obj
      BY <2>1, <3>1, <3>2, SMT, Z3, SMTT(20), Z3T(20) DEF DataTypeOK, Unknown, NoID
    <3>4. DataTypeOK'
      BY <2>1, <2>5, <3>1, <3>2, <3>3, Zenon DEF DataTypeOK, Forget, kernel, scanning
    <3> QED  BY <2>5, <3>1, <3>4, NoJobTypes, <1>JobStep, Zenon DEF Forget, Finish
  <2> QED  BY <2>2, <2>3, <2>4, <2>5
\* The steps of applyDevicePolicy.
<1>ApplyTypes.
  ASSUME TypeInv, NEW t \in Threads, GetDevice(t) \/ Write(t) \/ SetTarget(t) \/ Signal(t)
  PROVE  TypeInv'
  <2> USE <1>ApplyTypes
  <2>1. DataTypeOK /\ CountsPaths /\ JobTypeOK(job[t], DOMAIN obj) /\ job[t] \in Jobs
    BY Zenon DEF TypeInv, JobTypeOK
  <2> DEFINE id == job[t].id
             j(pc) == [job[t] EXCEPT !.pc = pc]
  <2>2. ASSUME NEW pc \in {"write", "set", "signal"}, Goto(t, pc),
               job[t].pc \in {"get", "write", "set"}
        PROVE  job' = [job EXCEPT ![t] = j(pc)] /\ JobTypeOK(j(pc), DOMAIN obj)
    <3>1. job' = [job EXCEPT ![t] = j(pc)]
      BY <2>2, Zenon DEF Goto, TypeInv
    <3>2. j(pc) \in Jobs
      BY <2>1, Zenon DEF Jobs
    <3>3. j(pc).pc = pc /\ j(pc).path = job[t].path /\ j(pc).id = id /\ j(pc).target = job[t].target
      BY <2>1, Zenon DEF Jobs
    <3> HIDE DEF j
    <3> QED  BY <2>1, <2>2, <3>1, <3>2, <3>3, Zenon DEF JobTypeOK, ObjTargets
  <2> HIDE DEF j
  <2>3. CASE GetDevice(t)
    <3>1. CASE Goto(t, "write")
      BY <2>2, <2>3, <3>1, <1>JobOnlyStep, Zenon DEF GetDevice
    <3>2. CASE Finish(t)
      BY <2>3, <3>2, NoJobTypes, <1>JobOnlyStep, Zenon DEF GetDevice, Finish
    <3> QED  BY <2>3, <3>1, <3>2, Zenon DEF GetDevice
  <2>4. CASE Write(t)
    <3>1. CASE /\ KernelApply(obj[id].path, job[t].target) /\ mutex' = mutex \cup {id}
               /\ Goto(t, "set")
      <4>1. id \in DOMAIN obj /\ job[t].target \in Targets
        BY <2>1, <2>4, Zenon DEF Write, JobTypeOK, ObjTargets
      <4>2. obj[id].path \in Paths
        BY <4>1, ObjectTypes, Zenon
      <4>3. Applied(obj[id].path, job[t].target)
        BY <2>1, <3>1, <4>1, <4>2, ApplyEffect, Zenon DEF DataTypeOK
      <4>4. DataTypeOK' /\ obj' = obj
        BY <2>1, <2>4, <3>1, <4>1, <4>3, ZenonT(30) DEF DataTypeOK, Write, scanning, tracking, Applied
      <4> QED  BY <2>2, <2>4, <3>1, <4>4, <1>JobStep, Zenon DEF Write
    <3>2. CASE Finish(t) /\ UNCHANGED <<kernel, mutex>>
      BY <2>4, <3>2, NoJobTypes, <1>JobOnlyStep, Zenon DEF Write, Finish
    <3> QED  BY <2>4, <3>1, <3>2, Zenon DEF Write
  <2>5. CASE SetTarget(t)
    <3>1. id \in DOMAIN obj /\ job[t].target \in Targets /\ obj \in Seq(Objects)
      BY <2>1, <2>5, Zenon DEF SetTarget, JobTypeOK, ObjTargets, DataTypeOK
    <3>2. obj' = [obj EXCEPT ![id].target = job[t].target]
      BY <2>5, Zenon DEF SetTarget
    <3>3. obj[id] \in Objects
      BY <3>1, SMT, Z3, SMTT(20), Z3T(20)
    <3>4. [obj[id] EXCEPT !.target = job[t].target] \in Objects
      BY <3>1, <3>3, Zenon DEF Objects
    <3>5. obj' = [obj EXCEPT ![id] = [obj[id] EXCEPT !.target = job[t].target]]
      BY <3>1, <3>2, Zenon
    <3>6. obj' \in Seq(Objects) /\ DOMAIN obj' = DOMAIN obj
      BY <3>1, <3>4, <3>5, SMT, Z3, SMTT(20), Z3T(20)
    <3>7. DataTypeOK'
      BY <2>1, <2>5, <3>6, Zenon DEF DataTypeOK, SetTarget, kernel, scanning
    <3> QED  BY <2>2, <2>5, <3>6, <3>7, <1>JobStep, Zenon DEF SetTarget
  <2>6. CASE Signal(t)
    BY <2>6, NoJobTypes, <1>JobOnlyStep, Zenon DEF Signal, Finish
  <2> QED  BY <2>3, <2>4, <2>5, <2>6, Zenon
\* A client's request.
<1>RequestTypes.
  ASSUME TypeInv, NEW id \in devmap, NEW target \in RequestTargets, Request(id, target)
  PROVE  TypeInv'
  <2> USE <1>RequestTypes
  <2> DEFINE j == [NoJob EXCEPT !.pc = "get", !.act = "apply", !.path = obj[id].path,
                                !.id = id, !.target = target]
  <2>1. DataTypeOK /\ "ipc" \in Threads
    BY Zenon DEF TypeInv, Threads
  <2>2. id \in DOMAIN obj /\ id \in Nat /\ target \in Targets
    BY <2>1, ConstantTypes, SMT, Z3, SMTT(20), Z3T(20) DEF DataTypeOK
  <2>3. obj[id].path \in Paths
    BY <2>2, ObjectTypes, Zenon
  <2>4. job' = [job EXCEPT !["ipc"] = j]
    BY Zenon DEF Request
  <2>5. JobTypeOK(j, DOMAIN obj)
    BY <2>2, <2>3, ConstantsAssumption, Zenon DEF JobTypeOK, NoJob, Jobs, ObjTargets, NoID
  <2> HIDE DEF j
  <2>6. DataTypeOK' /\ obj' = obj
    BY <2>1, ConstantTypes, SMT, Z3, SMTT(20), Z3T(20) DEF DataTypeOK, Request, kernel, scanning, tracking
  <2> QED  BY <2>1, <2>4, <2>5, <2>6, <1>JobStep, Zenon
<1>1. TypeInv /\ ScanInv
  BY Zenon DEF Inv
<1>2. PICK h : Track(h)
  BY Zenon DEF Inv
<1>3. CASE Kernel
  BY <1>1, <1>3, <1>KernelTypes, Zenon
<1>4. CASE Scan
  BY <1>1, <1>4, <1>ScanTypes, Zenon DEF ScanInv
<1>5. CASE UEvent
  <2>1. job["uevent"].pc # "idle" \/ sock # <<>>
    BY <1>5, Zenon DEF UEvent, ReadEvent, CheckEnumeration, AppendBacklog
  <2> QED  BY <1>1, <1>2, <1>5, <2>1, UEventFacts, <1>UEventTypes, Zenon
<1>6. ASSUME NEW t \in Threads, Step(t)
      PROVE  TypeInv'
  BY <1>1, <1>6, <1>LookTypes, <1>InsertTypes, <1>ApplyTypes, Zenon DEF Step
<1>7. ASSUME NEW id \in devmap, NEW target \in RequestTargets, Request(id, target)
      PROVE  TypeInv'
  BY <1>1, <1>7, <1>RequestTypes, Zenon
<1>8. CASE UNCHANGED vars
  <2>1. DataTypeOK' /\ obj' = obj /\ job' = job
    BY <1>1, <1>8, Zenon DEF TypeInv, DataTypeOK, vars
  <2> QED  BY <1>1, <2>1, <1>DataStep, Zenon
<1> QED  BY <1>3, <1>4, <1>5, <1>6, <1>7, <1>8, Zenon DEF Next

-----------------------------------------------------------------------------
(* What the rest of a step keeps *)

\* The configurations for which nothing disappears while main scans: devices
\* neither come nor go by themselves, no access fails, and no present device is
\* told something that makes it or another one disappear
Undisturbed ==
  /\ ~StartupEvents /\ ~Errors
  /\ PresentControllerPolicy \in {"keep", "allow"}
       \/ (PresentControllerPolicy = "apply-policy" /\ Rules \subseteq {"allow"})
  /\ PresentDevicePolicy \in {"keep", "allow", "block"}
       \/ (PresentDevicePolicy = "apply-policy" /\ Rules \subseteq {"allow", "block"})

\* A change of the kernel's devices that announces what it changes keeps what
\* the invariant says of the daemon.
LEMMA KernelFrame ==
  ASSUME NEW j, NEW now \in SUBSET Paths, j.pc # "idle" => j.path \in Paths,
         JobInv(j, now), MapInv(j, now), CurrentInv(j, now),
         UNCHANGED <<main, todo, ids, obj, devmap, announced>>,
         \A q \in Paths :
           /\ kern'[q].boot = kern[q].boot \/ (main = "run" /\ kern'[q].boot = FALSE)
           /\ NoEvent(q)' => /\ NoEvent(q)
                             /\ kern'[q].gen = kern[q].gen /\ kern'[q].rule = kern[q].rule
                             /\ kern'[q].boot = kern[q].boot
  PROVE  JobInv(j, now)' /\ MapInv(j, now)' /\ CurrentInv(j, now)'
<1>1. JobInv(j, now)'
  <2> SUFFICES ASSUME j.pc # "idle"
               PROVE  JobInv(j, now)'
    BY Zenon DEF JobInv
  <2>1. j.path \in Paths
    BY Zenon
  <2>2. HasDeviceRule(j.id)' = HasDeviceRule(j.id)
    BY Zenon DEF HasDeviceRule
  <2> QED  BY <2>1, <2>2, Zenon DEF JobInv
<1>2. MapInv(j, now)'
  BY Zenon DEF MapInv
<1>3. CurrentInv(j, now)'
  <2>1. \A p \in Paths : Remaining(p)' = Remaining(p)
    BY Zenon DEF Remaining
  <2> QED  BY <2>1, SMT, Z3 DEF CurrentInv
<1> QED  BY <1>1, <1>2, <1>3, Zenon

\* If it changes no authorization either, the decisions stay.
LEMMA DecidedFrame ==
  ASSUME NEW j, NEW now \in SUBSET Paths, DecidedInv(j, now),
         UNCHANGED <<ids, requests>>,
         \A q \in Paths :
           NoEvent(q)' => /\ NoEvent(q)
                          /\ kern'[q].auth = kern[q].auth /\ kern'[q].rule = kern[q].rule
                          /\ kern'[q].boot = kern[q].boot
  PROVE  DecidedInv(j, now)'
<1>1. \A q \in Paths : NoEvent(q)' => Method(q)' = Method(q)
  BY Zenon DEF Method
<1>2. ASSUME NEW q \in Paths, NoEvent(q)'
      PROVE  Asks(q, kern[q].auth)' = Asks(q, kern[q].auth) /\ Asks(q, j.target)' = Asks(q, j.target)
  BY <1>1, <1>2, Zenon DEF Asks
<1> QED  BY <1>2, Zenon DEF DecidedInv

-----------------------------------------------------------------------------
(* Devices come and go *)

\* A step of the kernel that announces what it changes
Announces(h) ==
  /\ \E g : History(g, sock', Present') /\ g[0] = h[0]
  /\ EventInv'
  /\ \A q \in Paths :
       /\ kern'[q].boot = kern[q].boot \/ (main = "run" /\ kern'[q].boot = FALSE)
       /\ NoEvent(q)' => /\ NoEvent(q)
                         /\ kern'[q].gen = kern[q].gen /\ kern'[q].rule = kern[q].rule
                         /\ kern'[q].boot = kern[q].boot /\ kern'[q].auth = kern[q].auth

\* The invariant after a step that leaves the worker's job alone.
LEMMA KernelKeeps ==
  ASSUME Inv, TypeInv', Undisturbed, Kernel
  PROVE  Inv'
\* A new device continues the history of the events.
<1>PlugHistory.
  ASSUME sock \in Seq(Events), NEW p \in Paths, NEW on \in SUBSET Paths, p \notin on,
         Parent[p] # NoPath => Parent[p] \in on, NEW h, History(h, sock, on),
         sock' = Append(sock, Event("add", p))
  PROVE  \E g : History(g, sock', on \cup {p}) /\ g[0] = h[0]
  <2> USE <1>PlugHistory
  <2> DEFINE L == Len(sock)
             g == [n \in 0 .. L + 1 |-> IF n <= L THEN h[n] ELSE on \cup {p}]
  <2>1. /\ L \in Nat /\ Len(sock') = L + 1 /\ DOMAIN sock = 1 .. L /\ DOMAIN sock' = 1 .. L + 1
        /\ \A i \in 1 .. L : sock'[i] = sock[i]
        /\ sock'[L + 1].act = "add" /\ sock'[L + 1].path = p
    <3>1. Event("add", p) \in Events /\ Event("add", p).act = "add" /\ Event("add", p).path = p
      BY Zenon DEF Event, Events
    <3> QED  BY <3>1, SMT, Z3
  <2>2. /\ h \in [0 .. L -> SUBSET Paths]
        /\ \A n \in 0 .. L : \A q \in h[n] : Parent[q] # NoPath => Parent[q] \in h[n]
        /\ \A n \in 1 .. L :
             \/ sock[n].act = "add" /\ sock[n].path \notin h[n - 1] /\ h[n] = h[n - 1] \cup {sock[n].path}
             \/ sock[n].act = "remove" /\ h[n] = h[n - 1] \ {sock[n].path}
        /\ \A n \in 0 .. L : \A q \in Paths :
             (\A m \in n + 1 .. L : sock[m].path # q) => (q \in h[n] <=> q \in on)
    BY <2>1, Zenon DEF History
  <2>3. h[L] = on
    <3>1. \A q \in Paths : q \in h[L] <=> q \in on
      BY <2>1, <2>2, SMT, Z3, SMTT(20), Z3T(20)
    <3>2. h[L] \subseteq Paths
      BY <2>1, <2>2, SMT, Z3, SMTT(20), Z3T(20)
    <3> QED  BY <3>1, <3>2, Zenon
  <2> HIDE DEF L
  <2>4. /\ \A n \in 0 .. L : g[n] = h[n]
        /\ g[L + 1] = on \cup {p} /\ g[L] = on
    BY <2>1, <2>3, SMT, Z3, SMTT(20), Z3T(20)
  <2>5. g \in [0 .. L + 1 -> SUBSET Paths]
    <3>1. \A n \in 0 .. L + 1 : n <= L => h[n] \in SUBSET Paths
      BY <2>1, <2>2, SMT, Z3
    <3>2. on \cup {p} \in SUBSET Paths
      BY Zenon
    <3> QED  BY <3>1, <3>2, Zenon
  <2> HIDE DEF g
  <2>6. \A n \in 0 .. L + 1 : n \in 0 .. L \/ n = L + 1
    BY <2>1, SMT, Z3
  <2>7. ASSUME NEW n \in 0 .. L + 1, NEW q \in g[n], Parent[q] # NoPath
        PROVE  Parent[q] \in g[n]
    <3>1. CASE n \in 0 .. L
      BY <2>2, <2>4, <2>7, <3>1, Zenon
    <3>2. CASE n = L + 1
      <4>1. L \in 0 .. L
        BY <2>1, SMT, Z3, SMTT(20), Z3T(20)
      <4> QED  BY <2>2, <2>3, <2>4, <2>7, <3>2, <4>1, Zenon
    <3> QED  BY <2>6, <3>1, <3>2, Zenon
  <2>8. ASSUME NEW n \in 1 .. L + 1
        PROVE  \/ /\ sock'[n].act = "add" /\ sock'[n].path \notin g[n - 1]
                  /\ g[n] = g[n - 1] \cup {sock'[n].path}
               \/ sock'[n].act = "remove" /\ g[n] = g[n - 1] \ {sock'[n].path}
    <3>1. CASE n \in 1 .. L
      <4>1. n - 1 \in 0 .. L /\ n \in 0 .. L
        BY <2>1, <3>1, SMT, Z3, SMTT(20), Z3T(20)
      <4> QED  BY <2>1, <2>2, <2>4, <3>1, <4>1, SMT, Z3, SMTT(20), Z3T(20)
    <3>2. CASE n = L + 1
      <4>1. n - 1 = L
        BY <2>1, <3>2, SMT, Z3, SMTT(20), Z3T(20)
      <4> QED  BY <2>1, <2>4, <3>2, <4>1, Zenon
    <3> QED  BY <2>1, <3>1, <3>2, SMT, Z3, SMTT(20), Z3T(20)
  <2>9. ASSUME NEW n \in 0 .. L + 1, NEW q \in Paths,
               \A m \in n + 1 .. L + 1 : sock'[m].path # q
        PROVE  q \in g[n] <=> q \in on \cup {p}
    <3>1. CASE n \in 0 .. L
      <4>1. L + 1 \in n + 1 .. L + 1 /\ \A m \in n + 1 .. L : m \in n + 1 .. L + 1 /\ m \in 1 .. L
        BY <2>1, <3>1, SMT, Z3
      <4>2. q # p
        BY <2>1, <2>9, <4>1, Zenon
      <4>3. \A m \in n + 1 .. L : sock[m].path # q
        BY <2>1, <2>9, <4>1, Zenon
      <4> QED  BY <2>2, <2>4, <3>1, <4>2, <4>3, ZenonT(30)
    <3>2. CASE n = L + 1
      BY <2>4, <3>2, Zenon
    <3> QED  BY <2>6, <3>1, <3>2, Zenon
  <2>10. History(g, sock', on \cup {p})
    BY <2>1, <2>5, <2>7, <2>8, <2>9, ZenonT(30) DEF History
  <2>11. g[0] = h[0]
    BY <2>1, <2>4, SMT, Z3
  <2> QED  BY <2>10, <2>11, Zenon
\* A new device is announced.
<1>PlugAnnounces.
  ASSUME TypeInv, EventInv, main = "run", NEW h, History(h, sock, Present),
         NEW p \in Paths, NEW rule \in Rules, Plug(p, rule)
  PROVE  Announces(h)
  <2> USE <1>PlugAnnounces
  <2> DEFINE d == [on |-> TRUE, gen |-> kern[p].gen + 1, auth |-> AuthorizedDefault,
                   rule |-> rule, boot |-> FALSE]
  <2>1. /\ kern' = [kern EXCEPT ![p] = d]
        /\ sock' = Append(sock, Event("add", p))
        /\ ~kern[p].on /\ (Parent[p] # NoPath => kern[Parent[p]].on)
    BY Zenon DEF Plug
  <2>2. kern \in [Paths -> KernelDevices] /\ sock \in Seq(Events)
    BY Zenon DEF TypeInv, DataTypeOK
  <2>3. kern'[p].on /\ kern'[p].boot = FALSE /\ \A q \in Paths : q # p => kern'[q] = kern[q]
    BY <2>1, <2>2, Zenon
  <2> HIDE DEF d
  <2>4. /\ DOMAIN sock = 1 .. Len(sock) /\ DOMAIN sock' = 1 .. Len(sock) + 1 /\ Len(sock) \in Nat
        /\ \A i \in 1 .. Len(sock) : sock'[i] = sock[i]
        /\ sock'[Len(sock) + 1].path = p
    <3>1. Event("add", p) \in Events /\ Event("add", p).path = p
      BY Zenon DEF Event, Events
    <3> QED  BY <2>1, <2>2, <3>1, SMT, Z3, SMTT(20), Z3T(20)
  <2>5. \A q \in Paths : NoEvent(q)' => NoEvent(q) /\ q # p
    BY <2>4, SMT, Z3, SMTT(20), Z3T(20) DEF NoEvent
  <2>6. EventInv'
    <3> SUFFICES ASSUME NEW n \in 1 .. Len(sock) + 1, sock'[n].act = "add"
                 PROVE  ~kern'[sock'[n].path].boot
      BY <2>4, Zenon DEF EventInv
    <3>1. CASE n \in 1 .. Len(sock)
      <4>1. sock'[n] = sock[n] /\ sock[n].path \in Paths /\ ~kern[sock[n].path].boot
        <5>1. sock[n] \in Events
          BY <2>2, <3>1, SMT, Z3
        <5> QED  BY <2>4, <3>1, <5>1, Zenon DEF EventInv, Events
      <4> QED  BY <2>3, <4>1, Zenon
    <3>2. CASE n = Len(sock) + 1
      BY <2>3, <2>4, <3>2, Zenon
    <3> QED  BY <2>4, <3>1, <3>2, SMT, Z3, SMTT(20), Z3T(20)
  <2>7. Present' = Present \cup {p} /\ p \notin Present /\ Present \in SUBSET Paths
    BY <2>1, <2>3, Zenon DEF Present
  <2>8. Parent[p] # NoPath => Parent[p] \in Present
    <3>1. Parent[p] # NoPath => Parent[p] \in Paths
      BY ConstantsAssumption, Zenon
    <3> QED  BY <2>1, <3>1, Zenon DEF Present
  <2>9. \E g : History(g, sock', Present') /\ g[0] = h[0]
    <3>1. sock \in Seq(Events) /\ sock' = Append(sock, Event("add", p)) /\ p \notin Present
      BY <2>1, <2>2, <2>7, Zenon
    <3>2. Present \in SUBSET Paths
      BY <2>7, Zenon
    <3>3. \E g : History(g, sock', Present \cup {p}) /\ g[0] = h[0]
      BY <2>8, <3>1, <3>2, <1>PlugHistory, Zenon
    <3>4. Present' = Present \cup {p}
      BY <2>7, Zenon
    <3> QED  BY <3>3, <3>4, Zenon
  <2>10. ASSUME NEW q \in Paths
         PROVE  /\ kern'[q].boot = kern[q].boot \/ (main = "run" /\ kern'[q].boot = FALSE)
                /\ NoEvent(q)' => /\ NoEvent(q)
                                  /\ kern'[q].gen = kern[q].gen /\ kern'[q].rule = kern[q].rule
                                  /\ kern'[q].boot = kern[q].boot /\ kern'[q].auth = kern[q].auth
    <3>1. CASE q = p
      BY <2>3, <2>5, <3>1, Zenon
    <3>2. CASE q # p
      BY <2>3, <2>5, <3>2, Zenon
    <3> QED  BY <3>1, <3>2, Zenon
  <2> QED  BY <2>6, <2>9, <2>10, Zenon DEF Announces
\* So is the removal of devices.
<1>UnplugAnnounces.
  ASSUME TypeInv, EventInv, NEW h, History(h, sock, Present), NEW p \in Paths, Unplug(p)
  PROVE  Announces(h)
  <2> USE <1>UnplugAnnounces
  <2> DEFINE S == {p} \cup Children(p)
  <2>1. KernelRemove(kern, S)
    BY Zenon DEF Unplug
  <2>2. CountsPaths /\ kern \in [Paths -> KernelDevices] /\ sock \in Seq(Events)
    BY Zenon DEF TypeInv, DataTypeOK
  <2>3. S \in SUBSET Paths /\ Whole(S)
    BY WholeSets, ZenonT(30)
  <2> HIDE DEF S
  <2>4. /\ \A q \in Paths :
             /\ kern'[q].gen = kern[q].gen /\ kern'[q].auth = kern[q].auth
             /\ kern'[q].boot = kern[q].boot /\ kern'[q].rule = kern[q].rule
             /\ NoEvent(q)' => NoEvent(q)
        /\ \A n \in DOMAIN sock' :
             sock'[n].act = "remove" \/ (n \in DOMAIN sock /\ sock'[n] = sock[n])
    BY <2>1, <2>2, <2>3, RemovalEffect, SMT, Z3, SMTT(20), Z3T(20)
  <2>5. EventInv'
    <3> SUFFICES ASSUME NEW n \in DOMAIN sock', sock'[n].act = "add"
                 PROVE  ~kern'[sock'[n].path].boot
      BY Zenon DEF EventInv
    <3>1. n \in DOMAIN sock /\ sock'[n] = sock[n]
      BY <2>4, Zenon
    <3>2. sock[n].path \in Paths
      <4>1. sock[n] \in Events
        BY <2>2, <3>1, SMT, Z3, SMTT(20), Z3T(20)
      <4> QED  BY <4>1, Zenon DEF Events
    <3>3. ~kern[sock[n].path].boot
      BY <3>1, Zenon DEF EventInv
    <3> QED  BY <2>4, <3>1, <3>2, <3>3, ZenonT(30)
  <2>6. {q \in Paths : kern[q].on} = Present
    BY Zenon DEF Present
  <2>7. \E g : History(g, sock', Present') /\ g[0] = h[0]
    BY <2>1, <2>2, <2>3, <2>6, RemovalHistory, Zenon
  <2> QED  BY <2>4, <2>5, <2>7, Zenon DEF Announces
<1>1. PICK h : Track(h)
  BY Zenon DEF Inv
<1>2. TypeInv /\ ScanInv /\ EventInv /\ TypeInv'
  BY Zenon DEF Inv
<1>3. main = "run" /\ UNCHANGED <<scanning, tracking, mutex, job, requests, announced>>
  BY ZenonT(30) DEF Kernel, Plug, Unplug, Hotplug, Undisturbed
<1> DEFINE now == h[0]
<1>4. now \in SUBSET Paths
  <2>1. Len(sock) \in Nat
    BY <1>2, SMT, Z3 DEF TypeInv, DataTypeOK
  <2> QED  BY <1>1, <2>1, SMT, Z3, SMTT(20), Z3T(20) DEF Track, History
<1>5. Announces(h)
  BY <1>1, <1>2, <1>3, <1>PlugAnnounces, <1>UnplugAnnounces, Zenon DEF Kernel, Track
<1>6. PICK g : History(g, sock', Present') /\ g[0] = now
  BY <1>5, Zenon DEF Announces
<1>7. PICK j : j = job[Worker]
  BY Zenon
<1>8. /\ JobInv(j, now) /\ MapInv(j, now) /\ CurrentInv(j, now) /\ DecidedInv(j, now)
      /\ (j.pc # "idle" => j.path \in Paths) /\ job'[Worker'] = j
  <2>1. Worker \in Threads
    BY Zenon DEF Worker, Threads
  <2> QED  BY <1>1, <1>2, <1>3, <1>7, <2>1, Zenon DEF Track, TypeInv, JobTypeOK, Worker, scanning
<1> HIDE DEF now
<1>9. JobInv(j, now)' /\ MapInv(j, now)' /\ CurrentInv(j, now)'
  BY <1>3, <1>4, <1>5, <1>8, KernelFrame, Zenon DEF Announces, scanning, tracking
<1>10. DecidedInv(j, now)'
  BY <1>3, <1>4, <1>5, <1>8, DecidedFrame, Zenon DEF Announces, tracking
<1>11. Track(g)'
  BY <1>6, <1>8, <1>9, <1>10, Zenon DEF Track
<1>12. ScanInv'
  BY <1>2, <1>3, Zenon DEF ScanInv, scanning, tracking
<1> QED  BY <1>2, <1>3, <1>5, <1>11, <1>12, Zenon DEF Inv, PresentInv, Announces, scanning

=============================================================================
