------------------------ MODULE DeviceManagerProofs ------------------------
(***************************************************************************)
(* What the tracking of devices promises for every set of paths, however   *)
(* many devices come and go, and whatever clients ask for: at rest the     *)
(* device map mirrors the kernel, clients know what is in it, and every    *)
(* device is in the state that the configuration asks for.                 *)
(***************************************************************************)
EXTENDS DeviceManagerSteps

-----------------------------------------------------------------------------
(* A device is built, decided and forgotten *)

\* DeviceBase reads a device that is there and whose parent is in the map.  It
\* rejects one whose parent is gone, which is about to go itself.
LEMMA BuildKeeps ==
  ASSUME Inv, TypeInv', Undisturbed, NEW t, t = Worker, Build(t)
  PROVE  Inv'
<1>p. PICK p : p = job[t].path
  BY Zenon
<1> DEFINE orphan == Parent[p] # NoPath /\ ids[Parent[p]] = Unknown
<1>1. PICK h : Track(h)
  BY Zenon DEF Inv
<1>2. TypeInv /\ ScanInv /\ PresentInv /\ EventInv /\ t \in Threads
  BY Zenon DEF Inv, Worker, Threads
<1>3. TypeInv'
  BY Zenon
<1>4. PICK j : j = job[t]
  BY Zenon
<1>5. /\ j \in Jobs /\ p \in Paths /\ h[0] \in SUBSET Paths /\ j.path = p
      /\ j.pc = "build"
      /\ UNCHANGED <<scanning, tracking, mutex, requests, announced>>
      /\ JobInv(j, h[0]) /\ MapInv(j, h[0]) /\ CurrentInv(j, h[0]) /\ DecidedInv(j, h[0])
      /\ \A q \in h[0] : NoEvent(q) => kern[q].on
      /\ \A q \in h[0] : Parent[q] # NoPath => Parent[q] \in h[0]
      /\ main # "run" => \A q \in Paths : NoEvent(q)
      /\ \A q \in Paths : ids[q] \in Nat \cup {Unknown}
      /\ \A q \in Paths : Parent[q] # NoPath =>
           Parent[q] \in Paths /\ Parent[q] # q /\ Parent[Parent[q]] = NoPath
  BY <1>p, <1>1, <1>2, <1>4, WorkerFacts, Zenon DEF Build
<1>6. p \in h[0] /\ j.act = "add"
  BY <1>5, Zenon DEF JobInv
<1>7. CASE /\ On(p, j.gen) /\ ~orphan /\ UNCHANGED kernel
           /\ job' = [job EXCEPT ![t].pc = "insert", ![t].target = kern[p].auth,
                        ![t].rule = kern[p].rule,
                        ![t].parent = IF Parent[p] = NoPath THEN NoID ELSE ids[Parent[p]]]
  <2> DEFINE parent == IF Parent[p] = NoPath THEN NoID ELSE ids[Parent[p]]
  <2>1. PICK k : k = [j EXCEPT !.pc = "insert", !.target = kern[p].auth, !.rule = kern[p].rule,
                               !.parent = parent]
    BY Zenon
  <2>2. /\ k.pc = "insert" /\ k.act = "add" /\ k.path = p /\ k.gen = j.gen /\ k.known = j.known
        /\ k.target = kern[p].auth /\ k.rule = kern[p].rule /\ k.parent = parent
    BY <1>5, <1>6, <2>1, Zenon DEF Jobs
  <2>3. job' = [job EXCEPT ![t] = k]
    BY <1>p, <1>2, <1>4, <1>7, <2>1, ZenonT(30) DEF TypeInv
  <2>4. Parent[p] # NoPath => k.parent > NoID /\ k.parent = ids[Parent[p]]
    <3> SUFFICES ASSUME Parent[p] # NoPath
                 PROVE  ids[Parent[p]] > NoID
      BY <2>2, ZenonT(30)
    <3>1. ids[Parent[p]] # NoID /\ ids[Parent[p]] # Unknown
      BY <1>5, <1>7, SMT, Z3 DEF MapInv
    <3> QED  BY <1>5, <3>1, SMT, Z3 DEF NoID
  <2> HIDE DEF parent, orphan
  <2>5. JobInv(k, h[0])
    BY <1>5, <1>6, <2>2, <2>4, SMT, Z3 DEF JobInv, Early
  <2>6. MapInv(k, h[0])
    <3>1. MapInv(j, h[0]) /\ j.path = k.path /\ j.act = k.act /\ j.pc = "build" /\ k.pc = "insert"
      BY <1>5, <1>6, <2>2, ZenonT(30)
    <3> QED  BY <3>1, Zenon DEF MapInv, Early
  <2>7. CurrentInv(k, h[0]) /\ DecidedInv(k, h[0])
    BY <1>5, <2>2, SMT, Z3 DEF CurrentInv, DecidedInv, Early, Deciding
  <2>8. main # "run" => Mild(k.path, k.target)
    BY <1>2, <1>5, <2>2, Zenon DEF PresentInv
  <2>9. /\ job[t].pc # "idle" /\ k.path = job[t].path
        /\ UNCHANGED <<kernel, scanning, tracking, requests, announced>>
    BY <1>4, <1>5, <1>7, <2>2, Zenon
  <2> QED  BY <1>1, <1>3, <2>3, <2>5, <2>6, <2>7, <2>8, <2>9, JobOnlyKeeps, Zenon
<1>8. CASE On(p, j.gen) /\ orphan /\ KernelApply(p, "reject") /\ Finish(t)
  <2>1. main = "run"
    <3> SUFFICES ASSUME main # "run"
                 PROVE  FALSE
      BY Zenon
    <3>1. Parent[p] \in h[0] /\ NoEvent(Parent[p]) /\ Parent[p] # p /\ Parent[Parent[p]] = NoPath
          /\ Parent[p] \in Paths
      BY <1>5, <1>6, <1>8, Zenon
    <3>2. Remaining(Parent[p])
      BY <1>5, <1>8, <3>1, SMT, Z3 DEF CurrentInv, Unknown, NoID
    <3>3. t = "main" /\ main = "scan"
      BY <1>2, <1>4, <1>5, Zenon DEF Worker, ScanInv
    <3>4. PICK i \in DOMAIN todo : todo[i].path = Parent[p]
      BY <3>2, <3>3, Zenon DEF Remaining
    <3>5. Rank[p] < Rank[Parent[p]]
      BY <1>2, <1>4, <1>5, <3>3, <3>4, Zenon DEF ScanInv
    <3>6. Rank[Parent[p]] < Rank[p] /\ Rank \in [Paths -> Nat]
      BY <1>5, <1>8, <3>1, ConstantsAssumption, Zenon
    <3> QED  BY <1>5, <3>1, <3>5, <3>6, SMT, Z3
  <2>2. CountsPaths /\ sock \in Seq(Events) /\ kern \in [Paths -> KernelDevices] /\ "reject" \in Targets
    BY <1>2, Zenon DEF TypeInv, DataTypeOK, Targets
  <2>3. Applied(p, "reject")
    BY <1>5, <1>8, <2>2, ApplyEffect, Zenon
  <2>4. PICK g : History(g, sock', Present') /\ g[0] = h[0]
    BY <1>1, <2>3, Zenon DEF Applied, Track
  <2>5. PICK now : now = h[0]
    BY Zenon
  <2>6. /\ \A q \in Paths :
             /\ kern'[q].gen = kern[q].gen /\ kern'[q].boot = kern[q].boot
             /\ kern'[q].rule = kern[q].rule
             /\ NoEvent(q)' => NoEvent(q) /\ q # p
             /\ q # p => kern'[q].auth = kern[q].auth
        /\ \A n \in DOMAIN sock' :
             sock'[n].act = "remove" \/ (n \in DOMAIN sock /\ sock'[n] = sock[n])
    BY <1>8, <2>3, Zenon DEF Applied, On
  <2>7. EventInv'
    <3> SUFFICES ASSUME NEW n \in DOMAIN sock', sock'[n].act = "add"
                 PROVE  ~kern'[sock'[n].path].boot
      BY Zenon DEF EventInv
    <3>1. n \in DOMAIN sock /\ sock'[n] = sock[n]
      BY <2>6, Zenon
    <3>2. sock[n].path \in Paths
      <4>1. sock[n] \in Events
        BY <2>2, <3>1, SMT, Z3
      <4> QED  BY <4>1, Zenon DEF Events
    <3>3. ~kern[sock[n].path].boot
      BY <1>2, <3>1, Zenon DEF EventInv
    <3> QED  BY <2>6, <3>1, <3>2, <3>3, SMT, Z3
  <2>8. JobInv(j, now)' /\ MapInv(j, now)' /\ CurrentInv(j, now)'
    <3>1. /\ now \in SUBSET Paths /\ j.path \in Paths
          /\ JobInv(j, now) /\ MapInv(j, now) /\ CurrentInv(j, now)
          /\ UNCHANGED <<main, todo, ids, obj, devmap, announced, requests>>
      BY <1>5, <2>5, Zenon DEF scanning, tracking
    <3> QED  BY <2>6, <3>1, KernelFrame, Zenon
  <2>9. DecidedInv(j, now)'
    BY <1>5, <2>5, <2>6, DecidedFrame, SMT, Z3 DEF tracking
  <2>10. NoJob.pc = "idle" /\ main' = "run" /\ ~NoEvent(p)' /\ p \in now
    BY <1>5, <1>6, <2>1, <2>5, <2>6, Zenon DEF NoJob, scanning
  <2>11. JobInv(NoJob, now)'
    BY <2>10, Zenon DEF JobInv
  <2>12. MapInv(NoJob, now)'
    BY <1>5, <1>6, <2>8, <2>10, Zenon DEF MapInv
  <2>13. CurrentInv(NoJob, now)' /\ DecidedInv(NoJob, now)'
    BY <1>5, <2>8, <2>9, <2>10, ZenonT(30) DEF CurrentInv, DecidedInv, Deciding
  <2>14. PresentInv' /\ job' = [job EXCEPT ![t] = NoJob]
    BY <1>8, <2>10, Zenon DEF PresentInv, Finish
  <2> QED  BY <1>3, <1>4, <1>5, <2>1, <2>4, <2>5, <2>7, <2>10, <2>11, <2>12, <2>13, <2>14, WorkerStep, Zenon
           DEF tracking
<1>9. CASE ~On(p, j.gen) /\ Finish(t) /\ UNCHANGED kernel
  <2>1. ~NoEvent(p)
    BY <1>5, <1>6, <1>9, Zenon DEF JobInv, On
  <2>2. main = "run" /\ \A q \in Paths : ids[q] # NoID
    BY <1>5, <2>1, Zenon DEF MapInv
  <2> QED  BY <1>1, <1>3, <1>4, <1>5, <1>6, <1>9, <2>1, <2>2, FinishKeeps, Zenon
<1> QED  BY <1>p, <1>4, <1>7, <1>8, <1>9, Zenon DEF Build, Undisturbed

\* The device gets an object of its own.
LEMMA InsertKeeps ==
  ASSUME Inv, TypeInv', NEW t, t = Worker, Insert(t)
  PROVE  Inv'
<1>p. PICK p, id : p = job[t].path /\ id = Len(obj) + 1
  BY Zenon
<1>1. PICK h : Track(h)
  BY Zenon DEF Inv
<1>2. TypeInv /\ ScanInv /\ PresentInv /\ EventInv /\ t \in Threads
  BY Zenon DEF Inv, Worker, Threads
<1>3. TypeInv'
  BY Zenon
<1>4. PICK j, now : j = job[t] /\ now = h[0]
  BY Zenon
<1>5. /\ j \in Jobs /\ p \in Paths /\ now \in SUBSET Paths /\ j.path = p /\ j.pc = "insert"
      /\ UNCHANGED <<kern, sock, scanning, ids, requests, announced>>
      /\ JobInv(j, now) /\ MapInv(j, now) /\ CurrentInv(j, now) /\ DecidedInv(j, now)
      /\ \A q \in Paths : ids[q] > NoID => ids[q] \in DOMAIN obj
      /\ devmap \subseteq DOMAIN obj /\ announced \subseteq DOMAIN obj
  BY <1>p, <1>1, <1>2, <1>4, WorkerFacts, Zenon DEF Insert, kernel
<1>6. p \in now /\ j.act = "add"
  BY <1>5, Zenon DEF JobInv
<1>7. PICK o : o = [path |-> p, gen |-> j.gen, target |-> j.target, rule |-> j.rule, parent |-> j.parent]
  BY Zenon
<1>8. /\ o.path = p /\ o.gen = j.gen /\ o.target = j.target /\ o.rule = j.rule /\ o.parent = j.parent
      /\ obj' = Append(obj, o) /\ devmap' = devmap \cup {id}
  BY <1>p, <1>4, <1>7, Zenon DEF Insert, NextID
<1>9. /\ DOMAIN obj' = DOMAIN obj \cup {id} /\ id \notin DOMAIN obj /\ id > NoID
      /\ obj'[id] = o /\ \A i \in DOMAIN obj : obj'[i] = obj[i]
  <2>1. obj \in Seq(Objects) /\ obj' \in Seq(Objects)
    BY <1>2, <1>3, Zenon DEF TypeInv, DataTypeOK
  <2>2. DOMAIN obj = 1 .. Len(obj) /\ Len(obj) \in Nat /\ DOMAIN obj' = 1 .. Len(obj) + 1
    BY <1>8, <2>1, SMT, Z3, SMTT(20), Z3T(20)
  <2> QED  BY <1>p, <1>8, <2>1, <2>2, SMT, Z3, SMTT(20), Z3T(20) DEF NoID
<1>10. PICK k : k = [j EXCEPT !.pc = "learn", !.id = id]
  BY Zenon
<1>11. /\ k.pc = "learn" /\ k.id = id /\ k.path = p /\ k.act = "add" /\ k.gen = j.gen
       /\ k.known = j.known
  BY <1>5, <1>6, <1>10, Zenon DEF Jobs
<1>12. job' = [job EXCEPT ![t] = k]
  BY <1>p, <1>2, <1>4, <1>10, Zenon DEF Insert, NextID, TypeInv
<1>13. JobInv(k, now)'
  <2>1. NoEvent(p)' = NoEvent(p)
    BY <1>5, Zenon DEF NoEvent
  <2>2. main' = main /\ kern' = kern /\ ids' = ids
    BY <1>5, Zenon DEF scanning
  <2>3. /\ kern[p].boot = (main # "run") /\ ids[p] = IF main = "run" THEN Unknown ELSE NoID
        /\ j.known = (main # "run") /\ (NoEvent(p) => j.gen = kern[p].gen /\ j.rule = kern[p].rule)
    BY <1>5, <1>6, Zenon DEF JobInv, Early
  <2> QED  BY <1>6, <1>8, <1>9, <1>11, <2>1, <2>2, <2>3, ZenonT(30) DEF JobInv, Early
<1>14. MapInv(k, now)'
  <2>1. main' = main /\ ids' = ids /\ announced' = announced
    BY <1>5, Zenon DEF scanning
  <2>2. \A q \in Paths : ids[q] > NoID =>
          obj'[ids[q]].path = q /\ ids[q] \in devmap' /\ q \in now
    BY <1>5, <1>6, <1>8, <1>9, SMT, Z3, SMTT(20), Z3T(20) DEF MapInv
  <2>3. \A q \in Paths : ids[q] = NoID => main # "run" /\ q = p
    BY <1>5, Zenon DEF MapInv
  <2>4. \A i \in devmap :
          /\ ids[obj'[i].path] = i
          /\ Parent[obj'[i].path] # NoPath =>
               obj'[i].parent = ids[Parent[obj'[i].path]] /\ obj'[i].parent > NoID
    BY <1>5, <1>9, ZenonT(30) DEF MapInv
  <2>5. Parent[obj'[id].path] # NoPath =>
          obj'[id].parent = ids[Parent[obj'[id].path]] /\ obj'[id].parent > NoID
    BY <1>5, <1>8, <1>9, ZenonT(30) DEF JobInv
  <2>6. \A i \in DOMAIN obj' : i \in announced <=> i \in devmap' /\ i # id
    BY <1>5, <1>8, <1>9, ZenonT(30) DEF MapInv
  <2> QED  BY <1>8, <1>11, <2>1, <2>2, <2>3, <2>4, <2>5, <2>6, Zenon DEF MapInv, Early
<1>15. CurrentInv(k, now)'
  <2>1. \A q \in Paths : Remaining(q)' = Remaining(q) /\ NoEvent(q)' = NoEvent(q)
    BY <1>5, Zenon DEF Remaining, NoEvent, scanning
  <2>2. kern' = kern /\ ids' = ids /\ \A q \in Paths : ids[q] > NoID => obj'[ids[q]] = obj[ids[q]]
    BY <1>5, <1>9, Zenon
  <2>3. \A q \in now : NoEvent(q) =>
          /\ ids[q] > NoID \/ Remaining(q) \/ q = p
          /\ ids[q] > NoID => obj[ids[q]].gen = kern[q].gen /\ obj[ids[q]].rule = kern[q].rule
    BY <1>5, Zenon DEF CurrentInv
  <2>4. ASSUME NEW q \in now, NoEvent(q)'
        PROVE  /\ ids'[q] > NoID \/ Remaining(q)' \/ (k.path = q /\ k.pc \in Early)
               /\ ids'[q] > NoID =>
                    obj'[ids'[q]].gen = kern'[q].gen /\ obj'[ids'[q]].rule = kern'[q].rule
    <3>1. q \in Paths /\ NoEvent(q) /\ (Remaining(q) => Remaining(q)')
      BY <1>5, <2>1, <2>4, Zenon
    <3> QED  BY <1>11, <2>2, <2>3, <2>4, <3>1, Zenon DEF Early
  <2> QED  BY <2>4, Zenon DEF CurrentInv
<1>16. DecidedInv(k, now)'
  BY <1>5, <1>11, Zenon DEF DecidedInv, Asks, Method, NoEvent, Deciding
<1>17. PresentInv'
  <2>1. job'[t] = k
    BY <1>2, <1>12, Zenon DEF TypeInv
  <2>2. main' = main /\ kern' = kern /\ (main # "run" => t = "main")
    BY <1>5, Zenon DEF scanning, Worker
  <2>3. main # "run" => Mild(p, j.target)
    BY <1>2, <1>4, <1>5, <2>2, Zenon DEF PresentInv, ObjTargets
  <2>4. ASSUME main # "run", NEW i \in DOMAIN obj'
        PROVE  Mild(obj'[i].path, obj'[i].target)
    <3>1. CASE i = id
      BY <1>8, <1>9, <2>3, <2>4, <3>1, Zenon
    <3>2. CASE i \in DOMAIN obj
      BY <1>2, <1>9, <2>4, <3>2, Zenon DEF PresentInv
    <3> QED  BY <1>9, <3>1, <3>2, Zenon
  <2>5. main # "run" => \A q \in Paths : kern[q].boot /\ Mild(q, kern[q].auth)
    BY <1>2, Zenon DEF PresentInv
  <2> QED  BY <1>11, <2>1, <2>2, <2>4, <2>5, Zenon DEF PresentInv, ObjTargets
<1>18. EventInv' /\ History(h, sock', Present') /\ (main # "run" => sock' = <<>>)
  <2>1. Present' = Present
    BY <1>5, Zenon DEF Present
  <2> QED  BY <1>1, <1>2, <1>5, <2>1, Zenon DEF EventInv, Track, ScanInv
<1>19. job[t].pc # "idle" /\ k.path = job[t].path /\ now = h[0] /\ UNCHANGED <<scanning, requests>> /\ ids' = ids
  BY <1>4, <1>5, <1>11, Zenon
<1> QED  BY <1>3, <1>12, <1>13, <1>14, <1>15, <1>16, <1>17, <1>18, <1>19, WorkerStep, Zenon

\* Its path is learned.
LEMMA LearnKeeps ==
  ASSUME Inv, TypeInv', NEW t, t = Worker, Learn(t)
  PROVE  Inv'
<1>p. PICK p, id : p = job[t].path /\ id = job[t].id
  BY Zenon
<1>1. PICK h : Track(h)
  BY DEF Inv
<1>2. TypeInv /\ ScanInv /\ PresentInv /\ EventInv /\ t \in Threads
  BY DEF Inv, Worker, Threads
<1>3. TypeInv'
  OBVIOUS
<1>4. PICK j, now : j = job[t] /\ now = h[0]
  OBVIOUS
<1>5. /\ j \in Jobs /\ p \in Paths /\ now \in SUBSET Paths /\ j.path = p /\ j.pc = "learn" /\ j.id = id
      /\ UNCHANGED <<kern, sock, scanning, obj, devmap, requests, announced>>
      /\ JobInv(j, now) /\ MapInv(j, now) /\ CurrentInv(j, now) /\ DecidedInv(j, now)
      /\ \A i \in DOMAIN obj : i > NoID /\ obj[i].path \in Paths
      /\ \A q \in Paths : Parent[q] # NoPath => Parent[q] \in Paths
      /\ devmap \subseteq DOMAIN obj
  BY <1>p, <1>1, <1>2, <1>4, WorkerFacts, Zenon DEF Learn, kernel
<1>6. /\ p \in now /\ j.act = "add" /\ id \in devmap /\ obj[id].path = p /\ obj[id].gen = j.gen
      /\ kern[p].boot = (main # "run") /\ j.known = (main # "run")
      /\ ids[p] = IF main = "run" THEN Unknown ELSE NoID
      /\ NoEvent(p) => j.gen = kern[p].gen /\ obj[id].rule = kern[p].rule
  BY <1>5, Zenon DEF JobInv, Early
<1>7. ~(ids[p] > NoID) /\ id > NoID /\ id # NoID
  BY <1>5, <1>6, IdOrder, Zenon
<1>8. ids'[p] = id /\ \A q \in Paths : q # p => ids'[q] = ids[q]
  BY <1>p, <1>2, <1>5, Zenon DEF Learn, TypeInv, DataTypeOK
<1>9. PICK k : k = [j EXCEPT !.pc = "event"]
  BY Zenon
<1>10. /\ k.pc = "event" /\ k.id = id /\ k.path = p /\ k.act = "add" /\ k.gen = j.gen
       /\ k.known = j.known
  BY <1>5, <1>6, <1>9, Zenon DEF Jobs
<1>11. job' = [job EXCEPT ![t] = k]
  BY <1>2, <1>4, <1>9, Zenon DEF Learn, Goto, TypeInv
<1>12. JobInv(k, now)'
  BY <1>5, <1>6, <1>10, ZenonT(30) DEF JobInv, Early, scanning
<1>13. MapInv(k, now)'
  <2>1. \A q \in Paths : ids'[q] > NoID => obj[ids'[q]].path = q /\ ids'[q] \in devmap /\ q \in now
    BY <1>5, <1>6, <1>8, SMT, Z3, SMTT(20), Z3T(20) DEF MapInv
  <2>2. \A q \in Paths : ids'[q] # NoID
    BY <1>5, <1>7, <1>8, SMT, Z3, SMTT(20), Z3T(20) DEF MapInv
  <2>3. ASSUME NEW i \in devmap
        PROVE  /\ ids'[obj[i].path] = i
               /\ Parent[obj[i].path] # NoPath =>
                    obj[i].parent = ids'[Parent[obj[i].path]] /\ obj[i].parent > NoID
    <3>1. /\ ids[obj[i].path] = i \/ i = id
          /\ Parent[obj[i].path] # NoPath =>
               obj[i].parent = ids[Parent[obj[i].path]] /\ obj[i].parent > NoID
      BY <1>5, <2>3, Zenon DEF MapInv
    <3>2. i > NoID /\ obj[i].path \in Paths
      BY <1>5, <2>3, Zenon
    <3>3. ids'[obj[i].path] = i
      BY <1>6, <1>7, <1>8, <3>1, <3>2, ZenonT(30)
    <3>4. Parent[obj[i].path] # NoPath => Parent[obj[i].path] \in Paths /\ Parent[obj[i].path] # p
      BY <1>5, <1>7, <3>1, <3>2, Zenon
    <3> QED  BY <1>8, <3>1, <3>3, <3>4, Zenon
  <2>4. \A i \in DOMAIN obj : i \in announced <=> i \in devmap /\ i # id
    BY <1>5, Zenon DEF MapInv
  <2> QED  BY <1>5, <1>10, <2>1, <2>2, <2>3, <2>4, SMT, Z3, SMTT(20), Z3T(20) DEF MapInv
<1>14. CurrentInv(k, now)'
  <2>1. \A q \in Paths : Remaining(q)' = Remaining(q) /\ NoEvent(q)' = NoEvent(q)
    BY <1>5, Zenon DEF Remaining, NoEvent, scanning
  <2> QED  BY <1>5, <1>6, <1>7, <1>8, <1>10, <2>1, SMT, Z3, SMTT(20), Z3T(20) DEF CurrentInv, Early
<1>15. DecidedInv(k, now)'
  <2>1. \A q \in Paths : Asks(q, kern[q].auth)' = Asks(q, kern[q].auth) /\ NoEvent(q)' = NoEvent(q)
    BY <1>5, Zenon DEF Asks, Method, NoEvent
  <2> QED  BY <1>5, <1>8, <1>10, <2>1, Zenon DEF DecidedInv, Deciding
<1>16. PresentInv'
  <2>1. job'[t] = k
    BY <1>2, <1>11, Zenon DEF TypeInv
  <2>2. main' = main /\ (main # "run" => t = "main")
    BY <1>5, Zenon DEF scanning, Worker
  <2> QED  BY <1>2, <1>5, <1>10, <2>1, <2>2, Zenon DEF PresentInv, ObjTargets
<1>17. EventInv' /\ History(h, sock', Present') /\ (main # "run" => sock' = <<>>)
  <2>1. Present' = Present
    BY <1>5, Zenon DEF Present
  <2> QED  BY <1>1, <1>2, <1>5, <2>1, Zenon DEF EventInv, Track, ScanInv
<1>18. /\ job[t].pc # "idle" /\ k.path = job[t].path /\ now = h[0] /\ UNCHANGED <<scanning, requests>>
       /\ \A q \in Paths : ids[q] = Unknown /\ q # job[t].path => ids'[q] = Unknown
  BY <1>4, <1>5, <1>8, <1>10, Zenon
<1> QED  BY <1>3, <1>11, <1>12, <1>13, <1>14, <1>15, <1>16, <1>17, <1>18, WorkerStep, Zenon

\* The hook decides on the device as the configuration asks.
LEMMA PolicyRuleAsks ==
  ASSUME TypeInv, NEW p \in Paths, NEW id \in DOMAIN obj, obj[id].path = p,
         obj[id].rule = kern[p].rule, NEW known, known = kern[p].boot
  PROVE  Asks(p, PolicyRule(id, known))
<1>1. PICK method : method = IF known THEN PresentPolicy(p) ELSE InsertedDevicePolicy
  BY Zenon
<1>2. Method(p) = method
  BY <1>1, Zenon DEF Method
<1>3. PolicyRule(id, known) = CASE method = "apply-policy" -> obj[id].rule
                                [] method = "keep" -> obj[id].target
                                [] OTHER -> method
  BY <1>1, Zenon DEF PolicyRule
<1>4. method # "keep" => PolicyRule(id, known) = IF method = "apply-policy" THEN kern[p].rule ELSE method
  BY <1>3, Zenon
<1> QED  BY <1>2, <1>4, Zenon DEF Asks

\* It tells a present device nothing that makes one disappear.
LEMMA PolicyRuleMild ==
  ASSUME TypeInv, Undisturbed, NEW p \in Paths, NEW id \in DOMAIN obj, obj[id].path = p,
         obj[id].rule \in Rules, Mild(p, obj[id].target)
  PROVE  Mild(p, PolicyRule(id, TRUE))
<1>1. PICK method : method = PresentPolicy(p)
  BY Zenon
<1>2. PolicyRule(id, TRUE) = CASE method = "apply-policy" -> obj[id].rule
                               [] method = "keep" -> obj[id].target
                               [] OTHER -> method
  BY <1>1, Zenon DEF PolicyRule
<1>3. CASE Parent[p] = NoPath
  <2>1. method \in {"keep", "allow"} \/ (method = "apply-policy" /\ Rules \subseteq {"allow"})
    BY <1>1, <1>3, Zenon DEF Undisturbed, PresentPolicy
  <2> QED  BY <1>2, <2>1, Zenon DEF Mild
<1>4. CASE Parent[p] # NoPath
  <2>1. \/ method \in {"keep", "allow", "block"}
        \/ (method = "apply-policy" /\ Rules \subseteq {"allow", "block"})
    BY <1>1, <1>4, Zenon DEF Undisturbed, PresentPolicy
  <2> QED  BY <1>2, <1>4, <2>1, Zenon DEF Mild
<1> QED  BY <1>3, <1>4, Zenon

\* Daemon::dmHookDeviceEvent announces the device and decides.
LEMMA DeviceEventKeeps ==
  ASSUME Inv, TypeInv', Undisturbed, NEW t, t = Worker, DeviceEvent(t)
  PROVE  Inv'
<1>p. PICK p, id : p = job[t].path /\ id = job[t].id
  BY Zenon
<1>1. PICK h : Track(h)
  BY DEF Inv
<1>2. TypeInv /\ ScanInv /\ PresentInv /\ EventInv /\ t \in Threads
  BY DEF Inv, Worker, Threads
<1>3. TypeInv'
  OBVIOUS
<1>4. PICK j, now : j = job[t] /\ now = h[0]
  BY Zenon
<1>5. /\ j \in Jobs /\ p \in Paths /\ now \in SUBSET Paths /\ j.path = p /\ j.pc = "event" /\ j.id = id
      /\ UNCHANGED <<kern, sock, scanning, ids, obj, devmap, requests>>
      /\ JobInv(j, now) /\ MapInv(j, now) /\ CurrentInv(j, now) /\ DecidedInv(j, now)
      /\ \A i \in DOMAIN obj : i > NoID /\ obj[i].path \in Paths
      /\ main # "run" => \A q \in Paths : NoEvent(q)
      /\ \A q \in now : NoEvent(q) => kern[q].on
      /\ devmap \subseteq DOMAIN obj
  BY <1>p, <1>1, <1>2, <1>4, WorkerFacts, Zenon DEF DeviceEvent, kernel, tracking
<1>6. /\ p \in now /\ j.act = "add" /\ id \in devmap /\ obj[id].path = p /\ obj[id].gen = j.gen
      /\ kern[p].boot = (main # "run") /\ j.known = (main # "run") /\ ids[p] = id /\ id > NoID
  BY <1>5, ZenonT(30) DEF JobInv, MapInv
<1>7. HasDeviceRule(id)
  BY <1>2, <1>5, <1>6, RuleKnown, Zenon
<1>8. PICK target : target = PolicyRule(id, j.known)
  BY Zenon
<1>9. PICK k : k = [j EXCEPT !.pc = "get", !.target = target]
  BY Zenon
<1>10. /\ k.pc = "get" /\ k.id = id /\ k.path = p /\ k.act = "add" /\ k.gen = j.gen
       /\ k.target = target
  BY <1>5, <1>6, <1>9, Zenon DEF Jobs
<1>11. job' = [job EXCEPT ![t] = k] /\ announced' = announced \cup {id}
  BY <1>p, <1>2, <1>4, <1>7, <1>8, <1>9, Zenon DEF DeviceEvent, TypeInv, Undisturbed
<1>12. JobInv(k, now)'
  BY <1>5, <1>6, <1>10, Zenon DEF JobInv, Early, scanning
<1>13. MapInv(k, now)'
  <2>1. \A i \in DOMAIN obj : i \in announced' <=> i \in devmap
    BY <1>5, <1>6, <1>11, Zenon DEF MapInv
  <2> QED  BY <1>5, <1>6, <1>10, <2>1, Zenon DEF MapInv, Early
<1>14. CurrentInv(k, now)'
  <2>1. \A q \in Paths : Remaining(q)' = Remaining(q) /\ NoEvent(q)' = NoEvent(q)
    BY <1>5, Zenon DEF Remaining, NoEvent, scanning
  <2> QED  BY <1>5, <1>10, <2>1, Zenon DEF CurrentInv, Early
<1>15. NoEvent(p) => obj[id].rule = kern[p].rule
  BY <1>5, <1>6, ZenonT(30) DEF CurrentInv
<1>16. NoEvent(p) => Asks(p, target)
  BY <1>2, <1>5, <1>6, <1>8, <1>15, PolicyRuleAsks, Zenon
<1>17. DecidedInv(k, now)'
  <2>1. \A q \in Paths : Asks(q, kern[q].auth)' = Asks(q, kern[q].auth) /\ NoEvent(q)' = NoEvent(q)
    BY <1>5, Zenon DEF Asks, Method, NoEvent
  <2>2. Asks(p, target)' = Asks(p, target)
    BY <1>5, Zenon DEF Asks, Method
  <2> QED  BY <1>5, <1>10, <1>16, <2>1, <2>2, Zenon DEF DecidedInv, Deciding
<1>18. PresentInv'
  <2>1. job'[t] = k
    BY <1>2, <1>11, Zenon DEF TypeInv
  <2>2. main' = main /\ (main # "run" => t = "main")
    BY <1>5, Zenon DEF scanning, Worker
  <2>3. ASSUME main # "run"
        PROVE  Mild(p, target)
    <3>1. Mild(p, obj[id].target) /\ id \in DOMAIN obj
      BY <1>2, <1>5, <1>6, <2>3, Zenon DEF PresentInv
    <3>2. obj[id].rule \in Rules
      BY <1>2, <1>5, <1>6, <1>15, <2>3, Zenon DEF TypeInv, DataTypeOK
    <3>3. j.known = TRUE
      BY <1>6, <2>3, Zenon
    <3> QED  BY <1>2, <1>5, <1>6, <1>8, <3>1, <3>2, <3>3, PolicyRuleMild, Zenon
  <2> QED  BY <1>2, <1>5, <1>10, <2>1, <2>2, <2>3, Zenon DEF PresentInv
<1>19. EventInv' /\ History(h, sock', Present') /\ (main # "run" => sock' = <<>>)
  <2>1. Present' = Present
    BY <1>5, Zenon DEF Present
  <2> QED  BY <1>1, <1>2, <1>5, <2>1, Zenon DEF EventInv, Track, ScanInv
<1>20. job[t].pc # "idle" /\ k.path = job[t].path /\ now = h[0] /\ UNCHANGED <<scanning, requests>> /\ ids' = ids
  BY <1>4, <1>5, <1>10, Zenon
<1> QED  BY <1>3, <1>11, <1>12, <1>13, <1>14, <1>17, <1>18, <1>19, <1>20, WorkerStep, Zenon

\* The path of a removed device is forgotten, and clients are told.
LEMMA ForgetKeeps ==
  ASSUME Inv, TypeInv', NEW t, t = Worker, Forget(t)
  PROVE  Inv'
<1>p. PICK p, id : p = job[t].path /\ id = job[t].id
  BY Zenon
<1>1. PICK h : Track(h)
  BY DEF Inv
<1>2. TypeInv /\ ScanInv /\ PresentInv /\ EventInv /\ t \in Threads
  BY DEF Inv, Worker, Threads
<1>3. TypeInv'
  OBVIOUS
<1>4. PICK j, now : j = job[t] /\ now = h[0]
  OBVIOUS
<1>5. /\ p \in Paths /\ now \in SUBSET Paths /\ j.path = p /\ j.pc = "forget" /\ j.id = id
      /\ UNCHANGED <<kern, sock, scanning, obj, devmap, requests>>
      /\ JobInv(j, now) /\ MapInv(j, now) /\ CurrentInv(j, now) /\ DecidedInv(j, now)
      /\ \A i \in DOMAIN obj : i > NoID /\ obj[i].path \in Paths
      /\ \A q \in Paths : Parent[q] # NoPath => Parent[q] \in Paths
      /\ \A q \in now : Parent[q] # NoPath => Parent[q] \in now
      /\ devmap \subseteq DOMAIN obj
  BY <1>p, <1>1, <1>2, <1>4, WorkerFacts, Zenon DEF Forget, kernel
<1>6. /\ p \notin now /\ j.act = "remove" /\ main = "run" /\ ids[p] = id /\ id \notin devmap
      /\ HasDeviceRule(id)
  BY <1>5, Zenon DEF JobInv
<1>7. ids'[p] = Unknown /\ \A q \in Paths : q # p => ids'[q] = ids[q]
  BY <1>p, <1>2, <1>5, Zenon DEF Forget, Forgotten, TypeInv, DataTypeOK
<1>8. announced' = announced \ {id} /\ job' = [job EXCEPT ![t] = NoJob]
  BY <1>p, <1>6, Zenon DEF Forget, Departure, Finish
<1>9. NoJob.pc = "idle"
  BY Zenon DEF NoJob
<1>10. MapInv(NoJob, now)'
  <2>1. ASSUME NEW q \in Paths, ids'[q] > NoID
        PROVE  obj[ids'[q]].path = q /\ ids'[q] \in devmap /\ q \in now
    <3>1. q # p /\ ids'[q] = ids[q]
      BY <1>7, <2>1, IdOrder, Zenon
    <3> QED  BY <1>5, <2>1, <3>1, Zenon DEF MapInv
  <2>2. \A q \in Paths : ids'[q] # NoID
    BY <1>5, <1>6, <1>7, IdOrder, ZenonT(30) DEF MapInv
  <2>3. ASSUME NEW i \in devmap
        PROVE  /\ ids'[obj[i].path] = i
               /\ Parent[obj[i].path] # NoPath =>
                    obj[i].parent = ids'[Parent[obj[i].path]] /\ obj[i].parent > NoID
    <3>1. /\ ids[obj[i].path] = i
          /\ Parent[obj[i].path] # NoPath =>
               obj[i].parent = ids[Parent[obj[i].path]] /\ obj[i].parent > NoID
      BY <1>5, <2>3, Zenon DEF MapInv
    <3>2. i > NoID /\ obj[i].path \in Paths /\ obj[i].path # p
      BY <1>5, <1>6, <2>3, <3>1, Zenon
    <3>a. ids[obj[i].path] > NoID
      BY <3>1, <3>2, Zenon
    <3>3. obj[i].path \in now
      BY <1>5, <3>2, <3>a, Zenon DEF MapInv
    <3>4. Parent[obj[i].path] # NoPath => Parent[obj[i].path] \in Paths /\ Parent[obj[i].path] # p
      BY <1>5, <1>6, <3>2, <3>3, Zenon
    <3> QED  BY <1>7, <3>1, <3>2, <3>4, Zenon
  <2>4. \A i \in DOMAIN obj : i \in announced' <=> i \in devmap
    BY <1>5, <1>6, <1>8, ZenonT(30) DEF MapInv
  <2> QED  BY <1>5, <1>9, <2>1, <2>2, <2>3, <2>4, Zenon DEF MapInv
<1>11. JobInv(NoJob, now)'
  BY <1>9, Zenon DEF JobInv
<1>12. CurrentInv(NoJob, now)'
  <2>1. \A q \in Paths : Remaining(q)' = Remaining(q) /\ NoEvent(q)' = NoEvent(q)
    BY <1>5, Zenon DEF Remaining, NoEvent, scanning
  <2> QED  BY <1>5, <1>6, <1>7, <1>9, <2>1, ZenonT(30) DEF CurrentInv, Early
<1>13. DecidedInv(NoJob, now)'
  <2>1. \A q \in Paths : Asks(q, kern[q].auth)' = Asks(q, kern[q].auth) /\ NoEvent(q)' = NoEvent(q)
    BY <1>5, Zenon DEF Asks, Method, NoEvent
  <2> QED  BY <1>5, <1>6, <1>7, <1>9, <2>1, Zenon DEF DecidedInv, Deciding
<1>14. PresentInv' /\ EventInv' /\ History(h, sock', Present') /\ main' = "run"
  <2>1. Present' = Present /\ main' = main
    BY <1>5, Zenon DEF Present, scanning
  <2> QED  BY <1>1, <1>2, <1>5, <1>6, <2>1, Zenon DEF EventInv, Track, PresentInv
<1>15. /\ job[t].pc # "idle" /\ now = h[0] /\ UNCHANGED <<scanning, requests>>
       /\ \A q \in Paths : ids[q] = Unknown /\ q # job[t].path => ids'[q] = Unknown
  BY <1>4, <1>5, <1>7, Zenon
<1> QED  BY <1>3, <1>6, <1>8, <1>9, <1>10, <1>11, <1>12, <1>13, <1>14, <1>15, WorkerStep, Zenon

-----------------------------------------------------------------------------
(* applyDevicePolicy *)

\* The write reaches the device that the thread handles, or one that is about to go.
LEMMA ApplyJobKeeps ==
  ASSUME Inv, TypeInv', NEW t, t = Worker, GetDevice(t) \/ Signal(t)
  PROVE  Inv'
<1>1. PICK h : Track(h)
  BY Zenon DEF Inv
<1>2. TypeInv /\ ScanInv /\ PresentInv /\ t \in Threads
  BY Zenon DEF Inv, Worker, Threads
<1>3. TypeInv'
  BY Zenon
<1>4. PICK j : j = job[t]
  BY Zenon
<1>5. /\ j \in Jobs /\ j.path \in Paths /\ h[0] \in SUBSET Paths /\ j.pc \in {"get", "signal"}
      /\ UNCHANGED <<kernel, scanning, tracking, requests, announced>>
      /\ JobInv(j, h[0]) /\ MapInv(j, h[0]) /\ CurrentInv(j, h[0]) /\ DecidedInv(j, h[0])
  BY <1>1, <1>2, <1>4, WorkerFacts, Zenon DEF GetDevice, Signal
<1>6. j.act = "add" /\ j.id \in devmap /\ \A q \in Paths : ids[q] # NoID
  BY <1>5, Zenon DEF JobInv, MapInv, Early
<1>7. CASE j.pc = "get"
  <2>1. PICK k : k = [j EXCEPT !.pc = "write"]
    BY Zenon
  <2>2. /\ k.pc = "write" /\ k.act = "add" /\ k.path = j.path /\ k.gen = j.gen /\ k.id = j.id
        /\ k.target = j.target
    BY <1>5, <1>6, <2>1, Zenon DEF Jobs
  <2>3. job' = [job EXCEPT ![t] = k]
    BY <1>2, <1>4, <1>6, <1>7, <2>1, Zenon DEF GetDevice, Signal, Goto, TypeInv
  <2>4. JobInv(k, h[0])
    BY <1>5, <1>6, <1>7, <2>2, Zenon DEF JobInv, Early
  <2>5. MapInv(k, h[0])
    BY <1>5, <1>6, <1>7, <2>2, Zenon DEF MapInv, Early
  <2>6. CurrentInv(k, h[0]) /\ DecidedInv(k, h[0])
    BY <1>5, <1>7, <2>2, Zenon DEF CurrentInv, DecidedInv, Early, Deciding
  <2>7. main # "run" => Mild(k.path, k.target)
    BY <1>2, <1>4, <1>7, <2>2, Zenon DEF PresentInv, ObjTargets, Worker
  <2>8. job[t].pc # "idle" /\ k.path = job[t].path
    BY <1>4, <1>7, <2>2, Zenon
  <2> QED  BY <1>1, <1>3, <1>5, <2>3, <2>4, <2>5, <2>6, <2>7, <2>8, JobOnlyKeeps, Zenon
<1>8. CASE j.pc = "signal"
  <2>1. Finish(t)
    BY <1>4, <1>8, Zenon DEF GetDevice, Signal
  <2>2. job[t].pc = "signal" /\ job[t].act = "add"
    BY <1>4, <1>6, <1>8, Zenon
  <2> QED  BY <1>1, <1>3, <1>5, <1>6, <2>1, <2>2, FinishKeeps, Zenon DEF Early, Deciding
<1> QED  BY <1>5, <1>7, <1>8, Zenon

\* The device that is written to is as the configuration asks.
LEMMA WriteKeeps ==
  ASSUME Inv, TypeInv', Undisturbed, NEW t, t = Worker, Write(t)
  PROVE  Inv'
<1>p. PICK p, id : p = job[t].path /\ id = job[t].id
  OBVIOUS
<1>1. PICK h : Track(h)
  BY Zenon DEF Inv
<1>2. TypeInv /\ ScanInv /\ PresentInv /\ EventInv /\ t \in Threads
  BY Zenon DEF Inv, Worker, Threads
<1>3. TypeInv'
  OBVIOUS
<1>4. PICK j, now : j = job[t] /\ now = h[0]
  OBVIOUS
<1>5. /\ j \in Jobs /\ p \in Paths /\ now \in SUBSET Paths /\ j.path = p /\ j.pc = "write" /\ j.id = id
      /\ UNCHANGED <<scanning, tracking, requests, announced>>
      /\ JobInv(j, now) /\ MapInv(j, now) /\ CurrentInv(j, now) /\ DecidedInv(j, now)
      /\ JobTypeOK(j, DOMAIN obj)
      /\ \A i \in DOMAIN obj : i > NoID /\ obj[i].path \in Paths
      /\ main # "run" => \A q \in Paths : NoEvent(q)
      /\ \A q \in now : NoEvent(q) => kern[q].on
      /\ devmap \subseteq DOMAIN obj
  BY <1>p, <1>1, <1>2, <1>4, WorkerFacts, ZenonT(30) DEF Write
<1>6. /\ p \in now /\ j.act = "add" /\ id \in devmap /\ obj[id].path = p /\ obj[id].gen = j.gen
      /\ ids[p] = id /\ id > NoID /\ j.target \in Targets
  BY <1>5, SMT, Z3, SMTT(20), Z3T(20) DEF JobInv, MapInv, JobTypeOK, ObjTargets
<1>a. \A q \in Paths : ids[q] # NoID
  BY <1>5, Zenon DEF MapInv, Early
<1>7. CASE On(p, obj[id].gen) /\ KernelApply(p, j.target) /\ Goto(t, "set")
  <2>1. CountsPaths /\ sock \in Seq(Events) /\ kern \in [Paths -> KernelDevices]
    BY <1>2, Zenon DEF TypeInv, DataTypeOK
  <2>2. Applied(p, j.target)
    BY <1>5, <1>6, <1>7, <2>1, ApplyEffect, Zenon
  <2>3. PICK g : History(g, sock', Present') /\ g[0] = now
    BY <1>1, <1>4, <2>2, Zenon DEF Applied, Track
  <2>4. /\ \A q \in Paths :
             /\ kern'[q].gen = kern[q].gen /\ kern'[q].boot = kern[q].boot
             /\ kern'[q].rule = kern[q].rule
             /\ NoEvent(q)' => NoEvent(q)
             /\ q # p => kern'[q].auth = kern[q].auth
        /\ \A n \in DOMAIN sock' :
             sock'[n].act = "remove" \/ (n \in DOMAIN sock /\ sock'[n] = sock[n])
        /\ NoEvent(p)' => kern'[p].auth = j.target
        /\ Mild(p, j.target) => sock' = sock /\ kern'[p].auth = j.target
    BY <1>7, <2>2, Zenon DEF Applied, On, Mild
  <2>5. EventInv'
    <3> SUFFICES ASSUME NEW n \in DOMAIN sock', sock'[n].act = "add"
                 PROVE  ~kern'[sock'[n].path].boot
      BY Zenon DEF EventInv
    <3>1. n \in DOMAIN sock /\ sock'[n] = sock[n]
      BY <2>4, Zenon
    <3>2. sock[n].path \in Paths
      <4>1. sock[n] \in Events
        BY <2>1, <3>1, SMT, Z3, SMTT(20), Z3T(20)
      <4> QED  BY <4>1, Zenon DEF Events
    <3>3. ~kern[sock[n].path].boot
      BY <1>2, <3>1, Zenon DEF EventInv
    <3> QED  BY <2>4, <3>1, <3>2, <3>3, Zenon
  <2>6. JobInv(j, now)' /\ MapInv(j, now)' /\ CurrentInv(j, now)'
    <3>1. /\ now \in SUBSET Paths /\ j.path \in Paths
          /\ JobInv(j, now) /\ MapInv(j, now) /\ CurrentInv(j, now)
          /\ UNCHANGED <<main, todo, ids, obj, devmap, announced, requests>>
      BY <1>5, Zenon DEF scanning, tracking
    <3> QED  BY <2>4, <3>1, KernelFrame, Zenon
  <2>7. PICK k : k = [j EXCEPT !.pc = "set"]
    BY Zenon
  <2>8. /\ k.pc = "set" /\ k.id = id /\ k.path = p /\ k.act = "add" /\ k.gen = j.gen
        /\ k.target = j.target
    BY <1>5, <1>6, <2>7, Zenon DEF Jobs
  <2>9. job' = [job EXCEPT ![t] = k]
    BY <1>2, <1>4, <1>7, <2>7, Zenon DEF Goto, TypeInv
  <2>10. JobInv(k, now)' /\ MapInv(k, now)' /\ CurrentInv(k, now)'
    <3>1. JobInv(k, now)'
      BY <1>5, <1>6, <2>6, <2>8, ZenonT(30) DEF JobInv, Early
    <3>2. MapInv(k, now)'
      BY <1>5, <1>6, <2>6, <2>8, Zenon DEF MapInv, Early
    <3>3. CurrentInv(k, now)'
      BY <1>5, <2>6, <2>8, Zenon DEF CurrentInv, Early
    <3> QED  BY <3>1, <3>2, <3>3, Zenon
  <2>11. DecidedInv(k, now)'
    <3>1. \A q \in Paths : Method(q)' = Method(q)
      BY <2>4, Zenon DEF Method
    <3>2. \A q \in Paths : q # p => (Asks(q, kern[q].auth)' <=> Asks(q, kern[q].auth))
      BY <2>4, <3>1, Zenon DEF Asks
    <3>3. NoEvent(p)' /\ Asks(p, j.target) => Asks(p, kern[p].auth)'
      BY <1>5, <2>4, <3>1, Zenon DEF Asks
    <3>4. requests' = requests /\ ids' = ids
      BY <1>5, Zenon DEF tracking
    <3>5. ASSUME requests = 0, NEW q \in now, NoEvent(q)', ids[q] > NoID
          PROVE  Asks(q, kern[q].auth)'
      <4>1. NoEvent(q) /\ q \in Paths
        BY <1>5, <2>4, <3>5, Zenon
      <4>2. CASE q = p
        BY <1>5, <3>3, <3>5, <4>1, <4>2, Zenon DEF DecidedInv
      <4>3. CASE q # p
        BY <1>5, <3>2, <3>5, <4>1, <4>3, Zenon DEF DecidedInv
      <4> QED  BY <4>2, <4>3, Zenon
    <3> QED  BY <2>8, <3>4, <3>5, Zenon DEF DecidedInv
  <2>12. PresentInv' /\ (main # "run" => sock' = <<>>)
    <3>1. job'[t] = k
      BY <1>2, <2>9, Zenon DEF TypeInv
    <3>2. main' = main /\ obj' = obj /\ (main # "run" => t = "main")
      BY <1>5, Zenon DEF scanning, tracking, Worker
    <3>3. ASSUME main # "run"
          PROVE  Mild(p, j.target) /\ sock = <<>>
      BY <1>2, <1>4, <1>5, <3>2, <3>3, Zenon DEF PresentInv, ObjTargets, ScanInv
    <3>4. ASSUME main # "run", NEW q \in Paths
          PROVE  kern'[q].boot /\ Mild(q, kern'[q].auth)
      <4>1. kern[q].boot /\ Mild(q, kern[q].auth)
        BY <1>2, <3>4, Zenon DEF PresentInv
      <4> QED  BY <2>4, <3>3, <3>4, <4>1, Zenon
    <3> QED  BY <1>2, <2>4, <2>8, <3>1, <3>2, <3>3, <3>4, ZenonT(30) DEF PresentInv
  <2>13. job[t].pc # "idle" /\ k.path = job[t].path /\ UNCHANGED <<scanning, requests>> /\ ids' = ids
    BY <1>4, <1>5, <2>8, Zenon DEF tracking
  <2> QED  BY <1>3, <2>3, <2>5, <2>9, <2>10, <2>11, <2>12, <2>13, WorkerStep, Zenon
<1>8. CASE ~On(p, obj[id].gen) /\ Finish(t) /\ UNCHANGED kernel
  <2>1. ~NoEvent(p)
    BY <1>5, <1>6, <1>8, ZenonT(30) DEF CurrentInv, On
  <2>2. job[t].pc = "write" /\ job[t].act = "add" /\ job[t].path = p
    BY <1>4, <1>5, <1>6, Zenon
  <2> QED  BY <1>1, <1>3, <1>5, <1>a, <1>8, <2>1, <2>2, FinishKeeps, Zenon
<1> QED  BY <1>p, <1>4, <1>6, <1>7, <1>8, Zenon DEF Write, Undisturbed

\* A change of the targets of objects keeps what the invariant says of the rest.
LEMMA TargetFrame ==
  ASSUME TypeInv, NEW j, NEW now \in SUBSET Paths,
         JobInv(j, now), MapInv(j, now), CurrentInv(j, now), DecidedInv(j, now),
         UNCHANGED <<kern, sock, main, todo, ids, devmap, announced, requests>>,
         DOMAIN obj' = DOMAIN obj,
         \A i \in DOMAIN obj : /\ obj'[i].path = obj[i].path /\ obj'[i].gen = obj[i].gen
                               /\ obj'[i].rule = obj[i].rule /\ obj'[i].parent = obj[i].parent
  PROVE  JobInv(j, now)' /\ MapInv(j, now)' /\ CurrentInv(j, now)' /\ DecidedInv(j, now)'
<1>1. /\ devmap \subseteq DOMAIN obj /\ announced \subseteq DOMAIN obj
      /\ \A p \in Paths : ids[p] > NoID => ids[p] \in DOMAIN obj
  BY Zenon DEF TypeInv, DataTypeOK
<1>2. \A p \in Paths : /\ NoEvent(p)' = NoEvent(p) /\ Remaining(p)' = Remaining(p)
                       /\ Asks(p, kern[p].auth)' = Asks(p, kern[p].auth)
                       /\ Asks(p, j.target)' = Asks(p, j.target)
  BY Zenon DEF NoEvent, Remaining, Asks, Method
<1>3. JobInv(j, now)'
  <2>1. j.pc \in {"learn", "event", "get", "write", "set", "signal", "forget"} => j.id \in DOMAIN obj
    BY <1>1, Zenon DEF JobInv
  <2>2. j.id \in DOMAIN obj => HasDeviceRule(j.id)' = HasDeviceRule(j.id)
    BY Zenon DEF HasDeviceRule
  <2>3. NoEvent(j.path)' = NoEvent(j.path)
    BY ZenonT(30) DEF NoEvent
  <2> QED  BY <2>1, <2>2, <2>3, Zenon DEF JobInv
<1>4. MapInv(j, now)'
  BY <1>1, SMT, Z3, SMTT(20), Z3T(20) DEF MapInv
<1>5. CurrentInv(j, now)'
  BY <1>1, <1>2, ZenonT(30) DEF CurrentInv
<1>6. DecidedInv(j, now)'
  BY <1>2, Zenon DEF DecidedInv
<1> QED  BY <1>3, <1>4, <1>5, <1>6, Zenon

\* The target of the object follows the write.
LEMMA SetTargetKeeps ==
  ASSUME Inv, TypeInv', NEW t, t = Worker, SetTarget(t)
  PROVE  Inv'
<1>1. PICK h : Track(h)
  BY DEF Inv
<1>2. TypeInv /\ ScanInv /\ PresentInv /\ EventInv /\ t \in Threads
  BY DEF Inv, Worker, Threads
<1>3. TypeInv'
  OBVIOUS
<1>4. PICK j, id, now : j = job[t] /\ id = j.id /\ now = h[0]
  BY Zenon
<1>5. /\ j \in Jobs /\ j.path \in Paths /\ now \in SUBSET Paths /\ j.pc = "set"
      /\ UNCHANGED <<kern, sock, scanning, ids, devmap, requests, announced>>
      /\ JobInv(j, now) /\ MapInv(j, now) /\ CurrentInv(j, now) /\ DecidedInv(j, now)
      /\ JobTypeOK(j, DOMAIN obj) /\ id \in DOMAIN obj /\ devmap \subseteq DOMAIN obj
  BY <1>1, <1>2, <1>4, WorkerFacts, Zenon DEF SetTarget, kernel, JobTypeOK
<1>6. j.act = "add" /\ id \in devmap /\ obj[id].path = j.path
  BY <1>4, <1>5, Zenon DEF JobInv
<1>7. /\ DOMAIN obj' = DOMAIN obj
      /\ \A i \in DOMAIN obj : /\ obj'[i].path = obj[i].path /\ obj'[i].gen = obj[i].gen
                               /\ obj'[i].rule = obj[i].rule /\ obj'[i].parent = obj[i].parent
                               /\ obj'[i].target = IF i = id THEN j.target ELSE obj[i].target
  <2>1. obj' = [obj EXCEPT ![id].target = j.target]
    BY <1>4, Zenon DEF SetTarget
  <2>2. \A i \in DOMAIN obj : obj[i] \in Objects
    BY <1>2, ObjectTypes, Zenon
  <2>3. /\ DOMAIN obj' = DOMAIN obj
        /\ obj'[id] = [obj[id] EXCEPT !.target = j.target]
        /\ \A i \in DOMAIN obj : i # id => obj'[i] = obj[i]
    BY <1>5, <2>1, Zenon
  <2>4. /\ obj'[id].path = obj[id].path /\ obj'[id].gen = obj[id].gen
        /\ obj'[id].rule = obj[id].rule /\ obj'[id].parent = obj[id].parent
        /\ obj'[id].target = j.target
    <3>1. PICK o : o = obj[id] /\ o \in Objects
      BY <1>5, <2>2, Zenon
    <3>2. obj'[id] = [o EXCEPT !.target = j.target]
      BY <2>3, <3>1, Zenon
    <3> QED  BY <3>1, <3>2, Zenon DEF Objects
  <2>5. ASSUME NEW i \in DOMAIN obj
        PROVE  /\ obj'[i].path = obj[i].path /\ obj'[i].gen = obj[i].gen
               /\ obj'[i].rule = obj[i].rule /\ obj'[i].parent = obj[i].parent
               /\ obj'[i].target = IF i = id THEN j.target ELSE obj[i].target
    <3>1. CASE i = id
      BY <2>4, <3>1, Zenon
    <3>2. CASE i # id
      BY <2>3, <3>2, Zenon
    <3> QED  BY <3>1, <3>2, Zenon
  <2> QED  BY <2>3, <2>5, Zenon
<1>8. PICK k : k = [j EXCEPT !.pc = "signal"]
  BY Zenon
<1>9. /\ k.pc = "signal" /\ k.act = "add" /\ k.path = j.path /\ k.gen = j.gen /\ k.id = id
  BY <1>4, <1>5, <1>6, <1>8, Zenon DEF Jobs
<1>10. job' = [job EXCEPT ![t] = k]
  BY <1>2, <1>4, <1>8, Zenon DEF SetTarget, Goto, TypeInv
<1>11. JobInv(k, now) /\ MapInv(k, now) /\ CurrentInv(k, now) /\ DecidedInv(k, now)
  <2>1. JobInv(k, now)
    BY <1>4, <1>5, <1>6, <1>9, ZenonT(30) DEF JobInv, Early
  <2>2. MapInv(k, now)
    BY <1>5, <1>6, <1>9, Zenon DEF MapInv, Early
  <2>3. CurrentInv(k, now) /\ DecidedInv(k, now)
    BY <1>5, <1>9, Zenon DEF CurrentInv, DecidedInv, Early, Deciding
  <2> QED  BY <2>1, <2>2, <2>3, Zenon
<1>12. JobInv(k, now)' /\ MapInv(k, now)' /\ CurrentInv(k, now)' /\ DecidedInv(k, now)'
  <2>1. UNCHANGED <<kern, sock, main, todo, ids, devmap, announced, requests>>
    BY <1>5, Zenon DEF scanning
  <2> QED  BY <1>2, <1>5, <1>7, <1>11, <2>1, TargetFrame, Zenon
<1>13. PresentInv'
  <2>1. job'[t] = k
    BY <1>2, <1>10, Zenon DEF TypeInv
  <2>2. main' = main /\ kern' = kern /\ (main # "run" => t = "main")
    BY <1>5, Zenon DEF scanning, Worker
  <2>3. main # "run" => Mild(j.path, j.target)
    BY <1>2, <1>4, <1>5, <2>2, Zenon DEF PresentInv, ObjTargets
  <2>4. ASSUME main # "run", NEW i \in DOMAIN obj
        PROVE  Mild(obj'[i].path, obj'[i].target)
    <3>1. Mild(obj[i].path, obj[i].target)
      BY <1>2, <2>4, Zenon DEF PresentInv
    <3> QED  BY <1>6, <1>7, <2>3, <2>4, <3>1, Zenon
  <2>5. k.pc \notin ObjTargets
    BY <1>9, Zenon DEF ObjTargets
  <2> QED  BY <1>2, <1>7, <2>1, <2>2, <2>4, <2>5, Zenon DEF PresentInv
<1>14. EventInv' /\ History(h, sock', Present') /\ (main # "run" => sock' = <<>>)
  <2>1. Present' = Present
    BY <1>5, Zenon DEF Present
  <2> QED  BY <1>1, <1>2, <1>5, <2>1, Zenon DEF EventInv, Track, ScanInv
<1>15. job[t].pc # "idle" /\ k.path = job[t].path /\ now = h[0] /\ UNCHANGED <<scanning, requests>> /\ ids' = ids
  BY <1>4, <1>5, <1>9, Zenon
<1> QED  BY <1>3, <1>10, <1>12, <1>13, <1>14, <1>15, WorkerStep, Zenon

-----------------------------------------------------------------------------
(* The thread that serves clients *)

\* The thread that serves clients.
LEMMA ServeKeeps ==
  ASSUME Inv, TypeInv',
         \/ \E id \in devmap, target \in RequestTargets : Request(id, target)
         \/ /\ main = "run" /\ requests > 0
            /\ GetDevice("ipc") \/ Write("ipc") \/ SetTarget("ipc") \/ Signal("ipc")
  PROVE  Inv'
\* What a client's request leaves alone.
<1>ClientStep.
  ASSUME Inv, TypeInv', main = "run", NEW k, job' = [job EXCEPT !["ipc"] = k],
         k.pc \in {"idle", "get", "write", "set", "signal"}, k.gen = 0, requests' > 0, requests' # 0,
         UNCHANGED scanning, EventInv',
         NEW g, NEW now, now = g[0], History(g, sock', Present'),
         NEW j, j = job["uevent"], JobInv(j, now)', MapInv(j, now)', CurrentInv(j, now)'
  PROVE  Inv'
  <2> USE <1>ClientStep
  <2>1. UNCHANGED <<main, todo, enumeration, backlog>> /\ Worker' = "uevent"
    BY Zenon DEF scanning, Worker
  <2>2. job'["ipc"] = k /\ job'["uevent"] = j /\ job'["main"] = job["main"]
    BY Zenon DEF Inv, TypeInv, Threads
  <2>3. DecidedInv(j, now)'
    BY Zenon DEF DecidedInv
  <2>4. Track(g)'
    BY <2>1, <2>2, <2>3, Zenon DEF Track
  <2>5. ScanInv'
    BY <2>1, <2>2, Zenon DEF Inv, ScanInv
  <2> QED  BY <2>1, <2>4, <2>5, Zenon DEF Inv, PresentInv
\* The invariant as such a step sees it.
<1>ClientFacts.
  ASSUME Inv, main = "run", NEW h, Track(h), NEW j, j = job["uevent"], NEW now, now = h[0]
  PROVE  /\ now \in SUBSET Paths /\ (j.pc # "idle" => j.path \in Paths)
         /\ JobInv(j, now) /\ MapInv(j, now) /\ CurrentInv(j, now) /\ DecidedInv(j, now)
  <2> USE <1>ClientFacts
  <2>1. Worker = "uevent"
    BY Zenon DEF Worker
  <2> QED  BY <2>1, WorkerFacts, Zenon DEF Inv
\* A request, and the steps that change nothing but the job.
<1>ClientJobKeeps.
  ASSUME Inv, TypeInv', main = "run", NEW k, job' = [job EXCEPT !["ipc"] = k],
         k.pc \in {"idle", "get", "write", "set", "signal"}, k.gen = 0, requests' > 0, requests' # 0,
         UNCHANGED <<kernel, scanning, tracking, announced>>
  PROVE  Inv'
  <2> USE <1>ClientJobKeeps
  <2>1. PICK h : Track(h)
    BY Zenon DEF Inv
  <2>2. PICK j, now : j = job["uevent"] /\ now = h[0]
    BY Zenon
  <2>3. /\ now \in SUBSET Paths /\ (j.pc # "idle" => j.path \in Paths)
        /\ JobInv(j, now) /\ MapInv(j, now) /\ CurrentInv(j, now)
    BY <2>1, <2>2, <1>ClientFacts, Zenon
  <2>4. UNCHANGED <<kern, sock, main, todo, ids, obj, devmap, announced>>
    BY Zenon DEF kernel, scanning, tracking
  <2>5. \A q \in Paths : NoEvent(q)' = NoEvent(q)
    BY <2>4, Zenon DEF NoEvent
  <2>6. JobInv(j, now)' /\ MapInv(j, now)' /\ CurrentInv(j, now)'
    BY <2>3, <2>4, <2>5, KernelFrame, Zenon
  <2>7. EventInv' /\ History(h, sock', Present')
    <3>1. Present' = Present
      BY <2>4, Zenon DEF Present
    <3> QED  BY <2>1, <2>4, <3>1, Zenon DEF Inv, EventInv, Track
  <2> QED  BY <2>2, <2>6, <2>7, <1>ClientStep, Zenon
\* applyDevicePolicy for a client.
<1>ClientKeeps.
  ASSUME Inv, TypeInv', main = "run", requests > 0, NEW t, t = "ipc",
         GetDevice(t) \/ Write(t) \/ SetTarget(t) \/ Signal(t)
  PROVE  Inv'
  <2> USE <1>ClientKeeps
  <2>1. PICK h : Track(h)
    BY Zenon DEF Inv
  <2>2. TypeInv /\ ScanInv /\ EventInv /\ t \in Threads /\ requests \in Nat /\ requests # 0
    BY ConstantTypes, SMT, Z3, SMTT(20), Z3T(20) DEF Inv, TypeInv, DataTypeOK, Threads
  <2>3. TypeInv' /\ requests' = requests /\ UNCHANGED scanning /\ requests' > 0 /\ requests' # 0
    BY <2>2, Zenon DEF GetDevice, Write, SetTarget, Signal
  <2>4. PICK j, now, c, id : j = job["uevent"] /\ now = h[0] /\ c = job[t] /\ id = c.id
    BY Zenon
  <2>5. /\ now \in SUBSET Paths /\ (j.pc # "idle" => j.path \in Paths)
        /\ JobInv(j, now) /\ MapInv(j, now) /\ CurrentInv(j, now) /\ DecidedInv(j, now)
    BY <2>1, <2>4, <1>ClientFacts, Zenon
  <2>6. c \in Jobs /\ JobTypeOK(c, DOMAIN obj) /\ c.gen = 0
    BY <2>2, <2>4, Zenon DEF TypeInv, JobTypeOK, ScanInv
  <2>7. \A pc \in {"write", "set", "signal"} :
          [c EXCEPT !.pc = pc].pc = pc /\ [c EXCEPT !.pc = pc].gen = 0
    BY <2>6, Zenon DEF Jobs
  <2>8. NoJob.pc = "idle" /\ NoJob.gen = 0
    BY Zenon DEF NoJob
  <2>9. ASSUME NEW pc \in {"write", "set", "signal"}, Goto(t, pc)
        PROVE  job' = [job EXCEPT !["ipc"] = [c EXCEPT !.pc = pc]]
    BY <2>2, <2>4, <2>9, Zenon DEF Goto, TypeInv
  <2>10. Finish(t) => job' = [job EXCEPT !["ipc"] = NoJob]
    BY Zenon DEF Finish
  <2>11. CASE Finish(t) /\ UNCHANGED <<kernel, tracking, announced>>
    BY <2>3, <2>8, <2>10, <2>11, <1>ClientJobKeeps, Zenon
  <2>12. CASE Goto(t, "write") /\ UNCHANGED <<kernel, tracking, announced>>
    BY <2>3, <2>7, <2>9, <2>12, <1>ClientJobKeeps, Zenon
  <2>13. CASE /\ KernelApply(obj[id].path, c.target) /\ Goto(t, "set") /\ c.pc = "write"
              /\ UNCHANGED <<tracking, announced>>
    <3>1. CountsPaths /\ sock \in Seq(Events) /\ kern \in [Paths -> KernelDevices]
      BY <2>2, Zenon DEF TypeInv, DataTypeOK
    <3>2. id \in DOMAIN obj /\ c.target \in Targets
      BY <2>4, <2>6, <2>13, Zenon DEF JobTypeOK, ObjTargets
    <3>3. PICK p : p = obj[id].path
      BY Zenon
    <3>4. p \in Paths
      BY <2>2, <3>2, <3>3, ObjectTypes, Zenon
    <3>5. Applied(p, c.target)
      BY <2>13, <3>1, <3>2, <3>3, <3>4, ApplyEffect, Zenon
    <3>6. PICK g : History(g, sock', Present') /\ g[0] = now
      BY <2>1, <2>4, <3>5, Zenon DEF Applied, Track
    <3>7. /\ \A q \in Paths :
               /\ kern'[q].gen = kern[q].gen /\ kern'[q].boot = kern[q].boot
               /\ kern'[q].rule = kern[q].rule
               /\ NoEvent(q)' => NoEvent(q)
          /\ \A n \in DOMAIN sock' :
               sock'[n].act = "remove" \/ (n \in DOMAIN sock /\ sock'[n] = sock[n])
      BY <3>5, Zenon DEF Applied
    <3>8. EventInv'
      <4> SUFFICES ASSUME NEW n \in DOMAIN sock', sock'[n].act = "add"
                   PROVE  ~kern'[sock'[n].path].boot
        BY Zenon DEF EventInv
      <4>1. n \in DOMAIN sock /\ sock'[n] = sock[n]
        BY <3>7, Zenon
      <4>2. sock[n].path \in Paths
        <5>1. sock[n] \in Events
          BY <3>1, <4>1, SMT, Z3, SMTT(20), Z3T(20)
        <5> QED  BY <5>1, Zenon DEF Events
      <4>3. ~kern[sock[n].path].boot
        BY <2>2, <4>1, Zenon DEF EventInv
      <4> QED  BY <3>7, <4>1, <4>2, <4>3, Zenon
    <3>9. UNCHANGED <<main, todo, ids, obj, devmap, announced>>
      BY <2>3, <2>13, Zenon DEF scanning, tracking
    <3>10. JobInv(j, now)' /\ MapInv(j, now)' /\ CurrentInv(j, now)'
      BY <2>5, <3>7, <3>9, KernelFrame, Zenon
    <3> QED  BY <2>3, <2>4, <2>7, <2>9, <2>13, <3>6, <3>8, <3>10, <1>ClientStep, Zenon
  <2>14. CASE /\ obj' = [obj EXCEPT ![id].target = c.target] /\ Goto(t, "signal") /\ c.pc = "set"
              /\ UNCHANGED <<kern, sock, ids, devmap, announced>>
    <3>1. id \in DOMAIN obj
      BY <2>4, <2>6, <2>14, Zenon DEF JobTypeOK
    <3>2. /\ DOMAIN obj' = DOMAIN obj
          /\ \A i \in DOMAIN obj : /\ obj'[i].path = obj[i].path /\ obj'[i].gen = obj[i].gen
                                   /\ obj'[i].rule = obj[i].rule /\ obj'[i].parent = obj[i].parent
      <4>1. \A i \in DOMAIN obj : obj[i] \in Objects
        BY <2>2, ObjectTypes, Zenon
      <4> QED  BY <2>14, <3>1, <4>1, Zenon DEF Objects
    <3>3. UNCHANGED <<kern, sock, main, todo, ids, devmap, announced, requests>>
      BY <2>3, <2>14, Zenon DEF scanning
    <3>4. JobInv(j, now)' /\ MapInv(j, now)' /\ CurrentInv(j, now)'
      BY <2>2, <2>5, <3>2, <3>3, TargetFrame, Zenon
    <3>5. EventInv' /\ History(h, sock', Present')
      <4>1. Present' = Present
        BY <3>3, Zenon DEF Present
      <4> QED  BY <2>1, <2>2, <3>3, <4>1, Zenon DEF EventInv, Track
    <3> QED  BY <2>3, <2>4, <2>7, <2>9, <2>14, <3>4, <3>5, <1>ClientStep, Zenon
  <2> QED  BY <2>4, <2>11, <2>12, <2>13, <2>14, Zenon DEF GetDevice, Write, SetTarget, Signal, kernel
\* A client asks.
<1>RequestKeeps.
  ASSUME Inv, TypeInv', NEW id \in devmap, NEW target \in RequestTargets, Request(id, target)
  PROVE  Inv'
  <2> USE <1>RequestKeeps
  <2>1. TypeInv' /\ requests \in Nat
    BY ConstantTypes, SMT, Z3, SMTT(20), Z3T(20) DEF Inv, TypeInv, DataTypeOK
  <2>2. PICK k : k = [NoJob EXCEPT !.pc = "get", !.act = "apply", !.path = obj[id].path,
                                   !.id = id, !.target = target]
    OBVIOUS
  <2>3. k.pc = "get" /\ k.gen = 0
    BY <2>2, Zenon DEF NoJob
  <2>4. /\ job' = [job EXCEPT !["ipc"] = k] /\ main = "run" /\ requests' > 0 /\ requests' # 0
        /\ UNCHANGED <<kernel, scanning, tracking, announced>>
    <3>1. /\ job' = [job EXCEPT !["ipc"] = k] /\ main = "run" /\ requests' = requests + 1
          /\ UNCHANGED <<kernel, scanning, tracking, announced>>
      BY <2>2, Zenon DEF Request
    <3>2. requests + 1 > 0 /\ requests + 1 # 0
      BY <2>1, SMT, Z3, SMTT(20), Z3T(20)
    <3> QED  BY <3>1, <3>2, Zenon
  <2> QED  BY <2>1, <2>3, <2>4, <1>ClientJobKeeps, ZenonT(30)
<1> QED  BY <1>ClientKeeps, <1>RequestKeeps, Zenon

-----------------------------------------------------------------------------
(* All steps *)

\* A thread that takes a step handles devices, or serves a client.
LEMMA WorkingThreads ==
  ASSUME TypeInv, ScanInv, NEW t \in Threads, Step(t)
  PROVE  \/ t = Worker
         \/ /\ t = "ipc" /\ main = "run" /\ Worker = "uevent" /\ requests > 0
            /\ GetDevice(t) \/ Write(t) \/ SetTarget(t) \/ Signal(t)
<1>1. job[t].pc # "idle"
  BY Zenon DEF Step, LookPresence, LookInsertion, LookRemoval, Build, Insert, Learn, DeviceEvent,
         Forget, GetDevice, Write, SetTarget, Signal
<1>2. requests \in Nat
  BY ConstantTypes, SMT, Z3 DEF TypeInv, DataTypeOK
<1>3. CASE t = "main"
  BY <1>1, <1>3, Zenon DEF ScanInv, Worker
<1>4. CASE t = "uevent"
  BY <1>1, <1>4, Zenon DEF ScanInv, Worker
<1>5. CASE t = "ipc"
  <2>1. main = "run" /\ Worker = "uevent" /\ requests > 0
    BY <1>1, <1>2, <1>5, SMT, Z3, SMTT(20), Z3T(20) DEF ScanInv, Worker
  <2>2. job[t].pc \in {"get", "write", "set", "signal"}
    BY <1>1, <1>5, Zenon DEF ScanInv
  <2> QED  BY <1>5, <2>1, <2>2, Zenon DEF Step, LookPresence, LookInsertion, LookRemoval, Build, Insert, Learn,
                 DeviceEvent, Forget
<1> QED  BY <1>3, <1>4, <1>5, Zenon DEF Threads

\* The invariant is kept by every step.
LEMMA NextKeeps ==
  ASSUME Inv, Undisturbed, [Next]_vars
  PROVE  Inv'
<1>0. TypeInv'
  BY TypesStay, Zenon
<1>1. CASE Kernel
  BY <1>0, <1>1, KernelKeeps, Zenon
<1>2. CASE Scan
  BY <1>0, <1>2, ScanKeeps, Zenon
<1>3. CASE UEvent
  BY <1>0, <1>3, UEventKeeps, Zenon
<1>4. ASSUME NEW t \in Threads, Step(t)
      PROVE  Inv'
  <2>1. \/ t = Worker
        \/ /\ t = "ipc" /\ main = "run" /\ requests > 0
           /\ GetDevice(t) \/ Write(t) \/ SetTarget(t) \/ Signal(t)
    BY <1>4, WorkingThreads, Zenon DEF Inv
  <2>2. CASE t = Worker
    BY <1>0, <1>4, <2>2, NeverPresent, LookInsertionKeeps, LookRemovalKeeps, BuildKeeps, InsertKeeps,
       LearnKeeps, DeviceEventKeeps, ForgetKeeps, ApplyJobKeeps, WriteKeeps, SetTargetKeeps, Zenon
       DEF Step
  <2>3. CASE /\ t = "ipc" /\ main = "run" /\ requests > 0
             /\ GetDevice(t) \/ Write(t) \/ SetTarget(t) \/ Signal(t)
    BY <1>0, <2>3, ServeKeeps, Zenon
  <2> QED  BY <2>1, <2>2, <2>3, Zenon
<1>5. ASSUME NEW id \in devmap, NEW target \in RequestTargets, Request(id, target)
      PROVE  Inv'
  BY <1>0, <1>5, ServeKeeps, Zenon
<1>6. CASE UNCHANGED vars
  <2>1. TypeInv' /\ ScanInv' /\ PresentInv' /\ EventInv'
    BY <1>0, <1>6, Zenon DEF Inv, ScanInv, PresentInv, EventInv, vars
  <2>2. PICK h : Track(h)
    BY Zenon DEF Inv
  <2>3. PICK j, now : j = job[Worker] /\ now = h[0]
    BY Zenon
  <2>4. /\ now \in SUBSET Paths /\ (j.pc # "idle" => j.path \in Paths)
        /\ JobInv(j, now) /\ MapInv(j, now) /\ CurrentInv(j, now) /\ DecidedInv(j, now)
    BY <2>2, <2>3, WorkerFacts, Zenon DEF Inv
  <2>5. \A q \in Paths : NoEvent(q)' = NoEvent(q)
    BY <1>6, Zenon DEF NoEvent, vars
  <2>6. JobInv(j, now)' /\ MapInv(j, now)' /\ CurrentInv(j, now)'
    BY <1>6, <2>4, <2>5, KernelFrame, Zenon DEF vars
  <2>7. DecidedInv(j, now)'
    BY <1>6, <2>4, <2>5, DecidedFrame, Zenon DEF vars
  <2>8. job'[Worker'] = j /\ Present' = Present
    BY <1>6, <2>3, Zenon DEF vars, Worker, Present
  <2>9. Track(h)'
    BY <1>6, <2>2, <2>3, <2>6, <2>7, <2>8, Zenon DEF Track, vars
  <2> QED  BY <2>1, <2>9, Zenon DEF Inv
<1> QED  BY <1>1, <1>2, <1>3, <1>4, <1>5, <1>6, Zenon DEF Next

-----------------------------------------------------------------------------
(* The theorems *)

INSTANCE FiniteSetTheorems

\* The sizes of sets of paths are numbers, because there are finitely many paths.
LEMMA PathsCounted == CountsPaths
  BY FS_Subset, FS_CardinalityType, ConstantsAssumption, Zenon DEF CountsPaths

\* The invariant of the device manager.
LEMMA Invariance == ASSUME Undisturbed PROVE Spec => []Inv
<1>1. Init => Inv
  BY InitHolds, PathsCounted, Zenon
<1>2. Inv /\ [Next]_vars => Inv'
  BY NextKeeps, Zenon
<1> QED  BY <1>1, <1>2, PTL DEF Spec

\* The variables keep the types that the code gives them.
THEOREM TypesKept == ASSUME Undisturbed PROVE Spec => []TypeOK
<1>1. Inv => TypeOK
  BY TypesHold, Zenon DEF Inv
<1> QED  BY <1>1, Invariance, PTL

\* When all events have been processed the device map mirrors the kernel's
\* devices, however many devices come and go after the start, in whatever order,
\* and whatever clients ask for (UEventDeviceManager::scan, ueventProcessAction).
THEOREM AllDevicesTracked == ASSUME Undisturbed PROVE Spec => []DevicesTracked
<1>1. Inv => DevicesTracked
  BY QuietFacts, Zenon DEF DevicesTracked
<1> QED  BY <1>1, Invariance, PTL

\* Clients that follow DevicePresenceChanged know exactly the devices of the map
\* (Daemon::dmHookDeviceEvent).
THEOREM AllPresenceAnnounced == ASSUME Undisturbed PROVE Spec => []PresenceAnnounced
<1>1. Inv => PresenceAnnounced
  BY QuietFacts, Zenon DEF PresenceAnnounced
<1> QED  BY <1>1, Invariance, PTL

\* Unless a client interferes, every device is in the state that the
\* configuration asks for (Daemon::dmHookDeviceEvent, dmApplyDevicePolicy).
THEOREM AllDevicesDecided == ASSUME Undisturbed PROVE Spec => []DevicesDecided
<1>1. Inv => DevicesDecided
  BY QuietFacts, Zenon DEF DevicesDecided
<1> QED  BY <1>1, Invariance, PTL

\* A device whose handling raises an exception is gone afterwards
\* (DeviceManagerBase::processDeviceInsertion).
THEOREM ExceptionsReject == ASSUME Undisturbed PROVE Spec => FailedInsertionsRejected
<1> DEFINE A == \A t \in Threads : Raises(t) =>
                  LET k == kern'[job[t].path] IN ~(k.on /\ k.gen = job[t].gen)
<1>1. Inv /\ [Next]_vars => [A]_vars
  BY RaisesRejects, Zenon
<1> QED  BY <1>1, Invariance, PTL DEF Spec, FailedInsertionsRejected

=============================================================================
