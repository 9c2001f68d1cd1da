------------------------- MODULE DeviceManagerSteps -------------------------
(***************************************************************************)
(* The main thread and the uevent thread keep the invariant while they     *)
(* scan, read and look up devices, and what the invariant says at rest.    *)
(***************************************************************************)
EXTENDS DeviceManagerInvariant

-----------------------------------------------------------------------------
(* The main thread scans *)

\* When no event is pending the daemon's view of the devices is the kernel's.
LEMMA EmptyHistory ==
  ASSUME NEW h, NEW on \in SUBSET Paths, sock = <<>>, History(h, sock, on)
  PROVE  h[0] = on
<1>1. Len(sock) = 0 /\ 0 \in 0 .. Len(sock) /\ h \in [0 .. Len(sock) -> SUBSET Paths]
  BY SMT, Z3 DEF History
<1>2. \A p \in Paths : (\A m \in 0 + 1 .. Len(sock) : sock[m].path # p) => (p \in h[0] <=> p \in on)
  BY <1>1, Zenon DEF History
<1>3. \A m \in 0 + 1 .. Len(sock) : FALSE
  BY <1>1, SMT, Z3
<1>4. h[0] \subseteq Paths
  BY <1>1, Zenon
<1> QED  BY <1>2, <1>3, <1>4, Zenon

\* The main thread's own steps.
LEMMA ScanKeeps ==
  ASSUME Inv, TypeInv', Scan
  PROVE  Inv'
\* A step that leaves the thread that handles devices idle, or makes another idle
\* thread that one, and changes no device.
<1>IdleFrame.
  ASSUME NEW j, NEW k, j.pc = "idle", k.pc = "idle", NEW now \in SUBSET Paths,
         MapInv(j, now), DecidedInv(j, now),
         UNCHANGED <<kern, sock, ids, obj, devmap, announced, requests>>
  PROVE  JobInv(k, now)' /\ MapInv(k, now)' /\ DecidedInv(k, now)'
  <2> USE <1>IdleFrame
  <2>1. JobInv(k, now)'
    BY Zenon DEF JobInv
  <2>2. MapInv(k, now)'
    BY Zenon DEF MapInv, Early
  <2>3. \A p \in Paths : Asks(p, kern[p].auth)' = Asks(p, kern[p].auth) /\ NoEvent(p)' = NoEvent(p)
    BY Zenon DEF Asks, Method, NoEvent
  <2>4. DecidedInv(k, now)'
    BY <2>3, Zenon DEF DecidedInv, Deciding
  <2> QED  BY <2>1, <2>2, <2>4, Zenon
\* While main scans, nothing is pending.
<1>ScanFacts.
  ASSUME TypeInv, ScanInv, main # "run", NEW h, Track(h)
  PROVE  /\ h[0] = Present /\ sock = <<>> /\ Worker = "main"
         /\ \A p \in Paths : NoEvent(p)
         /\ "main" \in Threads /\ "uevent" \in Threads
  <2> USE <1>ScanFacts
  <2>1. sock = <<>>
    BY Zenon DEF ScanInv
  <2>2. Present \in SUBSET Paths
    BY Zenon DEF Present
  <2>3. h[0] = Present
    BY <2>1, <2>2, EmptyHistory, Zenon DEF Track
  <2> QED  BY <2>1, <2>3, SMT, Z3 DEF Worker, NoEvent, Threads
\* The enumeration finds every device.
<1>ScanBeginKeeps.
  ASSUME Inv, TypeInv', ScanBegin
  PROVE  Inv'
  <2> USE <1>ScanBeginKeeps
  <2>1. PICK h : Track(h)
    BY Zenon DEF Inv
  <2>2. TypeInv /\ ScanInv /\ PresentInv /\ EventInv
    BY Zenon DEF Inv
  <2>3. /\ main = "start" /\ main' = "scan" /\ enumeration' = TRUE /\ todo' \in Enumerated
        /\ UNCHANGED <<kern, sock, backlog, ids, obj, devmap, mutex, job, requests, announced>>
    BY Zenon DEF ScanBegin, kernel, tracking
  <2>4. TypeInv'
    BY Zenon
  <2>5. /\ h[0] = Present /\ sock = <<>> /\ Worker = "main" /\ Worker' = "main"
        /\ \A p \in Paths : NoEvent(p)
    BY <2>1, <2>2, <2>3, <1>ScanFacts, Zenon DEF Worker
  <2>6. /\ \A i \in DOMAIN todo' : todo'[i].path \in Paths
        /\ \A i, k \in DOMAIN todo' : i < k => Rank[todo'[i].path] < Rank[todo'[k].path]
        /\ \A p \in Present : \E i \in DOMAIN todo' : todo'[i].path = p
    BY <2>2, <2>3, EnumeratedTypes, Zenon DEF TypeInv
  <2>7. job["main"].pc = "idle" /\ job'["main"].pc = "idle"
    BY <2>2, <2>3, Zenon DEF ScanInv
  <2>8. ScanInv'
    BY <2>2, <2>3, <2>6, <2>7, Zenon DEF ScanInv
  <2>9. PresentInv' /\ EventInv'
    BY <2>2, <2>3, <2>7, Zenon DEF PresentInv, EventInv, ObjTargets
  <2>10. PICK j : j = job["main"]
    BY Zenon
  <2> DEFINE now == h[0]
  <2>11. now \in SUBSET Paths /\ now = Present
    BY <2>5, Zenon DEF Present
  <2>12. MapInv(j, now) /\ DecidedInv(j, now) /\ History(h, sock, Present) /\ j.pc = "idle"
    BY <2>1, <2>5, <2>7, <2>10, Zenon DEF Track
  <2> HIDE DEF now
  <2>13. JobInv(j, now)' /\ MapInv(j, now)' /\ DecidedInv(j, now)'
    BY <2>3, <2>11, <2>12, <1>IdleFrame, Zenon
  <2>14. CurrentInv(j, now)'
    <3>1. \A p \in now : Remaining(p)'
      BY <2>3, <2>6, <2>11, Zenon DEF Remaining
    <3>2. \A p \in now : ~(ids[p] > NoID)
      BY <2>2, <2>3, <2>11, SMT, Z3 DEF ScanInv, Unknown, NoID
    <3> QED  BY <2>3, <3>1, <3>2, Zenon DEF CurrentInv
  <2>15. Present' = Present /\ job'[Worker'] = j
    BY <2>3, <2>5, <2>10, Zenon DEF Present
  <2>16. Track(h)'
    BY <2>3, <2>12, <2>13, <2>14, <2>15, Zenon DEF Track, now
  <2> QED  BY <2>4, <2>8, <2>9, <2>16, Zenon DEF Inv
\* The scan ends when it has tracked every device.
<1>ScanEndKeeps.
  ASSUME Inv, TypeInv', ScanEnd \/ BacklogBegin \/ BacklogNext
  PROVE  Inv'
  <2> USE <1>ScanEndKeeps
  <2>1. PICK h : Track(h)
    BY Zenon DEF Inv
  <2>2. TypeInv /\ ScanInv /\ PresentInv /\ EventInv
    BY Zenon DEF Inv
  <2>3. /\ main \in {"scan", "backlog", "backlogged"} /\ main' \in {"backlog", "backlogged", "run"}
        /\ main = "scan" => todo = <<>>
        /\ enumeration' = FALSE /\ (main' = "backlogged" => todo' = <<>>)
        /\ job["main"].pc = "idle"
        /\ UNCHANGED <<kern, sock, backlog, ids, obj, devmap, mutex, job, requests, announced>>
    BY <2>2, Zenon DEF ScanEnd, BacklogBegin, BacklogNext, ScanInv, kernel, tracking
  <2>4. TypeInv'
    BY Zenon
  <2>5. /\ h[0] = Present /\ sock = <<>> /\ Worker = "main" /\ Worker' \in {"main", "uevent"}
        /\ \A p \in Paths : NoEvent(p)
    BY <2>1, <2>2, <2>3, <1>ScanFacts, Zenon DEF Worker
  <2>6. job["uevent"].pc = "idle"
    BY <2>2, <2>3, Zenon DEF ScanInv
  <2>8. ScanInv'
    BY <2>2, <2>3, <2>6, Zenon DEF ScanInv
  <2>9. PresentInv' /\ EventInv'
    BY <2>2, <2>3, Zenon DEF PresentInv, EventInv, ObjTargets
  <2>10. PICK j, k : j = job["main"] /\ k = job'[Worker']
    BY Zenon
  <2> DEFINE now == h[0]
  <2>11. now \in SUBSET Paths /\ now = Present
    BY <2>5, Zenon DEF Present
  <2>12. /\ MapInv(j, now) /\ DecidedInv(j, now) /\ CurrentInv(j, now)
         /\ History(h, sock, Present) /\ j.pc = "idle" /\ k.pc = "idle"
    BY <2>1, <2>3, <2>5, <2>6, <2>10, Zenon DEF Track
  <2> HIDE DEF now
  <2>13. JobInv(k, now)' /\ MapInv(k, now)' /\ DecidedInv(k, now)'
    BY <2>3, <2>11, <2>12, <1>IdleFrame, Zenon
  <2>14. CurrentInv(k, now)'
    <3>1. \A p \in now : ~Remaining(p) /\ (NoEvent(p)' <=> NoEvent(p))
      BY <2>3, SMT, Z3 DEF Remaining, NoEvent
    <3> QED  BY <2>3, <2>12, <3>1, Zenon DEF CurrentInv, Early
  <2>15. Present' = Present
    BY <2>3, Zenon DEF Present
  <2>16. Track(h)'
    BY <2>3, <2>10, <2>12, <2>13, <2>14, <2>15, Zenon DEF Track, now
  <2> QED  BY <2>4, <2>8, <2>9, <2>16, Zenon DEF Inv
\* ueventEnumerateTriggerDevice takes the next device.
<1>ScanTriggerKeeps.
  ASSUME Inv, TypeInv', ScanTrigger
  PROVE  Inv'
  <2> USE <1>ScanTriggerKeeps
  <2> DEFINE p == Head(todo).path
  <2>1. PICK h : Track(h)
    BY DEF Inv
  <2>2. TypeInv /\ ScanInv /\ PresentInv /\ EventInv
    BY DEF Inv
  <2>3. /\ main = "scan" /\ todo # <<>> /\ job["main"].pc = "idle" /\ todo' = Tail(todo)
        /\ UNCHANGED <<kern, sock, main, enumeration, backlog, obj, devmap, mutex, requests, announced>>
    BY Zenon DEF ScanTrigger, kernel
  <2>4. TypeInv'
    OBVIOUS
  <2>5. /\ h[0] = Present /\ sock = <<>> /\ Worker = "main" /\ Worker' = "main"
        /\ \A q \in Paths : NoEvent(q) /\ NoEvent(q)'
        /\ "main" \in Threads /\ Present' = Present
    <3>1. /\ h[0] = Present /\ sock = <<>> /\ Worker = "main"
          /\ (\A q \in Paths : NoEvent(q)) /\ "main" \in Threads
      BY <2>1, <2>2, <2>3, <1>ScanFacts, Zenon
    <3>2. Worker' = "main" /\ Present' = Present
      BY <2>3, Zenon DEF Worker, Present
    <3>3. \A q \in Paths : NoEvent(q)'
      BY <2>3, <3>1, Zenon DEF NoEvent
    <3> QED  BY <3>1, <3>2, <3>3, Zenon
  <2>6. /\ DOMAIN todo = 1 .. Len(todo) /\ DOMAIN todo' = 1 .. Len(todo) - 1 /\ Len(todo) \in Nat
        /\ \A i \in DOMAIN todo' : i + 1 \in DOMAIN todo /\ todo'[i] = todo[i + 1] /\ 1 < i + 1
        /\ 1 \in DOMAIN todo /\ todo[1].path = p
        /\ \A i \in DOMAIN todo : i = 1 \/ (i - 1 \in DOMAIN todo' /\ todo'[i - 1] = todo[i])
        /\ \A i, k \in DOMAIN todo' : i < k => i + 1 < k + 1
    <3>1. todo \in Seq(Events)
      BY <2>2, Zenon DEF TypeInv, DataTypeOK
    <3> QED  BY <2>3, <3>1, SMT, Z3
  <2>7. p \in Paths /\ \A i \in DOMAIN todo : todo[i].path \in Paths
    <3>1. todo \in Seq(Events)
      BY <2>2, Zenon DEF TypeInv, DataTypeOK
    <3>2. \A i \in DOMAIN todo : todo[i] \in Events
      BY <3>1, SMT, Z3
    <3> QED  BY <2>6, <3>2, Zenon DEF Events
  <2> HIDE DEF p
  <2>8. /\ \A i, k \in DOMAIN todo : i < k => Rank[todo[i].path] < Rank[todo[k].path]
        /\ \A i \in DOMAIN todo : ids[todo[i].path] = Unknown
        /\ ids[p] = Unknown
    BY <2>2, <2>3, <2>6, Zenon DEF ScanInv
  <2>9. /\ \A i, k \in DOMAIN todo' : i < k => Rank[todo'[i].path] < Rank[todo'[k].path]
        /\ \A i \in DOMAIN todo' : ids[todo'[i].path] = Unknown /\ Rank[p] < Rank[todo'[i].path]
                                   /\ todo'[i].path # p
    <3>1. Rank \in [Paths -> Nat]
      BY ConstantsAssumption, Zenon
    <3>2. \A i \in DOMAIN todo' : Rank[p] < Rank[todo'[i].path]
      BY <2>6, <2>8, Zenon
    <3> QED  BY <2>6, <2>7, <2>8, <3>1, <3>2, SMT, Z3, SMTT(20), Z3T(20)
  <2>10. \A q \in Paths : Remaining(q) => q = p \/ Remaining(q)'
    BY <2>3, <2>6, SMT, Z3, SMTT(20), Z3T(20) DEF Remaining
  <2> DEFINE now == h[0]
  <2>11. now \in SUBSET Paths /\ now = Present
    BY <2>5, Zenon DEF Present
  <2>12. PICK j : j = job["main"]
    OBVIOUS
  <2>13. /\ MapInv(j, now) /\ DecidedInv(j, now) /\ CurrentInv(j, now)
         /\ History(h, sock, Present) /\ j.pc = "idle"
    BY <2>1, <2>3, <2>5, <2>12, Zenon DEF Track
  <2>14. History(h, sock', Present') /\ EventInv'
    BY <2>2, <2>3, <2>5, <2>13, Zenon DEF EventInv
  <2>15. CASE kern[p].on
    <3>1. ids' = [ids EXCEPT ![p] = NoID] /\ job' = [job EXCEPT !["main"] = NewJob("add", p, "look")]
      BY <2>15, Zenon DEF ScanTrigger, NewJob, p
    <3>2. PICK k : k = NewJob("add", p, "look")
      BY Zenon
    <3>3. k.pc = "look" /\ k.act = "add" /\ k.path = p
      BY <3>2, Zenon DEF NewJob, NoJob
    <3>4. job'["main"] = k /\ job'["uevent"] = job["uevent"] /\ job'["ipc"] = job["ipc"]
      BY <2>2, <3>1, <3>2, Zenon DEF TypeInv, Threads
    <3>5. ids'[p] = NoID /\ \A q \in Paths : q # p => ids'[q] = ids[q]
      BY <2>2, <2>7, <3>1, ZenonT(30) DEF TypeInv, DataTypeOK
    <3>6. ScanInv'
      BY <2>2, <2>3, <2>6, <2>7, <2>9, <3>3, <3>4, <3>5, SMT, Z3, SMTT(20), Z3T(20) DEF ScanInv
    <3>7. PresentInv'
      BY <2>2, <2>3, <3>3, <3>4, Zenon DEF PresentInv, ObjTargets
    <3>8. JobInv(k, now)'
      <4>1. kern[p].boot /\ kern[p].boot \in BOOLEAN /\ p \in now
        BY <2>2, <2>3, <2>7, <2>11, <2>15, Zenon DEF PresentInv, TypeInv, DataTypeOK, KernelDevices, Present
      <4> QED  BY <2>3, <3>3, <3>5, <4>1, Zenon DEF JobInv, Early
    <3>9. MapInv(k, now)'
      <4>1. \A id \in DOMAIN obj : obj[id].path \in Paths /\ id > NoID
        <5>1. obj \in Seq(Objects)
          BY <2>2, Zenon DEF TypeInv, DataTypeOK
        <5> QED  BY <2>2, <5>1, ObjectTypes, SMT, Z3, SMTT(20), Z3T(20) DEF NoID
      <4>2. devmap \subseteq DOMAIN obj
        BY <2>2, Zenon DEF TypeInv, DataTypeOK
      <4>3. \A q \in Paths : Parent[q] # NoPath => Parent[q] \in Paths
        BY ConstantsAssumption, Zenon
      <4>4. \A q \in Paths : ids'[q] > NoID => q # p /\ ids'[q] = ids[q]
        BY <3>5, SMT, Z3, SMTT(20), Z3T(20) DEF NoID
      <4>5. \A q \in Paths : ids'[q] = NoID => q = p
        BY <2>13, <3>5, Zenon DEF MapInv, Early
      <4>6. ASSUME NEW id \in devmap
            PROVE  /\ ids'[obj[id].path] = id
                   /\ Parent[obj[id].path] # NoPath =>
                        obj[id].parent = ids'[Parent[obj[id].path]] /\ obj[id].parent > NoID
        <5>1. /\ ids[obj[id].path] = id
              /\ Parent[obj[id].path] # NoPath =>
                   obj[id].parent = ids[Parent[obj[id].path]] /\ obj[id].parent > NoID
          BY <2>13, <4>6, Zenon DEF MapInv
        <5>2. obj[id].path \in Paths /\ obj[id].path # p
          BY <2>8, <4>1, <4>2, <5>1, IdOrder, Zenon
        <5>3. Parent[obj[id].path] # NoPath => Parent[obj[id].path] \in Paths /\ Parent[obj[id].path] # p
          BY <2>8, <4>3, <5>1, <5>2, IdOrder, Zenon
        <5> QED  BY <3>5, <5>1, <5>2, <5>3, Zenon
      <4>7. \A id \in DOMAIN obj : id \in announced <=> id \in devmap
        BY <2>13, Zenon DEF MapInv
      <4>8. \A q \in Paths : ids'[q] > NoID => obj[ids'[q]].path = q /\ ids'[q] \in devmap /\ q \in now
        BY <2>13, <4>4, Zenon DEF MapInv
      <4> QED  BY <2>3, <3>3, <4>5, <4>6, <4>7, <4>8, Zenon DEF MapInv, Early
    <3>10. CurrentInv(k, now)'
      BY <2>3, <2>5, <2>10, <2>11, <2>13, <3>3, <3>5, IdOrder, Zenon DEF CurrentInv, Early
    <3>11. DecidedInv(k, now)'
      <4>1. \A q \in Paths : Asks(q, kern[q].auth)' = Asks(q, kern[q].auth)
        BY <2>3, Zenon DEF Asks, Method
      <4> QED  BY <2>3, <2>5, <2>11, <2>13, <3>3, <3>5, <4>1, SMT, Z3, SMTT(20), Z3T(20) DEF DecidedInv, Deciding, NoID
    <3>12. Track(h)'
      BY <2>5, <2>14, <3>4, <3>8, <3>9, <3>10, <3>11, Zenon DEF Track, now
    <3> QED  BY <2>4, <2>14, <3>6, <3>7, <3>12, Zenon DEF Inv
  <2>16. CASE ~kern[p].on
    <3>1. ids' = ids /\ job' = job
      BY <2>16, Zenon DEF ScanTrigger, p
    <3>2. ScanInv'
      BY <2>2, <2>3, <2>6, <2>7, <2>9, <3>1, Zenon DEF ScanInv
    <3>3. PresentInv'
      BY <2>2, <2>3, <3>1, Zenon DEF PresentInv, ObjTargets
    <3>4. JobInv(j, now)' /\ MapInv(j, now)' /\ DecidedInv(j, now)'
      BY <2>3, <2>11, <2>13, <3>1, <1>IdleFrame, Zenon
    <3>5. CurrentInv(j, now)'
      <4>1. p \notin now
        BY <2>11, <2>16, Zenon DEF Present
      <4> QED  BY <2>3, <2>5, <2>10, <2>11, <2>13, <3>1, <4>1, Zenon DEF CurrentInv, Early
    <3>6. Track(h)'
      BY <2>5, <2>12, <2>14, <3>1, <3>4, <3>5, Zenon DEF Track, now
    <3> QED  BY <2>4, <2>14, <3>2, <3>3, <3>6, Zenon DEF Inv
  <2> QED  BY <2>15, <2>16, Zenon
<1> QED  BY <1>ScanBeginKeeps, <1>ScanTriggerKeeps, <1>ScanEndKeeps, Zenon DEF Scan

-----------------------------------------------------------------------------
(* The uevent thread takes an event *)

\* The steps of the uevent thread: it never appends to the backlog.
LEMMA UEventKeeps ==
  ASSUME Inv, TypeInv', UEvent
  PROVE  Inv'
\* The history after the first event.
<1>TailHistory.
  ASSUME sock \in Seq(Events), sock # <<>>, sock' = Tail(sock), NEW on \in SUBSET Paths,
         NEW h, History(h, sock, on)
  PROVE  \E g : History(g, sock', on) /\ g[0] = h[1]
  <2> USE <1>TailHistory
  <2> DEFINE L == Len(sock)
             g == [n \in 0 .. L - 1 |-> h[n + 1]]
  <2>1. /\ L \in Nat /\ L > 0 /\ Len(sock') = L - 1
        /\ DOMAIN sock = 1 .. L /\ DOMAIN sock' = 1 .. L - 1
        /\ \A i \in 1 .. L - 1 : sock'[i] = sock[i + 1]
    BY SMT, Z3, SMTT(20), Z3T(20)
  <2>2. /\ h \in [0 .. L -> SUBSET Paths]
        /\ \A n \in 0 .. L : \A q \in h[n] : Parent[q] # NoPath => Parent[q] \in h[n]
        /\ \A n \in 1 .. L :
             \/ sock[n].act = "add" /\ sock[n].path \notin h[n - 1] /\ h[n] = h[n - 1] \cup {sock[n].path}
             \/ sock[n].act = "remove" /\ h[n] = h[n - 1] \ {sock[n].path}
        /\ \A n \in 0 .. L : \A q \in Paths :
             (\A m \in n + 1 .. L : sock[m].path # q) => (q \in h[n] <=> q \in on)
    BY <2>1, Zenon DEF History
  <2> HIDE DEF L
  <2>3. /\ \A n \in 0 .. L - 1 : n + 1 \in 0 .. L /\ n + 1 \in 1 .. L /\ g[n] = h[n + 1]
        /\ g[0] = h[1]
    BY <2>1, SMT, Z3, SMTT(20), Z3T(20)
  <2>4. g \in [0 .. L - 1 -> SUBSET Paths]
    BY <2>2, <2>3, Zenon
  <2> HIDE DEF g
  <2>5. \A n \in 0 .. L - 1 : \A q \in g[n] : Parent[q] # NoPath => Parent[q] \in g[n]
    BY <2>2, <2>3, SMT, Z3, SMTT(20), Z3T(20)
  <2>6. ASSUME NEW n \in 1 .. L - 1
        PROVE  \/ /\ sock'[n].act = "add" /\ sock'[n].path \notin g[n - 1]
                  /\ g[n] = g[n - 1] \cup {sock'[n].path}
               \/ sock'[n].act = "remove" /\ g[n] = g[n - 1] \ {sock'[n].path}
    <3>1. n \in 0 .. L - 1 /\ n - 1 \in 0 .. L - 1 /\ (n - 1) + 1 = n /\ (n + 1) - 1 = n /\ n + 1 \in 1 .. L
      BY <2>1, SMT, Z3
    <3>2. g[n] = h[n + 1] /\ g[n - 1] = h[n] /\ sock'[n] = sock[n + 1]
      BY <2>1, <2>3, <3>1, Zenon
    <3>3. \/ /\ sock[n + 1].act = "add" /\ sock[n + 1].path \notin h[n]
             /\ h[n + 1] = h[n] \cup {sock[n + 1].path}
          \/ sock[n + 1].act = "remove" /\ h[n + 1] = h[n] \ {sock[n + 1].path}
      BY <2>2, <3>1, Zenon
    <3> QED  BY <3>2, <3>3, Zenon
  <2>7. ASSUME NEW n \in 0 .. L - 1, NEW q \in Paths, \A m \in n + 1 .. L - 1 : sock'[m].path # q
        PROVE  q \in g[n] <=> q \in on
    <3>1. ASSUME NEW m \in (n + 1) + 1 .. L
          PROVE  sock[m].path # q
      <4>1. m - 1 \in n + 1 .. L - 1 /\ m - 1 \in 1 .. L - 1 /\ (m - 1) + 1 = m
        BY <2>1, <3>1, SMT, Z3, SMTT(20), Z3T(20)
      <4> QED  BY <2>1, <2>7, <4>1, Zenon
    <3> QED  BY <2>2, <2>3, <3>1, Zenon
  <2>8. History(g, sock', on)
    BY <2>1, <2>4, <2>5, <2>6, <2>7, Zenon DEF History
  <2> QED  BY <2>3, <2>8, Zenon
\* It reads an event.
<1>ReadEventKeeps.
  ASSUME Inv, TypeInv', ReadEvent
  PROVE  Inv'
  <2> USE <1>ReadEventKeeps
  <2> DEFINE a == Head(sock).act
             p == Head(sock).path
  <2>1. PICK h : Track(h)
    BY DEF Inv
  <2>2. TypeInv /\ ScanInv /\ PresentInv /\ EventInv /\ DataTypeOK
    BY Zenon DEF Inv, TypeInv
  <2>3. /\ sock # <<>> /\ job["uevent"].pc = "idle" /\ sock' = Tail(sock)
        /\ job' = [job EXCEPT !["uevent"] = NewJob(a, p, "check")]
        /\ UNCHANGED <<kern, main, todo, enumeration, backlog, ids, obj, devmap, mutex, requests, announced>>
    BY Zenon DEF ReadEvent, NewJob, scanning, tracking
  <2>4. /\ main = "run" /\ Worker = "uevent" /\ ~enumeration /\ Worker' = "uevent"
        /\ \A n \in DOMAIN sock : sock[n].act # "scan"
    BY <2>1, <2>2, <2>3, UEventFacts, Zenon DEF Worker
  <2>5. TypeInv'
    OBVIOUS
  <2>6. /\ sock \in Seq(Events) /\ 1 \in DOMAIN sock /\ sock[1].act = a /\ sock[1].path = p
        /\ \A i \in DOMAIN sock' : i + 1 \in DOMAIN sock /\ sock'[i] = sock[i + 1]
        /\ \A i \in DOMAIN sock : i = 1 \/ (i - 1 \in DOMAIN sock' /\ sock'[i - 1] = sock[i])
        /\ DOMAIN sock = 1 .. Len(sock) /\ 0 \in 0 .. Len(sock) /\ 1 \in 0 .. Len(sock)
    <3>1. sock \in Seq(Events)
      BY <2>2, Zenon DEF DataTypeOK
    <3> QED  BY <2>3, <3>1, SMT, Z3, SMTT(20), Z3T(20)
  <2>7. p \in Paths
    <3>1. sock[1] \in Events
      BY <2>6, SMT, Z3, SMTT(20), Z3T(20)
    <3> QED  BY <2>6, <3>1, Zenon DEF Events
  <2> HIDE DEF a, p
  <2>8. /\ h[0] \in SUBSET Paths /\ h[1] \in SUBSET Paths
        /\ \/ a = "add" /\ p \notin h[0] /\ h[1] = h[0] \cup {p}
           \/ a = "remove" /\ h[1] = h[0] \ {p}
    <3>1. 1 - 1 = 0
      BY SMT, Z3
    <3> QED  BY <2>1, <2>6, <3>1, Zenon DEF Track, History
  <2>9. PICK g : History(g, sock', Present') /\ g[0] = h[1]
    <3>1. Present \in SUBSET Paths /\ Present' = Present
      BY <2>3, Zenon DEF Present
    <3>2. \E g : History(g, sock', Present) /\ g[0] = h[1]
      BY <2>1, <2>3, <2>6, <3>1, <1>TailHistory, ZenonT(30) DEF Track
    <3> QED  BY <3>1, <3>2, Zenon
  <2>10. EventInv'
    BY <2>2, <2>3, <2>6, SMT, Z3, SMTT(20), Z3T(20) DEF EventInv
  <2>11. \A q \in Paths : NoEvent(q)' /\ q # p => NoEvent(q)
    BY <2>6, SMT, Z3, SMTT(20), Z3T(20) DEF NoEvent
  <2>12. PICK j, k : j = job["uevent"] /\ k = NewJob(a, p, "check")
    BY Zenon
  <2>13. k.pc = "check" /\ k.act = a /\ k.path = p
    BY <2>12, Zenon DEF NewJob, NoJob
  <2>14. job'["uevent"] = k /\ job'["main"] = job["main"] /\ job'["ipc"] = job["ipc"]
    BY <2>2, <2>3, <2>12, Zenon DEF TypeInv, Threads
  <2>15. /\ MapInv(j, h[0]) /\ CurrentInv(j, h[0]) /\ DecidedInv(j, h[0]) /\ j.pc = "idle"
    BY <2>1, <2>3, <2>4, <2>12, Zenon DEF Track
  <2> DEFINE old == h[0]
             now == h[1]
  <2>16. a = "add" => ids[p] = Unknown
    <3>1. ids[p] \in Nat \cup {Unknown}
      BY <2>2, <2>7, Zenon DEF DataTypeOK
    <3> QED  BY <2>7, <2>8, <2>15, <3>1, SMT, Z3, SMTT(20), Z3T(20) DEF MapInv, Early, NoID, Unknown
  <2>17. a = "add" => kern[p].boot = FALSE
    <3>1. kern[p].boot \in BOOLEAN
      BY <2>2, <2>7, Zenon DEF DataTypeOK, KernelDevices
    <3> QED  BY <2>2, <2>6, <3>1, Zenon DEF EventInv
  <2> HIDE DEF old, now
  <2>18. /\ old \in SUBSET Paths /\ now \in SUBSET Paths
         /\ a = "add" \/ a = "remove"
         /\ a = "add" => p \notin old /\ p \in now
         /\ a = "remove" => p \notin now
         /\ \A q \in Paths : q # p => (q \in now <=> q \in old)
         /\ MapInv(j, old) /\ CurrentInv(j, old) /\ DecidedInv(j, old)
    BY <2>8, <2>15, Zenon DEF old, now
  <2>19. JobInv(k, now)'
    BY <2>3, <2>4, <2>13, <2>16, <2>17, <2>18, Zenon DEF JobInv, Early
  <2>20. MapInv(k, now)'
    BY <2>3, <2>13, <2>15, <2>16, <2>18, IdOrder, Zenon DEF MapInv, Early
  <2>21. CurrentInv(k, now)'
    <3>1. \A q \in Paths : Remaining(q)' = Remaining(q)
      BY <2>3, Zenon DEF Remaining
    <3>2. ASSUME NEW q \in now, NoEvent(q)', q # p
          PROVE  /\ ids[q] > NoID \/ Remaining(q)
                 /\ ids[q] > NoID => obj[ids[q]].gen = kern[q].gen /\ obj[ids[q]].rule = kern[q].rule
      BY <2>11, <2>15, <2>18, <3>2, Zenon DEF CurrentInv, Early
    <3>3. p \in now => ~(ids[p] > NoID) /\ k.path = p /\ k.pc \in Early
      BY <2>13, <2>16, <2>18, IdOrder, Zenon DEF Early
    <3> QED  BY <2>3, <2>18, <3>1, <3>2, <3>3, Zenon DEF CurrentInv
  <2>22. DecidedInv(k, now)'
    <3>1. \A q \in Paths : Asks(q, kern[q].auth)' = Asks(q, kern[q].auth)
      BY <2>3, Zenon DEF Asks, Method
    <3>2. ASSUME requests = 0, NEW q \in now, NoEvent(q)', ids[q] > NoID
          PROVE  Asks(q, kern[q].auth)
      BY <2>11, <2>15, <2>16, <2>18, <3>2, IdOrder, Zenon DEF DecidedInv, Deciding
    <3> QED  BY <2>3, <2>13, <2>18, <3>1, <3>2, Zenon DEF DecidedInv
  <2>23. Track(g)'
    BY <2>4, <2>9, <2>14, <2>19, <2>20, <2>21, <2>22, Zenon DEF Track, now
  <2>24. ScanInv' /\ PresentInv'
    BY <2>2, <2>3, <2>4, <2>14, Zenon DEF ScanInv, PresentInv
  <2> QED  BY <2>5, <2>10, <2>23, <2>24, Zenon DEF Inv
\* It handles the event at once, because main has scanned.
<1>CheckEnumerationKeeps.
  ASSUME Inv, TypeInv', CheckEnumeration
  PROVE  Inv'
  <2> USE <1>CheckEnumerationKeeps
  <2>1. PICK h : Track(h)
    BY DEF Inv
  <2>2. TypeInv /\ ScanInv /\ PresentInv /\ EventInv /\ DataTypeOK
    BY DEF Inv, TypeInv
  <2>3. /\ job["uevent"].pc = "check"
        /\ UNCHANGED <<kern, sock, main, todo, enumeration, backlog, ids, obj, devmap, mutex, requests, announced>>
    BY Zenon DEF CheckEnumeration, kernel, scanning, tracking
  <2>4. /\ main = "run" /\ Worker = "uevent" /\ ~enumeration /\ Worker' = "uevent" /\ "uevent" \in Threads
        /\ job["uevent"].pc # "append"
        /\ \A n \in DOMAIN sock : sock[n].act # "scan"
    BY <2>1, <2>2, <2>3, UEventFacts, Zenon DEF Worker
  <2>5. TypeInv'
    OBVIOUS
  <2>6. PICK j, k : j = job["uevent"] /\ k = [j EXCEPT !.pc = "look"]
    BY Zenon
  <2>7. j \in Jobs /\ j.path \in Paths /\ j.pc = "check"
    BY <2>2, <2>3, <2>4, <2>6, Zenon DEF TypeInv, JobTypeOK
  <2>8. k.pc = "look" /\ k.act = j.act /\ k.path = j.path
    BY <2>6, <2>7, Zenon DEF Jobs
  <2>9. job'["uevent"] = k /\ job'["main"] = job["main"] /\ job'["ipc"] = job["ipc"]
    BY <2>2, <2>4, <2>6, Zenon DEF CheckEnumeration, TypeInv, Threads
  <2> DEFINE now == h[0]
  <2>10. /\ JobInv(j, now) /\ MapInv(j, now) /\ CurrentInv(j, now) /\ DecidedInv(j, now)
         /\ History(h, sock, Present)
    BY <2>1, <2>4, <2>6, Zenon DEF Track
  <2> HIDE DEF now
  <2>11. JobInv(k, now)'
    BY <2>3, <2>7, <2>8, <2>10, Zenon DEF JobInv, Early
  <2>12. MapInv(k, now)'
    BY <2>3, <2>7, <2>8, <2>10, Zenon DEF MapInv, Early
  <2>13. CurrentInv(k, now)'
    BY <2>3, <2>7, <2>8, <2>10, Zenon DEF CurrentInv, Early, Remaining, NoEvent
  <2>14. DecidedInv(k, now)'
    BY <2>3, <2>7, <2>8, <2>10, Zenon DEF DecidedInv, Deciding, NoEvent, Asks, Method
  <2>15. Present' = Present
    BY <2>3, Zenon DEF Present
  <2>16. Track(h)'
    BY <2>3, <2>4, <2>9, <2>10, <2>11, <2>12, <2>13, <2>14, <2>15, Zenon DEF Track, now
  <2>17. ScanInv' /\ PresentInv' /\ EventInv'
    BY <2>2, <2>3, <2>4, <2>9, Zenon DEF ScanInv, PresentInv, EventInv
  <2> QED  BY <2>5, <2>16, <2>17, Zenon DEF Inv
<1>1. ~AppendBacklog
  <2>1. PICK h : Track(h)
    BY Zenon DEF Inv
  <2> QED  BY <2>1, UEventFacts, Zenon DEF AppendBacklog, Inv
<1> QED  BY <1>1, <1>ReadEventKeeps, <1>CheckEnumerationKeeps, Zenon DEF UEvent

-----------------------------------------------------------------------------
(* The thread that handles devices *)

\* What the invariant says to a step of that thread.
LEMMA WorkerFacts ==
  ASSUME TypeInv, ScanInv, NEW h, Track(h), NEW j, j = job[Worker]
  PROVE  /\ Worker \in Threads /\ j \in Jobs
         /\ JobTypeOK(j, DOMAIN obj) /\ (j.pc # "idle" => j.path \in Paths)
         /\ h[0] \in SUBSET Paths
         /\ \A p \in h[0] : Parent[p] # NoPath => Parent[p] \in h[0]
         /\ \A p \in h[0] : NoEvent(p) => kern[p].on
         /\ main # "run" => \A p \in Paths : NoEvent(p)
         /\ JobInv(j, h[0]) /\ MapInv(j, h[0]) /\ CurrentInv(j, h[0]) /\ DecidedInv(j, h[0])
         /\ \A id \in DOMAIN obj : id > NoID /\ obj[id].path \in Paths
         /\ \A p \in Paths : /\ ids[p] \in Nat \cup {Unknown}
                             /\ ids[p] > NoID => ids[p] \in DOMAIN obj
                             /\ Parent[p] # NoPath =>
                                  Parent[p] \in Paths /\ Parent[p] # p /\ Parent[Parent[p]] = NoPath
         /\ devmap \subseteq DOMAIN obj /\ announced \subseteq DOMAIN obj
<1>1. Worker \in Threads
  BY Zenon DEF Worker, Threads
<1>2. JobTypeOK(j, DOMAIN obj) /\ j \in Jobs /\ (j.pc # "idle" => j.path \in Paths)
  BY <1>1, Zenon DEF TypeInv, JobTypeOK
<1>3. sock \in Seq(Events) /\ obj \in Seq(Objects) /\ ids \in [Paths -> Nat \cup {Unknown}]
  BY Zenon DEF TypeInv, DataTypeOK
<1>4. /\ h \in [0 .. Len(sock) -> SUBSET Paths] /\ 0 \in 0 .. Len(sock)
      /\ DOMAIN sock = 1 .. Len(sock) /\ 0 + 1 = 1
  <2>1. Len(sock) \in Nat /\ DOMAIN sock = 1 .. Len(sock)
    BY <1>3, SMT, Z3, SMTT(20), Z3T(20)
  <2>2. 0 \in 0 .. Len(sock) /\ 0 + 1 = 1
    BY <2>1, SMT, Z3
  <2> QED  BY <2>1, <2>2, Zenon DEF Track, History
<1>5. /\ h[0] \in SUBSET Paths
      /\ \A p \in h[0] : Parent[p] # NoPath => Parent[p] \in h[0]
  BY <1>4, Zenon DEF Track, History
<1>6. \A p \in h[0] : NoEvent(p) => kern[p].on
  <2>1. \A p \in Paths : NoEvent(p) => (p \in h[0] <=> p \in Present)
    BY <1>4, Zenon DEF Track, History, NoEvent
  <2> QED  BY <1>5, <2>1, Zenon DEF Present
<1>7. main # "run" => \A p \in Paths : NoEvent(p)
  BY SMT, Z3, SMTT(20), Z3T(20) DEF ScanInv, NoEvent
<1>8. \A id \in DOMAIN obj : id > NoID /\ obj[id].path \in Paths
  BY <1>3, ObjectTypes, SMT, Z3, SMTT(20), Z3T(20) DEF NoID
<1>9. ASSUME NEW p \in Paths, Parent[p] # NoPath
      PROVE  Parent[p] \in Paths /\ Parent[p] # p /\ Parent[Parent[p]] = NoPath
  BY <1>9, ConstantsAssumption, Zenon
<1>10. JobInv(j, h[0]) /\ MapInv(j, h[0]) /\ CurrentInv(j, h[0]) /\ DecidedInv(j, h[0])
  BY Zenon DEF Track
<1>11. /\ \A p \in Paths : ids[p] > NoID => ids[p] \in DOMAIN obj
       /\ devmap \subseteq DOMAIN obj /\ announced \subseteq DOMAIN obj
  BY Zenon DEF TypeInv, DataTypeOK
<1> QED  BY <1>1, <1>2, <1>3, <1>5, <1>6, <1>7, <1>8, <1>9, <1>10, <1>11, Zenon

\* A device in the map has a rule, because its parent is in the map.
LEMMA RuleKnown ==
  ASSUME TypeInv, NEW j, NEW now, MapInv(j, now), j.pc # "forget", NEW id \in devmap
  PROVE  HasDeviceRule(id)
<1>1. obj[id].path \in Paths /\ \A q \in Paths : Parent[q] # NoPath => Parent[q] \in Paths
  <2>1. id \in DOMAIN obj
    BY Zenon DEF TypeInv, DataTypeOK
  <2> QED  BY <2>1, ObjectTypes, ConstantsAssumption, Zenon
<1> QED  BY <1>1, Zenon DEF MapInv, HasDeviceRule

\* A thread that raises an exception on an inserted device leaves it gone: it
\* was gone before, or it is rejected.
LEMMA RaisesRejects ==
  ASSUME Inv, Undisturbed, Next, NEW t \in Threads, Raises(t)
  PROVE  ~(kern'[job[t].path].on /\ kern'[job[t].path].gen = job[t].gen)
<1>1. /\ job[t].pc \in {"build", "insert", "learn", "event", "get", "write"} /\ job[t].gen # 0
      /\ job'[t].pc = "idle" /\ job[t].pc # "idle"
  BY Zenon DEF Raises
<1>2. TypeInv /\ ScanInv
  BY Zenon DEF Inv
<1>3. t = Worker
  <2>1. t # "ipc"
    BY <1>1, <1>2, Zenon DEF ScanInv
  <2> QED  BY <1>1, <1>2, <2>1, Zenon DEF ScanInv, Worker, Threads
<1>4. PICK h : Track(h)
  BY Zenon DEF Inv
<1>5. PICK j, p : j = job[t] /\ p = job[t].path
  BY Zenon
<1>6. /\ j \in Jobs /\ j.path \in Paths /\ JobInv(j, h[0]) /\ MapInv(j, h[0])
      /\ devmap \subseteq DOMAIN obj
  BY <1>1, <1>2, <1>3, <1>4, <1>5, WorkerFacts, Zenon
<1>7. Step(t)
  <2>1. job'[t] # job[t]
    BY <1>1, Zenon
  <2>2. ~Kernel
    BY <2>1, Zenon DEF Kernel, Plug, Unplug
  <2>3. ~Scan
    <3>1. job["main"].pc = "idle" => t # "main"
      BY <1>1, Zenon
    <3>2. \A k : t # "main" => [job EXCEPT !["main"] = k][t] = job[t]
      BY <1>2, Zenon DEF TypeInv
    <3>3. main = "backlogged" => todo = <<>>
      BY <1>2, Zenon DEF ScanInv
    <3> QED  BY <2>1, <3>1, <3>2, <3>3, Zenon DEF Scan, ScanBegin, ScanTrigger, ScanEnd, BacklogBegin, BacklogNext
  <2>4. ~UEvent
    <3>1. job["uevent"].pc \in {"idle", "check", "append"} => t # "uevent"
      BY <1>1, Zenon
    <3>2. \A k : t # "uevent" => [job EXCEPT !["uevent"] = k][t] = job[t]
      BY <1>2, Zenon DEF TypeInv
    <3>3. CheckEnumeration => \E k : job' = [job EXCEPT !["uevent"] = k]
      BY <1>2, Zenon DEF CheckEnumeration, TypeInv
    <3> QED  BY <2>1, <3>1, <3>2, <3>3, Zenon DEF UEvent, ReadEvent, CheckEnumeration, AppendBacklog
  <2>5. ASSUME NEW u \in Threads, Step(u), u # t
        PROVE  FALSE
    <3>1. job' = [v \in Threads |-> job'[v]] /\ job'[t] = job[t]
      BY <1>2, <2>5, Zenon DEF TypeInv, Step, LookPresence, LookInsertion, LookRemoval, Build, Insert, Learn,
             DeviceEvent, Forget, GetDevice, Write, SetTarget, Signal, Goto, Finish
    <3> QED  BY <2>1, <3>1, Zenon
  <2>6. ASSUME NEW id \in devmap, NEW target \in RequestTargets, Request(id, target)
        PROVE  FALSE
    <3>1. t # "ipc"
      BY <1>3, Zenon DEF Worker
    <3> QED  BY <1>2, <2>1, <2>6, <3>1, Zenon DEF Request, TypeInv
  <2> QED  BY <2>2, <2>3, <2>4, <2>5, <2>6, Zenon DEF Next
<1>8. \A pc \in {"insert", "learn", "event", "get", "write", "set"} : ~Goto(t, pc)
  <2> SUFFICES ASSUME NEW pc \in {"insert", "learn", "event", "get", "write", "set"}, Goto(t, pc)
               PROVE  FALSE
    BY Zenon
  <2>1. job'[t] = [j EXCEPT !.pc = pc]
    BY <1>2, <1>5, Zenon DEF Goto, TypeInv
  <2>2. [j EXCEPT !.pc = pc].pc = pc
    BY <1>6, Zenon DEF Jobs
  <2> QED  BY <1>1, <2>1, <2>2, Zenon
<1>9. CASE Build(t)
  <2>1. CASE On(p, job[t].gen) /\ KernelApply(p, "reject")
    <3>1. /\ CountsPaths /\ sock \in Seq(Events) /\ kern \in [Paths -> KernelDevices]
          /\ "reject" \in Targets /\ p \in Paths
      BY <1>2, <1>5, <1>6, Zenon DEF TypeInv, DataTypeOK, Targets
    <3>2. Applied(p, "reject")
      BY <2>1, <3>1, ApplyEffect, Zenon
    <3> QED  BY <1>5, <3>2, Zenon DEF Applied
  <2>2. CASE ~On(p, job[t].gen) /\ UNCHANGED kernel
    BY <1>5, <2>2, Zenon DEF On, kernel
  <2>3. CASE job' = [job EXCEPT ![t].pc = "insert", ![t].target = kern[p].auth,
                       ![t].rule = kern[p].rule,
                       ![t].parent = IF Parent[p] = NoPath THEN NoID ELSE ids[Parent[p]]]
    <3>1. job'[t].pc = "insert"
      BY <1>2, <1>5, <1>6, <2>3, Zenon DEF TypeInv, Jobs
    <3> QED  BY <1>1, <3>1, Zenon
  <2> QED  BY <1>5, <1>9, <2>1, <2>2, <2>3, Zenon DEF Build
<1>10. CASE Write(t)
  <2>1. obj[j.id].path = p /\ obj[j.id].gen = j.gen
    BY <1>5, <1>6, <1>10, Zenon DEF JobInv, Write
  <2>2. ~On(p, job[t].gen) /\ UNCHANGED kernel
    BY <1>5, <1>8, <1>10, <2>1, Zenon DEF Write, Undisturbed
  <2> QED  BY <1>5, <2>2, Zenon DEF On, kernel
<1>11. CASE GetDevice(t)
  <2>1. j.id \in devmap
    BY <1>5, <1>6, <1>11, Zenon DEF JobInv, GetDevice
  <2> QED  BY <1>5, <1>8, <1>11, <2>1, ZenonT(30) DEF GetDevice
<1>12. CASE DeviceEvent(t)
  <2>1. j.id \in devmap /\ j.pc # "forget"
    BY <1>5, <1>6, <1>12, Zenon DEF JobInv, DeviceEvent
  <2>2. HasDeviceRule(j.id)
    BY <1>2, <1>6, <2>1, RuleKnown, Zenon
  <2>3. job' = [job EXCEPT ![t].pc = "get", ![t].target = PolicyRule(j.id, job[t].known)]
    BY <1>5, <1>12, <2>2, Zenon DEF DeviceEvent, Undisturbed
  <2>4. job'[t].pc = "get"
    BY <1>2, <1>5, <1>6, <2>3, Zenon DEF TypeInv, Jobs
  <2> QED  BY <1>1, <2>4, Zenon
<1>13. CASE Insert(t)
  <2>1. job'[t].pc = "learn"
    BY <1>2, <1>5, <1>6, <1>13, Zenon DEF TypeInv, Jobs, Insert
  <2> QED  BY <1>1, <2>1, Zenon
<1>14. CASE Learn(t)
  BY <1>8, <1>14, Zenon DEF Learn
<1> QED  BY <1>1, <1>7, <1>9, <1>10, <1>11, <1>12, <1>13, <1>14, Zenon
         DEF Step, LookPresence, LookInsertion, LookRemoval, Forget, SetTarget, Signal

\* At rest the invariant says what the properties say.
LEMMA QuietFacts ==
  ASSUME Inv, Quiet
  PROVE  DevicesTracked /\ PresenceAnnounced /\ DevicesDecided
<1>1. PICK h : Track(h)
  BY Zenon DEF Inv
<1>2. TypeInv /\ ScanInv /\ main = "run" /\ sock = <<>> /\ Worker = "uevent"
  BY Zenon DEF Inv, Quiet, Worker
<1>3. PICK j, now : j = job[Worker] /\ now = h[0]
  BY Zenon
<1>4. /\ MapInv(j, now) /\ CurrentInv(j, now) /\ DecidedInv(j, now) /\ j.pc = "idle"
      /\ \A id \in DOMAIN obj : id > NoID /\ obj[id].path \in Paths
      /\ devmap \subseteq DOMAIN obj /\ announced \subseteq DOMAIN obj
      /\ now \in SUBSET Paths
  <2>1. j.pc = "idle"
    BY <1>2, <1>3, Zenon DEF Quiet, Threads
  <2> QED  BY <1>1, <1>2, <1>3, <2>1, WorkerFacts, Zenon
<1>5. /\ now = Present /\ \A p \in Paths : NoEvent(p) /\ ~Remaining(p)
  <2>1. Present \in SUBSET Paths
    BY Zenon DEF Present
  <2> QED  BY <1>1, <1>2, <1>3, <2>1, EmptyHistory, SMT, Z3, SMTT(20), Z3T(20) DEF Track, NoEvent, Remaining
<1>6. ASSUME NEW p \in Paths, kern[p].on
      PROVE  /\ ids[p] > NoID /\ ids[p] \in devmap /\ obj[ids[p]].path = p
             /\ obj[ids[p]].gen = kern[p].gen
  <2>1. p \in now
    BY <1>5, <1>6, Zenon DEF Present
  <2>2. ids[p] > NoID /\ obj[ids[p]].gen = kern[p].gen
    BY <1>4, <1>5, <2>1, Zenon DEF CurrentInv, Early
  <2> QED  BY <1>4, <2>2, Zenon DEF MapInv
<1>7. ASSUME NEW id \in devmap
      PROVE  Tracks(id, obj[id].path)
  <2>1. id > NoID /\ obj[id].path \in Paths /\ ids[obj[id].path] = id
    BY <1>4, Zenon DEF MapInv
  <2>2. kern[obj[id].path].on
    BY <1>4, <1>5, <2>1, SMT, Z3, SMTT(20), Z3T(20) DEF MapInv, Present
  <2> QED  BY <1>6, <2>1, <2>2, SMT, Z3, SMTT(20), Z3T(20) DEF Tracks, On
<1>8. DevicesTracked
  <2>1. ASSUME NEW p \in Paths, kern[p].on
        PROVE  \E id \in devmap : Tracks(id, p)
    BY <1>6, <2>1, Zenon DEF Tracks, On
  <2> QED  BY <1>7, <2>1, Zenon DEF DevicesTracked
<1>9. PresenceAnnounced
  <2>1. \A id \in DOMAIN obj : id \in announced <=> id \in devmap
    BY <1>4, Zenon DEF MapInv
  <2> QED  BY <1>4, <2>1, Zenon DEF PresenceAnnounced
<1>10. DevicesDecided
  <2> SUFFICES ASSUME requests = 0, NEW p \in Paths, kern[p].on
               PROVE  Asks(p, kern[p].auth)
    BY Zenon DEF DevicesDecided, Asks, Method
  <2>1. p \in now /\ ids[p] > NoID
    BY <1>5, <1>6, Zenon DEF Present
  <2> QED  BY <1>4, <1>5, <2>1, Zenon DEF DecidedInv, Deciding
<1> QED  BY <1>8, <1>9, <1>10, Zenon

\* The invariant holds when the daemon starts.
LEMMA InitHolds ==
  ASSUME Init, Undisturbed, CountsPaths
  PROVE  Inv
<1>1. PICK on \in Boot, rule \in [Paths -> Rules] :
        kern = [p \in Paths |-> [on |-> p \in on, gen |-> IF p \in on THEN 1 ELSE 0,
                                 auth |-> "allow", boot |-> TRUE,
                                 rule |-> IF p \in on THEN rule[p] ELSE "none"]]
  BY Zenon DEF Init
<1>2. /\ sock = <<>> /\ main = "start" /\ todo = <<>> /\ found = FALSE
      /\ enumeration = FALSE /\ backlog = <<>> /\ ids = [p \in Paths |-> Unknown]
      /\ obj = <<>> /\ devmap = {} /\ mutex = {} /\ job = [t \in Threads |-> NoJob]
      /\ requests = 0 /\ announced = {}
  BY Zenon DEF Init
<1>3. /\ on \in SUBSET Paths
      /\ \A p \in on : Parent[p] # NoPath => Parent[p] \in on
  BY ConstantsAssumption, Zenon
<1>4. \A p \in Paths :
        /\ kern[p] \in KernelDevices /\ (kern[p].on <=> p \in on) /\ kern[p].boot
        /\ kern[p].auth = "allow" /\ (kern[p].on => kern[p].rule \in Rules)
  <2>1. TAKE p \in Paths
  <2>2. rule[p] \in Rules /\ rule[p] \in Targets
    BY ConstantTypes, Zenon
  <2>3. PICK r, g, b : /\ r = (IF p \in on THEN rule[p] ELSE "none")
                       /\ g = (IF p \in on THEN 1 ELSE 0) /\ b = (p \in on)
    BY Zenon
  <2>4. r \in Targets \cup {"none"} /\ g \in Nat /\ (p \in on => r \in Rules)
    BY <2>2, <2>3, Zenon
  <2>5. kern[p] = [on |-> b, gen |-> g, auth |-> "allow", boot |-> TRUE, rule |-> r]
    BY <1>1, <2>3, Zenon
  <2>6. b \in BOOLEAN /\ (b <=> p \in on)
    <3>1. b = (p \in on)
      BY <2>3, Zenon
    <3>2. CASE p \in on
      <4>1. b = TRUE
        BY <3>1, <3>2, Zenon
      <4> QED  BY <3>2, <4>1, Zenon
    <3>3. CASE p \notin on
      <4>1. b = FALSE
        <5>1. (p \in on) = FALSE
          BY <3>3, SMT, Z3, SMTT(20), Z3T(20)
        <5> QED  BY <3>1, <5>1, Zenon
      <4> QED  BY <3>3, <4>1, Zenon
    <3> QED  BY <3>2, <3>3, Zenon
  <2>7. kern[p] \in KernelDevices
    BY <2>4, <2>5, <2>6, SMT, Z3, SMTT(20), Z3T(20) DEF KernelDevices
  <2>8. kern[p].on = b /\ kern[p].boot = TRUE /\ kern[p].auth = "allow" /\ kern[p].rule = r
    BY <2>5, SMT, Z3
  <2>9. kern[p].on <=> p \in on
    BY <2>6, <2>8, Zenon
  <2> QED  BY <2>4, <2>7, <2>8, <2>9, Zenon
<1>5. kern \in [Paths -> KernelDevices]
  BY <1>1, <1>4, Zenon
<1>6. DataTypeOK
  <2>1. sock \in Seq(Events) /\ todo \in Seq(Events) /\ backlog \in Seq(Events) /\ obj \in Seq(Objects)
    BY <1>2, SMT, Z3, SMTT(20), Z3T(20)
  <2>2. ids \in [Paths -> Nat \cup {Unknown}] /\ \A p \in Paths : ~(ids[p] > NoID)
    BY <1>2, SMT, Z3, SMTT(20), Z3T(20) DEF Unknown, NoID
  <2>3. requests \in 0 .. MaxRequests
    BY <1>2, ConstantTypes, SMT, Z3, SMTT(20), Z3T(20)
  <2>4. \A p \in Paths : kern[p].on => kern[p].rule \in Rules
    BY <1>4, Zenon
  <2> QED  BY <1>2, <1>5, <2>1, <2>2, <2>3, <2>4, Zenon DEF DataTypeOK
<1>7. job = [t \in Threads |-> job[t]] /\ \A t \in Threads : job[t] = NoJob
  BY <1>2, Zenon
<1>8. TypeInv
  BY <1>6, <1>7, NoJobTypes, Zenon DEF TypeInv
<1>9. NoJob.pc = "idle" /\ NoJob.gen = 0
  BY Zenon DEF NoJob
<1>10. ScanInv /\ PresentInv /\ EventInv
  <2>1. \A t \in {"main", "uevent", "ipc"} : job[t] = NoJob
    BY <1>7, Zenon DEF Threads
  <2>2. \A p \in Paths : ids[p] = Unknown
    BY <1>2, Zenon
  <2>3. ScanInv
    BY <1>2, <1>9, <2>1, <2>2, Zenon DEF ScanInv
  <2>4. PresentInv
    BY <1>2, <1>4, <1>9, <2>1, SMT, Z3, SMTT(20), Z3T(20) DEF PresentInv, Mild, ObjTargets
  <2>5. EventInv
    BY <1>2, SMT, Z3 DEF EventInv
  <2> QED  BY <2>3, <2>4, <2>5, Zenon
<1>11. Present = on
  BY <1>3, <1>4, Zenon DEF Present
<1> DEFINE h == [n \in 0 .. 0 |-> on]
<1>12. History(h, sock, Present) /\ h[0] = on
  BY <1>2, <1>3, <1>11, SMT, Z3, SMTT(20), Z3T(20) DEF History
<1> HIDE DEF h
<1>13. job[Worker] = NoJob
  BY <1>7, Zenon DEF Worker, Threads
<1>14. JobInv(NoJob, on) /\ MapInv(NoJob, on) /\ CurrentInv(NoJob, on) /\ DecidedInv(NoJob, on)
  <2>1. \A p \in Paths : ids[p] = Unknown /\ Remaining(p)
    BY <1>2, Zenon DEF Remaining
  <2> QED  BY <1>2, <1>3, <1>9, <2>1, IdOrder, Zenon DEF JobInv, MapInv, CurrentInv, DecidedInv
<1>15. Track(h)
  BY <1>12, <1>13, <1>14, Zenon DEF Track
<1> QED  BY <1>8, <1>10, <1>15, Zenon DEF Inv

\* What is left to show of such a step.
LEMMA WorkerStep ==
  ASSUME Inv, TypeInv', NEW t, t = Worker, job[t].pc # "idle",
         NEW k, job' = [job EXCEPT ![t] = k], k.pc = "idle" \/ k.path = job[t].path,
         UNCHANGED <<scanning, requests>>,
         main # "run" => sock' = <<>>, PresentInv', EventInv',
         \A p \in Paths : ids[p] = Unknown /\ p # job[t].path => ids'[p] = Unknown,
         NEW g, NEW now, now = g[0], History(g, sock', Present'),
         JobInv(k, now)', MapInv(k, now)', CurrentInv(k, now)', DecidedInv(k, now)'
  PROVE  Inv'
<1>1. TypeInv /\ ScanInv /\ DataTypeOK /\ t \in Threads /\ JobTypeOK(job[t], DOMAIN obj)
  <2>1. t \in Threads
    BY Zenon DEF Worker, Threads
  <2> QED  BY <2>1, Zenon DEF Inv, TypeInv
<1>2. UNCHANGED <<main, todo, enumeration, backlog, requests>> /\ Worker' = t
  BY Zenon DEF scanning, Worker
<1>3. job'[t] = k /\ \A u \in Threads \ {t} : job'[u] = job[u]
  BY <1>1, Zenon DEF TypeInv
<1>4. Track(g)'
  BY <1>2, <1>3, Zenon DEF Track
<1>5. job[t].path \in Paths
  BY <1>1, Zenon DEF JobTypeOK
<1>6. CASE main = "run"
  <2>1. t = "uevent" /\ job'["ipc"] = job["ipc"] /\ job'["main"] = job["main"]
    BY <1>3, <1>6, Zenon DEF Worker, Threads
  <2>2. ScanInv'
    BY <1>1, <1>2, <1>6, <2>1, Zenon DEF ScanInv
  <2> QED  BY <1>4, <2>2, Zenon DEF Inv
<1>7. CASE main # "run"
  <2>1. /\ t = "main" /\ job'["ipc"] = job["ipc"] /\ job'["uevent"] = job["uevent"]
        /\ job'["main"] = k
    BY <1>3, <1>7, Zenon DEF Worker, Threads
  <2>2. main = "scan"
    BY <1>1, <2>1, Zenon DEF ScanInv
  <2>3. ASSUME NEW i \in DOMAIN todo
        PROVE  /\ ids'[todo[i].path] = Unknown
               /\ k.pc # "idle" => Rank[k.path] < Rank[todo[i].path]
    <3>1. ids[todo[i].path] = Unknown /\ Rank[job[t].path] < Rank[todo[i].path]
      BY <1>1, <2>1, <2>2, Zenon DEF ScanInv
    <3>2. todo[i].path \in Paths
      <4>1. todo \in Seq(Events)
        BY <1>1, Zenon DEF DataTypeOK
      <4>2. todo[i] \in Events
        BY <4>1, SMT, Z3
      <4> QED  BY <4>2, Zenon DEF Events
    <3>3. Rank \in [Paths -> Nat]
      BY ConstantsAssumption, Zenon
    <3>4. todo[i].path # job[t].path
      BY <1>5, <3>1, <3>2, <3>3, SMT, Z3, SMTT(20), Z3T(20)
    <3> QED  BY <3>1, <3>2, <3>4, Zenon
  <2>4. ScanInv'
    BY <1>1, <1>2, <1>7, <2>1, <2>2, <2>3, Zenon DEF ScanInv
  <2> QED  BY <1>4, <2>4, Zenon DEF Inv
<1> QED  BY <1>6, <1>7, Zenon

\* A step that changes nothing but its job.
LEMMA JobOnlyKeeps ==
  ASSUME Inv, TypeInv', NEW t, t = Worker, job[t].pc # "idle",
         NEW k, job' = [job EXCEPT ![t] = k], k.pc = "idle" \/ k.path = job[t].path,
         UNCHANGED <<kernel, scanning, tracking, requests, announced>>,
         main # "run" /\ k.pc \in ObjTargets => Mild(k.path, k.target),
         NEW h, Track(h),
         JobInv(k, h[0]), MapInv(k, h[0]), CurrentInv(k, h[0]), DecidedInv(k, h[0])
  PROVE  Inv'
<1>1. TypeInv /\ ScanInv /\ PresentInv /\ EventInv
  BY Zenon DEF Inv
<1>2. UNCHANGED <<kern, sock, main, todo, ids, obj, devmap, announced, requests>>
  BY Zenon DEF kernel, scanning, tracking
<1>3. PICK j : j = job[t]
  BY Zenon
<1>4. t \in Threads /\ j.path \in Paths /\ h[0] \in SUBSET Paths
  BY <1>1, <1>3, WorkerFacts, Zenon
<1>5. PICK now : now = h[0]
  BY Zenon
<1>6. \A q \in Paths : NoEvent(q)' = NoEvent(q)
  BY <1>2, Zenon DEF NoEvent
<1>7. JobInv(k, now)' /\ MapInv(k, now)' /\ CurrentInv(k, now)'
  BY <1>2, <1>3, <1>4, <1>5, <1>6, KernelFrame, Zenon
<1>8. DecidedInv(k, now)'
  BY <1>2, <1>4, <1>5, <1>6, DecidedFrame, Zenon
<1>9. EventInv' /\ Present' = Present
  BY <1>1, <1>2, Zenon DEF EventInv, Present
<1>10. PresentInv'
  <2>1. job'[t] = k
    BY <1>1, <1>4, Zenon DEF TypeInv
  <2>2. main # "run" => t = "main"
    BY Zenon DEF Worker
  <2> QED  BY <1>1, <1>2, <2>1, <2>2, Zenon DEF PresentInv
<1>11. History(h, sock', Present') /\ (main # "run" => sock' = <<>>)
  BY <1>1, <1>2, <1>9, Zenon DEF Track, ScanInv
<1> QED  BY <1>2, <1>5, <1>7, <1>8, <1>9, <1>10, <1>11, WorkerStep, Zenon

\* Such a step ends in the idle job.
LEMMA FinishKeeps ==
  ASSUME Inv, TypeInv', NEW t, t = Worker, job[t].pc # "idle", Finish(t),
         UNCHANGED <<kernel, scanning, tracking, requests, announced>>,
         NEW h, Track(h),
         job[t].pc \notin {"learn", "event", "forget"},
         \A p \in Paths : ids[p] # NoID,
         job[t].act = "remove" => ~(ids[job[t].path] > NoID),
         job[t].path \in h[0] /\ NoEvent(job[t].path) => job[t].pc \notin Early \cup Deciding
  PROVE  Inv'
\* The thread has done its work on a device, or the device is about to go.
<1>FinishInv.
  ASSUME NEW j, NEW now \in SUBSET Paths, MapInv(j, now), CurrentInv(j, now), DecidedInv(j, now),
         j.pc \notin {"learn", "event", "forget"},
         \A p \in Paths : ids[p] # NoID,
         j.pc # "idle" /\ j.act = "remove" => ~(ids[j.path] > NoID),
         j.path \in now /\ NoEvent(j.path) => j.pc \notin Early \cup Deciding
  PROVE  JobInv(NoJob, now) /\ MapInv(NoJob, now) /\ CurrentInv(NoJob, now) /\ DecidedInv(NoJob, now)
  <2> USE <1>FinishInv
  <2>1. NoJob.pc = "idle"
    BY Zenon DEF NoJob
  <2>2. JobInv(NoJob, now)
    BY <2>1, Zenon DEF JobInv
  <2>3. MapInv(NoJob, now)
    BY <2>1, Zenon DEF MapInv
  <2>4. CurrentInv(NoJob, now)
    BY <2>1, Zenon DEF CurrentInv
  <2>5. DecidedInv(NoJob, now)
    BY <2>1, Zenon DEF DecidedInv
  <2> QED  BY <2>2, <2>3, <2>4, <2>5, Zenon
<1>1. PICK j : j = job[t]
  BY Zenon
<1>2. /\ h[0] \in SUBSET Paths /\ MapInv(j, h[0]) /\ CurrentInv(j, h[0]) /\ DecidedInv(j, h[0])
  BY <1>1, WorkerFacts, Zenon DEF Inv
<1>3. JobInv(NoJob, h[0]) /\ MapInv(NoJob, h[0]) /\ CurrentInv(NoJob, h[0]) /\ DecidedInv(NoJob, h[0])
  BY <1>1, <1>2, <1>FinishInv, Zenon
<1>4. NoJob.pc = "idle" /\ NoJob.pc \notin ObjTargets
  BY Zenon DEF NoJob, ObjTargets
<1>5. job' = [job EXCEPT ![t] = NoJob]
  BY ZenonT(30) DEF Finish
<1> QED  BY <1>3, <1>4, <1>5, JobOnlyKeeps, Zenon

\* An added device is not in the map yet.
LEMMA NeverPresent ==
  ASSUME Inv, NEW t, t = Worker
  PROVE  ~LookPresence(t)
<1>1. PICK h : Track(h)
  BY Zenon DEF Inv
<1>2. PICK j : j = job[t]
  BY Zenon
<1>3. JobInv(j, h[0])
  BY <1>1, <1>2, Zenon DEF Track
<1> QED  BY <1>2, <1>3, SMT, Z3, SMTT(20), Z3T(20) DEF LookPresence, JobInv, Early, Unknown, NoID

\* The device of an event that is not superseded is opened.
LEMMA LookInsertionKeeps ==
  ASSUME Inv, TypeInv', NEW t, t = Worker, LookInsertion(t)
  PROVE  Inv'
<1> DEFINE p == job[t].path
<1>1. PICK h : Track(h)
  BY Zenon DEF Inv
<1>2. TypeInv /\ ScanInv /\ t \in Threads
  BY Zenon DEF Inv, Worker, Threads
<1>3. TypeInv'
  OBVIOUS
<1>4. PICK j : j = job[t]
  BY Zenon
<1>5. /\ j \in Jobs /\ p \in Paths /\ h[0] \in SUBSET Paths /\ j.path = p
      /\ j.pc = "look" /\ j.act = "add" /\ ids[p] <= NoID
      /\ UNCHANGED <<kernel, scanning, tracking, mutex, requests, announced>>
      /\ \A q \in h[0] : NoEvent(q) => kern[q].on
      /\ main # "run" => \A q \in Paths : NoEvent(q)
      /\ JobInv(j, h[0]) /\ MapInv(j, h[0]) /\ CurrentInv(j, h[0]) /\ DecidedInv(j, h[0])
  BY <1>1, <1>2, <1>4, WorkerFacts, Zenon DEF LookInsertion
<1>6. p \in h[0] /\ ids[p] = IF main = "run" THEN Unknown ELSE NoID
  BY <1>5, Zenon DEF JobInv, Early
<1>7. CASE kern[p].on
  <2>1. PICK k : k = [j EXCEPT !.pc = "build", !.gen = kern[p].gen, !.known = KnownSysfsPath(p)]
    BY Zenon
  <2>2. /\ k.pc = "build" /\ k.act = "add" /\ k.path = p /\ k.gen = kern[p].gen
        /\ k.known = KnownSysfsPath(p)
    BY <1>5, <2>1, Zenon DEF Jobs
  <2>3. job' = [job EXCEPT ![t] = k]
    BY <1>2, <1>4, <1>7, <2>1, Zenon DEF LookInsertion, TypeInv
  <2>4. k.known = (main # "run")
    BY <1>6, <2>2, SMT, Z3, SMTT(20), Z3T(20) DEF KnownSysfsPath, Unknown, NoID
  <2>5. JobInv(k, h[0])
    BY <1>5, <1>6, <2>2, <2>4, ZenonT(30) DEF JobInv, Early
  <2>6. MapInv(k, h[0])
    BY <1>5, <2>2, Zenon DEF MapInv, Early
  <2>7. CurrentInv(k, h[0]) /\ DecidedInv(k, h[0])
    BY <1>5, <2>2, Zenon DEF CurrentInv, DecidedInv, Early, Deciding
  <2> QED  BY <1>1, <1>3, <1>4, <1>5, <2>2, <2>3, <2>5, <2>6, <2>7, JobOnlyKeeps, Zenon DEF ObjTargets
<1>8. CASE ~kern[p].on
  <2>1. Finish(t)
    BY <1>8, Zenon DEF LookInsertion
  <2>2. ~NoEvent(p) /\ main = "run"
    BY <1>5, <1>6, <1>8, Zenon
  <2>3. \A q \in Paths : ids[q] # NoID
    BY <1>5, <2>2, Zenon DEF MapInv
  <2> QED  BY <1>1, <1>3, <1>4, <1>5, <2>1, <2>2, <2>3, FinishKeeps, Zenon
<1> QED  BY <1>7, <1>8, Zenon

\* A removed device leaves the map, and with it goes what clients know of it.
LEMMA LookRemovalKeeps ==
  ASSUME Inv, TypeInv', NEW t, t = Worker, LookRemoval(t)
  PROVE  Inv'
<1>p. PICK p, id : p = job[t].path /\ id = ids[p]
  BY Zenon
<1>1. PICK h : Track(h)
  BY Zenon DEF Inv
<1>2. TypeInv /\ ScanInv /\ PresentInv /\ EventInv /\ t \in Threads
  BY Zenon DEF Inv, Worker, Threads
<1>3. TypeInv'
  OBVIOUS
<1>4. PICK j : j = job[t]
  OBVIOUS
<1>5. /\ j \in Jobs /\ p \in Paths /\ h[0] \in SUBSET Paths /\ j.path = p
      /\ j.pc = "look" /\ j.act = "remove"
      /\ UNCHANGED <<kern, sock, scanning, ids, obj, mutex, requests, announced>>
      /\ JobInv(j, h[0]) /\ MapInv(j, h[0]) /\ CurrentInv(j, h[0]) /\ DecidedInv(j, h[0])
      /\ \A i \in DOMAIN obj : i > NoID /\ obj[i].path \in Paths
      /\ \A q \in Paths : Parent[q] # NoPath => Parent[q] \in Paths /\ Parent[q] # q
      /\ devmap \subseteq DOMAIN obj /\ id = ids[p]
  BY <1>p, <1>1, <1>2, <1>4, WorkerFacts, Zenon DEF LookRemoval, kernel
<1>6. main = "run" /\ p \notin h[0] /\ \A q \in Paths : ids[q] # NoID
  BY <1>5, Zenon DEF JobInv, MapInv
<1>7. CASE id \in devmap
  <2>1. PICK k : k = [j EXCEPT !.pc = "forget", !.id = id]
    BY Zenon
  <2>2. k.pc = "forget" /\ k.act = "remove" /\ k.path = p /\ k.id = id
    BY <1>5, <2>1, Zenon DEF Jobs
  <2>3. job' = [job EXCEPT ![t] = k] /\ devmap' = devmap \ {id}
    BY <1>p, <1>2, <1>4, <1>7, <2>1, Zenon DEF LookRemoval, TypeInv
  <2>4. id > NoID /\ obj[id].path = p /\ id \in DOMAIN obj /\ id \in announced
    BY <1>5, <1>7, Zenon DEF MapInv
  <2>5. HasDeviceRule(id)'
    <3>1. ASSUME Parent[p] # NoPath
          PROVE  obj[id].parent \in devmap /\ obj[id].parent # id
      <4>1. obj[id].parent = ids[Parent[p]] /\ ids[Parent[p]] > NoID /\ Parent[p] \in Paths /\ Parent[p] # p
        BY <1>5, <1>7, <2>4, <3>1, SMT, Z3, SMTT(20), Z3T(20) DEF MapInv
      <4>2. ids[Parent[p]] \in devmap /\ obj[ids[Parent[p]]].path = Parent[p]
        BY <1>5, <4>1, Zenon DEF MapInv
      <4> QED  BY <2>4, <4>1, <4>2, ZenonT(30)
    <3> QED  BY <1>5, <2>3, <2>4, <3>1, Zenon DEF HasDeviceRule
  <2>6. PICK now : now = h[0]
    BY Zenon
  <2>7. JobInv(k, now)'
    <3>1. HasDeviceRule(k.id)'
      BY <2>2, <2>5, Zenon
    <3> QED  BY <1>5, <1>6, <2>2, <2>3, <2>4, <2>6, <3>1, Zenon DEF JobInv, Early, scanning
  <2>8. MapInv(k, now)'
    <3>1. \A q \in Paths : ids[q] > NoID /\ q # p => ids[q] # id
      BY <1>5, <2>4, ZenonT(30) DEF MapInv
    <3>2. ASSUME NEW q \in Paths, ids'[q] > NoID
          PROVE  /\ obj'[ids'[q]].path = q
                 /\ ids'[q] \in devmap' \/ (k.pc = "forget" /\ k.path = q)
                 /\ q \in now \/ (k.pc # "idle" /\ k.act = "remove" /\ k.path = q)
      <4>1. obj[ids[q]].path = q /\ ids[q] \in devmap /\ (q \in now \/ q = p)
        BY <1>5, <2>6, <3>2, Zenon DEF MapInv
      <4>2. q # p => ids[q] # id
        BY <1>5, <3>1, <3>2, Zenon
      <4> QED  BY <1>5, <2>2, <2>3, <4>1, <4>2, Zenon
    <3>3. ASSUME NEW q \in Paths PROVE ids'[q] # NoID
      BY <1>5, <1>6, Zenon
    <3>4. ASSUME NEW i \in devmap'
          PROVE  /\ ids'[obj'[i].path] = i
                 /\ Parent[obj'[i].path] # NoPath =>
                      /\ obj'[i].parent = ids'[Parent[obj'[i].path]]
                      /\ obj'[i].parent > NoID
      <4>1. i \in devmap /\ j.pc # "learn"
        BY <1>5, <2>3, <3>4, Zenon
      <4>2. /\ ids[obj[i].path] = i
            /\ Parent[obj[i].path] # NoPath =>
                 obj[i].parent = ids[Parent[obj[i].path]] /\ obj[i].parent > NoID
        BY <1>5, <4>1, Zenon DEF MapInv
      <4>3. obj' = obj /\ ids' = ids
        BY <1>5, Zenon
      <4> QED  BY <4>2, <4>3, Zenon
    <3>5. ASSUME NEW i \in DOMAIN obj'
          PROVE  i \in announced' <=> (i \in devmap' \/ k.id = i)
      <4>1. i \in announced <=> i \in devmap
        BY <1>5, <3>5, Zenon DEF MapInv
      <4> QED  BY <1>5, <1>7, <2>2, <2>3, <4>1, Zenon
    <3>6. k.pc \notin {"learn", "event"}
      BY <2>2, Zenon
    <3> QED  BY <2>2, <3>2, <3>3, <3>4, <3>5, <3>6, Zenon DEF MapInv
  <2>9. CurrentInv(k, now)'
    <3> SUFFICES ASSUME NEW q \in now, NoEvent(q)'
                 PROVE  /\ ids'[q] > NoID \/ Remaining(q)'
                        /\ ids'[q] > NoID => /\ obj'[ids'[q]].gen = kern'[q].gen
                                            /\ obj'[ids'[q]].rule = kern'[q].rule
      BY Zenon DEF CurrentInv
    <3>1. q # p /\ NoEvent(q) /\ (Remaining(q) => Remaining(q)')
      BY <1>5, <1>6, <2>6, Zenon DEF NoEvent, Remaining, scanning
    <3>2. /\ ids[q] > NoID \/ Remaining(q)
          /\ ids[q] > NoID => obj[ids[q]].gen = kern[q].gen /\ obj[ids[q]].rule = kern[q].rule
      BY <1>5, <2>6, <3>1, Zenon DEF CurrentInv
    <3>3. ids' = ids /\ obj' = obj /\ kern' = kern
      BY <1>5, Zenon
    <3> QED  BY <3>1, <3>2, <3>3, Zenon
  <2>10. DecidedInv(k, now)'
    BY <1>5, <1>6, <2>2, <2>6, Zenon DEF DecidedInv, Asks, Method, NoEvent, Deciding
  <2>11. PresentInv' /\ EventInv' /\ Present' = Present
    BY <1>2, <1>5, <1>6, Zenon DEF PresentInv, EventInv, Present, scanning
  <2>12. History(h, sock', Present') /\ (main # "run" => sock' = <<>>)
    BY <1>1, <1>5, <1>6, <2>11, Zenon DEF Track
  <2> QED  BY <1>3, <1>4, <1>5, <2>2, <2>3, <2>6, <2>7, <2>8, <2>9, <2>10, <2>11, <2>12, WorkerStep, Zenon
<1>8. CASE id \notin devmap
  <2>1. Finish(t) /\ devmap' = devmap
    BY <1>p, <1>8, Zenon DEF LookRemoval
  <2>2. ~(id > NoID)
    BY <1>5, <1>8, Zenon DEF MapInv
  <2> QED  BY <1>1, <1>3, <1>4, <1>5, <1>6, <2>1, <2>2, FinishKeeps, Zenon DEF kernel, tracking
<1> QED  BY <1>7, <1>8, Zenon

=============================================================================
