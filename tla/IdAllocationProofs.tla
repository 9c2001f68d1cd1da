------------------------- MODULE IdAllocationProofs -------------------------
(***************************************************************************)
(* Proofs about module IdAllocation: the reserved IDs are never assigned,  *)
(* and the mutex of the device map keeps device IDs apart as long as no    *)
(* rule is appended and no LDAP rule set evaluated.                        *)
(***************************************************************************)
EXTENDS IdAllocation, SequenceTheorems, TLAPS

\* An ID that a thread has read and is about to use passed the check.
TypeInv ==
  /\ TypeOK
  /\ ipc.pc \in {"store", "raise"} => ipc.val \in 1 .. LastID - 2
  /\ ipc.pc = "raised" => ipc.val \in 1 .. LastID - 1
  /\ \A t \in DeviceThreads : ins[t].pc = "store" => ins[t].val \in 1 .. LastID - 2

\* Every step keeps TypeInv.
LEMMA NextKeepsTypes ==
  ASSUME TypeInv, [Next]_vars
  PROVE  TypeInv'
<1> USE ConstantsAssumption
<1>1. ASSUME AppendLoad PROVE TypeInv'
  BY <1>1, SMT, Z3 DEF AppendLoad, TypeInv, TypeOK, Steps, Available, Idle
<1>2. ASSUME AppendStore PROVE TypeInv'
  <2>1. ipc.val \in 1 .. LastID - 2
    BY <1>2 DEF AppendStore, TypeInv
  <2>2. ruleIds' \in Seq(1 .. LastID - 2)
    BY <1>2, <2>1, SMT, Z3 DEF AppendStore, TypeInv, TypeOK
  <2>3. ipc' \in Steps({"idle", "store", "raise", "raised"})
        /\ (ipc'.pc = "raise" => ipc'.val = ipc.val) /\ ipc'.pc \in {"raise", "idle"}
    <3>1. ipc \in Steps({"idle", "store", "raise", "raised"})
      BY Zenon DEF TypeInv, TypeOK
    <3>2. CASE ipc' = [ipc EXCEPT !.pc = "raise"]
      BY <3>1, <3>2, SMT, Z3 DEF Steps
    <3>3. CASE ipc' = Idle
      BY <3>3, SMT, Z3 DEF Steps, Idle
    <3> QED
      BY <1>2, <3>2, <3>3, Zenon DEF AppendStore
  <2>4. idNext' \in 1 .. LastID - 1 /\ UNCHANGED <<holder, ins, devIds, evaluated>>
    <3>1. idNext' = ipc.val + 1 /\ UNCHANGED <<holder, ins, devIds, evaluated>>
      BY <1>2, Zenon DEF AppendStore
    <3> QED
      BY <2>1, <3>1, SMT, Z3
  <2>5. TypeOK'
    BY <2>2, <2>3, <2>4 DEF TypeInv, TypeOK
  <2>6. /\ ipc'.pc \in {"store", "raise"} => ipc'.val \in 1 .. LastID - 2
        /\ ipc'.pc # "raised"
    BY <2>1, <2>3, Zenon
  <2> QED
    BY <2>4, <2>5, <2>6, Zenon DEF TypeInv
<1>3. ASSUME RaiseLoad PROVE TypeInv'
  BY <1>3, SMT, Z3 DEF RaiseLoad, TypeInv, TypeOK, Steps, Max2
<1>4. ASSUME RaiseStore PROVE TypeInv'
  BY <1>4, SMT, Z3 DEF RaiseStore, TypeInv, TypeOK, Steps, Idle
<1>5. ASSUME NEW t \in DeviceThreads, InsertLock(t) PROVE TypeInv'
  BY <1>5, Zenon DEF InsertLock, TypeInv, TypeOK, Steps
<1>6. ASSUME NEW t \in DeviceThreads, InsertLoad(t) PROVE TypeInv'
  <2>1. CASE Available(idNext)
    <3>1. idNext \in 1 .. LastID - 2
      BY <2>1 DEF Available, TypeInv, TypeOK
    <3>2. ins' = [ins EXCEPT ![t] = [pc |-> "store", val |-> idNext]]
      BY <1>6, <2>1, Zenon DEF InsertLoad
    <3> QED
      BY <1>6, <2>1, <3>1, <3>2, SMT, Z3 DEF InsertLoad, TypeInv, TypeOK, Steps
  <2>2. CASE ~Available(idNext)
    <3>1. ins' = [ins EXCEPT ![t] = Idle]
      BY <1>6, <2>2 DEF InsertLoad
    <3> QED
      BY <1>6, <2>2, <3>1, SMT, Z3 DEF InsertLoad, TypeInv, TypeOK, Steps, Idle
  <2> QED
    BY <2>1, <2>2, Zenon
<1>7. ASSUME NEW t \in DeviceThreads, InsertStore(t) PROVE TypeInv'
  <2>1. ins[t].val \in 1 .. LastID - 2
    BY <1>7, Zenon DEF InsertStore, TypeInv
  <2>2. devIds' \in Seq(1 .. LastID - 2)
    BY <1>7, <2>1 DEF InsertStore, TypeInv, TypeOK
  <2> QED
    BY <1>7, <2>1, <2>2, SMT, Z3 DEF InsertStore, TypeInv, TypeOK, Steps, Idle
<1>8. ASSUME Evaluate PROVE TypeInv'
  BY <1>8, SMT, Z3 DEF Evaluate, TypeInv, TypeOK, Steps
<1>9. CASE UNCHANGED vars
  BY <1>9 DEF vars, TypeInv, TypeOK
<1> QED
  BY <1>1, <1>2, <1>3, <1>4, <1>5, <1>6, <1>7, <1>8, <1>9, Zenon DEF Next

\* The invariant holds in every behaviour.
THEOREM TypeInvariant == Spec => []TypeInv
<1>1. Init => TypeInv
  <2> SUFFICES ASSUME Init PROVE TypeInv
    OBVIOUS
  <2>1. evaluated \in BOOLEAN
    BY Zenon DEF Init
  <2>2. idNext = 1 /\ ipc = Idle /\ holder = NoThread
        /\ ins = [t \in DeviceThreads |-> Idle] /\ ruleIds = <<>> /\ devIds = <<>>
    BY Zenon DEF Init
  <2> QED
    BY <2>1, <2>2, ConstantsAssumption, SMT, Z3 DEF TypeInv, TypeOK, Steps, Idle
<1>2. TypeInv /\ [Next]_vars => TypeInv'
  BY NextKeepsTypes
<1> QED
  BY <1>1, <1>2, PTL DEF Spec

\* The variables keep their types: RuleSet::assignID never hands out 0 or a
\* reserved ID, and the counter never passes its limit, for every LastID, even
\* if stores are lost in races or an LDAP rule set resets the counter.
THEOREM TypeCorrect == Spec => []TypeOK
<1>1. TypeInv => TypeOK
  BY DEF TypeInv
<1> QED
  BY <1>1, TypeInvariant, PTL

-----------------------------------------------------------------------------
(* Device IDs *)

Alone == ruleIds = <<>> /\ ~evaluated

\* Only the holder of the mutex is in insertDevice.  As long as devices are
\* alone, what it has read is still the counter, which is above all device IDs.
DeviceInv ==
  /\ \A t \in DeviceThreads : ins[t].pc # "idle" => holder = t
  /\ ruleIds = <<>> => ipc.pc \in {"idle", "store"}
  /\ Alone => /\ \A t \in DeviceThreads : ins[t].pc = "store" => ins[t].val = idNext
              /\ \A n \in DOMAIN devIds : devIds[n] < idNext
              /\ DeviceIdsUnique

\* Appending an ID that is above the others keeps them distinct.
LEMMA AppendKeepsUnique ==
  ASSUME NEW s \in Seq(1 .. LastID - 2), NEW v \in 1 .. LastID - 2,
         \A n \in DOMAIN s : s[n] < v,
         \A m, n \in DOMAIN s : s[m] = s[n] => m = n
  PROVE  /\ \A n \in DOMAIN Append(s, v) : Append(s, v)[n] < v + 1
         /\ \A m, n \in DOMAIN Append(s, v) : Append(s, v)[m] = Append(s, v)[n] => m = n
<1>1. /\ Append(s, v) \in Seq(1 .. LastID - 2) /\ Len(Append(s, v)) = Len(s) + 1
      /\ \A n \in 1 .. Len(s) : Append(s, v)[n] = s[n]
      /\ Append(s, v)[Len(s) + 1] = v
  BY AppendProperties, SMT, Z3
<1>2. Len(s) \in Nat /\ DOMAIN s = 1 .. Len(s) /\ DOMAIN Append(s, v) = 1 .. Len(s) + 1
  BY <1>1, LenProperties, Zenon
<1>3. \A n \in 1 .. Len(s) : s[n] \in Nat /\ s[n] < v
  <2>1. \A n \in 1 .. Len(s) : s[n] \in 1 .. LastID - 2
    BY ElementOfSeq, Zenon
  <2>2. \A n \in 1 .. Len(s) : s[n] < v
    BY <1>2, Zenon
  <2>3. 1 .. LastID - 2 \subseteq Nat
    BY ConstantsAssumption, SMT, Z3
  <2> QED
    BY <2>1, <2>2, <2>3, Zenon
<1>4. v \in Nat
  BY ConstantsAssumption
<1>5. \A n \in 1 .. Len(s) + 1 :
        \/ n \in 1 .. Len(s) /\ Append(s, v)[n] = s[n] /\ s[n] \in Nat /\ s[n] < v
        \/ n = Len(s) + 1 /\ Append(s, v)[n] = v
  BY <1>1, <1>2, <1>3, SMT, Z3
<1>6. \A n \in DOMAIN Append(s, v) : Append(s, v)[n] < v + 1
  BY <1>2, <1>4, <1>5, SMT, Z3
<1>7. ASSUME NEW m \in DOMAIN Append(s, v), NEW n \in DOMAIN Append(s, v),
             Append(s, v)[m] = Append(s, v)[n]
      PROVE  m = n
  BY <1>2, <1>4, <1>5, <1>7, SMT, Z3
<1> QED
  BY <1>6, <1>7, Zenon

\* As long as no rule is appended and no LDAP rule set evaluated, no two devices
\* get the same ID: _device_map_mutex makes DeviceManagerPrivate::insertDevice
\* take turns on the main and the uevent thread, for every number of threads.
THEOREM DeviceIdsStayUnique == Spec => []DeviceIdsUniqueAlone
<1>1. Init => DeviceInv
  BY DEF Init, DeviceInv, Alone, DeviceIdsUnique, Idle
<1>2. TypeInv /\ DeviceInv /\ [Next]_vars => DeviceInv'
  <2>1. SUFFICES ASSUME TypeInv, DeviceInv, [Next]_vars PROVE DeviceInv'
    OBVIOUS
  <2>2. ASSUME NEW t \in DeviceThreads, InsertLock(t) PROVE DeviceInv'
    BY <2>1, <2>2, ConstantsAssumption, Zenon
       DEF InsertLock, MutexFree, DeviceInv, Alone, TypeInv, TypeOK, Steps, DeviceIdsUnique
  <2>3. ASSUME NEW t \in DeviceThreads, InsertLoad(t) PROVE DeviceInv'
    <3>1. \A u \in DeviceThreads : u # t => ins[u].pc = "idle"
      BY <2>1, <2>3, Zenon DEF InsertLoad, DeviceInv
    <3>2. /\ UNCHANGED <<idNext, ipc, devIds, ruleIds, evaluated>> /\ holder = t
          /\ \A u \in DeviceThreads : u # t => ins'[u] = ins[u]
      BY <2>1, <2>3, Zenon DEF InsertLoad, DeviceInv, TypeInv, TypeOK
    <3>3. \/ ins'[t] = [pc |-> "store", val |-> idNext] /\ holder' = holder
          \/ ins'[t] = Idle
      BY <2>1, <2>3, Zenon DEF InsertLoad, TypeInv, TypeOK
    <3> QED
      BY <2>1, <3>1, <3>2, <3>3 DEF DeviceInv, Alone, Idle, DeviceIdsUnique
  <2>4. ASSUME NEW t \in DeviceThreads, InsertStore(t) PROVE DeviceInv'
    <3>1. \A u \in DeviceThreads : u # t => ins[u].pc = "idle"
      BY <2>1, <2>4, Zenon DEF InsertStore, DeviceInv
    <3>2. ins' = [ins EXCEPT ![t] = Idle] /\ UNCHANGED <<ipc, ruleIds, evaluated>>
      BY <2>4, Zenon DEF InsertStore
    <3>3. \A u \in DeviceThreads : ins'[u].pc = "idle"
      BY <2>1, <3>1, <3>2, Zenon DEF TypeInv, TypeOK, Idle
    <3>4. ASSUME Alone
          PROVE  /\ \A n \in DOMAIN devIds' : devIds'[n] < idNext'
                 /\ DeviceIdsUnique'
      <4>1. ins[t].val = idNext /\ idNext \in 1 .. LastID - 2
        BY <2>1, <2>4, <3>4, Zenon DEF InsertStore, DeviceInv, TypeInv, TypeOK
      <4>2. devIds' = Append(devIds, idNext) /\ idNext' = idNext + 1
        BY <2>4, <4>1 DEF InsertStore
      <4>3. devIds \in Seq(1 .. LastID - 2)
        BY <2>1 DEF TypeInv, TypeOK
      <4>4. /\ \A n \in DOMAIN devIds : devIds[n] < idNext
            /\ \A m, n \in DOMAIN devIds : devIds[m] = devIds[n] => m = n
        BY <2>1, <3>4 DEF DeviceInv, DeviceIdsUnique
      <4> DEFINE s == Append(devIds, idNext)
      <4>5. /\ \A n \in DOMAIN s : s[n] < idNext + 1
            /\ \A m, n \in DOMAIN s : s[m] = s[n] => m = n
        BY <4>1, <4>3, <4>4, AppendKeepsUnique, Zenon
      <4> HIDE DEF s
      <4>6. devIds' = s
        BY <4>2, Zenon DEF s
      <4> QED
        BY <4>2, <4>5, <4>6, ZenonT(30) DEF DeviceIdsUnique
    <3> QED
      BY <2>1, <3>2, <3>3, <3>4, Zenon DEF DeviceInv, Alone
  <2>5. CASE AppendLoad
    BY <2>1, <2>5 DEF AppendLoad, DeviceInv, Alone, Idle, DeviceIdsUnique
  <2>6. CASE AppendStore
    <3>1. ruleIds' # <<>>
      BY <2>1, <2>6, AppendProperties, SMT, Z3 DEF AppendStore, TypeInv, TypeOK
    <3> QED
      BY <2>1, <2>6, <3>1, Zenon DEF AppendStore, DeviceInv, Alone
  <2>7. CASE RaiseLoad \/ RaiseStore
    BY <2>1, <2>7 DEF RaiseLoad, RaiseStore, DeviceInv, Alone
  <2>8. CASE Evaluate
    BY <2>1, <2>8, Zenon DEF Evaluate, DeviceInv, Alone
  <2>9. CASE UNCHANGED vars
    BY <2>1, <2>9 DEF vars, DeviceInv, Alone, DeviceIdsUnique
  <2> QED
    BY <2>1, <2>2, <2>3, <2>4, <2>5, <2>6, <2>7, <2>8, <2>9 DEF Next
<1>3. DeviceInv => DeviceIdsUniqueAlone
  BY DEF DeviceInv, Alone, DeviceIdsUniqueAlone
<1> QED
  BY <1>1, <1>2, <1>3, TypeInvariant, PTL DEF Spec
=============================================================================
