---------------------------- MODULE IdAllocation ----------------------------
(***************************************************************************)
(* The counter RuleSet::_id_next, from which rules and devices get their   *)
(* IDs.  Its loads and stores are atomic, what is built from them is not:  *)
(* the IPC thread appends rules while the main thread and the uevent       *)
(* thread insert devices, holding the mutex of the device map.             *)
(***************************************************************************)
EXTENDS Integers, Sequences

CONSTANTS
  LastID,         \* Rule::LastID
  DeviceThreads,  \* the threads that insert devices
  NoThread,
  LDAP,           \* is a rule set loaded from LDAP?
  LDAPRules,      \* number of rules in LDAP
  MaxIDs          \* bound on the IDs ever assigned

ASSUME ConstantsAssumption ==
  /\ LastID \in Nat /\ LastID > 2
  /\ NoThread \notin DeviceThreads
  /\ LDAP \in BOOLEAN
  /\ LDAPRules \in Nat /\ LDAPRules < LastID - 1
  /\ MaxIDs \in Nat

VARIABLES
  idNext,   \* RuleSet::_id_next
  ipc,      \* the IPC thread in Policy::appendRule or RuleSet::appendRule
  holder,   \* the thread that holds _device_map_mutex
  ins,      \* the device threads in DeviceManagerPrivate::insertDevice
  ruleIds,  \* the IDs assigned to rules, in order
  devIds,   \* the IDs assigned to devices, in order
  evaluated \* history: has an LDAP rule set been evaluated?

vars == <<idNext, ipc, holder, ins, ruleIds, devIds, evaluated>>

Idle == [pc |-> "idle", val |-> 0]

Max2(a, b) == IF a > b THEN a ELSE b

\* Mutation: off by one
AvailableTooLong(val) == val < LastID

\* RuleSet::assignID, its check
Available(val) == val + 1 < LastID

More == Len(ruleIds) + Len(devIds) < MaxIDs

-----------------------------------------------------------------------------
(* The IPC thread.  Policy::appendRule assigns the ID before RuleSet::         *)
(* appendRule, which then raises the counter; in Policy::upsertRule the rule   *)
(* set assigns it.                                                             *)

AppendLoad ==
  /\ More
  /\ ipc.pc = "idle"
  /\ IF Available(idNext) THEN ipc' = [pc |-> "store", val |-> idNext]
                          ELSE ipc' = Idle
  /\ UNCHANGED <<idNext, holder, ins, ruleIds, devIds, evaluated>>

AppendStore ==
  /\ ipc.pc = "store"
  /\ idNext' = ipc.val + 1
  /\ ruleIds' = Append(ruleIds, ipc.val)
  /\ \/ ipc' = [ipc EXCEPT !.pc = "raise"]
     \/ ipc' = Idle
  /\ UNCHANGED <<holder, ins, devIds, evaluated>>

RaiseLoad ==
  /\ ipc.pc = "raise"
  /\ ipc' = [pc |-> "raised", val |-> Max2(idNext, ipc.val + 1)]
  /\ UNCHANGED <<idNext, holder, ins, ruleIds, devIds, evaluated>>

RaiseStore ==
  /\ ipc.pc = "raised"
  /\ idNext' = ipc.val
  /\ ipc' = Idle
  /\ UNCHANGED <<holder, ins, ruleIds, devIds, evaluated>>

-----------------------------------------------------------------------------
(* DeviceManagerPrivate::insertDevice *)

\* Mutation: the mutex is not waited for
MutexIgnored == TRUE

MutexFree == holder = NoThread

InsertLock(t) ==
  /\ More
  /\ ins[t].pc = "idle" /\ MutexFree
  /\ holder' = t
  /\ ins' = [ins EXCEPT ![t].pc = "load"]
  /\ UNCHANGED <<idNext, ipc, ruleIds, devIds, evaluated>>

InsertLoad(t) ==
  /\ ins[t].pc = "load"
  /\ IF Available(idNext)
     THEN /\ ins' = [ins EXCEPT ![t] = [pc |-> "store", val |-> idNext]]
          /\ UNCHANGED holder
     ELSE /\ ins' = [ins EXCEPT ![t] = Idle]
          /\ holder' = NoThread
  /\ UNCHANGED <<idNext, ipc, ruleIds, devIds, evaluated>>

InsertStore(t) ==
  /\ ins[t].pc = "store"
  /\ idNext' = ins[t].val + 1
  /\ devIds' = Append(devIds, ins[t].val)
  /\ ins' = [ins EXCEPT ![t] = Idle]
  /\ holder' = NoThread
  /\ UNCHANGED <<ipc, ruleIds, evaluated>>

\* LDAPRuleSet::getFirstMatchingRule binds update() to a copy of the rule set.
\* The copy's constructor resets the counter, and so does update(), which then
\* loads the rules.
Evaluate ==
  /\ LDAP
  /\ devIds # <<>>
  /\ idNext' \in {1, LDAPRules + 1}
  /\ evaluated' = TRUE
  /\ UNCHANGED <<ipc, holder, ins, ruleIds, devIds>>

Init ==
  /\ idNext = 1
  /\ ipc = Idle
  /\ holder = NoThread /\ ins = [t \in DeviceThreads |-> Idle]
  /\ ruleIds = <<>> /\ devIds = <<>> /\ evaluated = FALSE

Next ==
  \/ AppendLoad \/ AppendStore \/ RaiseLoad \/ RaiseStore
  \/ \E t \in DeviceThreads : InsertLock(t) \/ InsertLoad(t) \/ InsertStore(t)
  \/ Evaluate

Spec == Init /\ [][Next]_vars

-----------------------------------------------------------------------------
(* Properties *)

Steps(names) == [pc : names, val : 0 .. LastID - 1]

\* The variables hold values of the types the code gives them, and the counter
\* never reaches the reserved IDs or the 0 of RootID, whatever stores are lost.
TypeOK ==
  /\ idNext \in 1 .. LastID - 1
  /\ ipc \in Steps({"idle", "store", "raise", "raised"})
  /\ holder \in DeviceThreads \cup {NoThread}
  /\ ins \in [DeviceThreads -> Steps({"idle", "load", "store"})]
  /\ ruleIds \in Seq(1 .. LastID - 2)
  /\ devIds \in Seq(1 .. LastID - 2)
  /\ evaluated \in BOOLEAN

\* No two devices ever get the same ID, so that inserting a device never
\* replaces another one in _device_map (DeviceManagerPrivate::insertDevice;
\* comment in RuleSet::appendRule: "so that we don't generate a duplicit one if
\* assignID() gets called in the future").
DeviceIdsUnique ==
  \A m, n \in DOMAIN devIds : devIds[m] = devIds[n] => m = n

\* What the mutex of the device map is enough for: as long as no rule has been
\* appended and no LDAP rule set evaluated, no two devices get the same ID
\* although two threads insert them (DeviceManagerPrivate::insertDevice).
DeviceIdsUniqueAlone == ruleIds = <<>> /\ ~evaluated => DeviceIdsUnique
=============================================================================
