--------------------------- MODULE Administration ---------------------------
(***************************************************************************)
(* An administrator's commands and the audit trail, over module            *)
(* DeviceManager: the commands allow-device, block-device and              *)
(* reject-device, which send one request or one for every device that a    *)
(* query finds, and the audit events of Daemon::dmHookDeviceEvent and      *)
(* dmApplyDevicePolicy on every thread.  The changes are not permanent:    *)
(* module Policy has the rules.                                            *)
(***************************************************************************)
EXTENDS DeviceManager, AuditTrail, SequencesExt

CONSTANTS Queries   \* the targets of the commands' queries

ASSUME QueriesAssumption == Queries \subseteq Targets \cup {"match"}

VARIABLES
  cmd,      \* the command that runs, or the last one
  audit,    \* the audit event of dmApplyDevicePolicy on every thread
  trail,    \* the audit messages, by the device they name
  begun,    \* history: the number of calls of dmApplyDevicePolicy, by path
  applied   \* history: the targets written to sysfs, by path

adminVars == <<vars, cmd, audit, trail, begun, applied>>
auditing == <<audit, trail, begun, applied>>

NoEvent == [commited |-> TRUE]

NoCommand == [pc |-> "exit", by |-> "none", target |-> "none", ids |-> <<>>,
              settled |-> {}, status |-> "none"]

\* The device rule in a message stands for the device
DeviceRule(id) == <<obj[id].path, obj[id].gen>>

-----------------------------------------------------------------------------
(* usbguard_apply_device_policy *)

\* The IDs whose devices no event or thread is about to change
SettledIDs(S) == {id \in S : Settled(obj[id].path)}

Ready == main = "run" /\ cmd.pc = "exit" /\ requests < MaxRequests

CommandByID(id, target) ==
  /\ Ready
  /\ requests' = requests + 1
  /\ cmd' = [pc |-> "call", by |-> "id", target |-> target, ids |-> <<id>>,
             settled |-> SettledIDs({id}), status |-> "none"]
  /\ UNCHANGED <<kernel, scanning, tracking, mutex, job, announced, auditing>>

\* DeviceManager::getDeviceList: the devices of the map, by ID
Listed(query) ==
  {id \in devmap : query \in {"allow", "block"} => obj[id].target = query}

\* Daemon::listDevices.  A query for rejected devices raises an exception as
\* soon as there is a device.
CommandByQuery(query, target) ==
  LET listed == IF query = "reject" THEN {} ELSE Listed(query)
      failed == query = "reject" /\ devmap # {}
      others == {id \in listed : obj[id].target # target}
  IN  /\ Ready
      /\ requests' = requests + 1
      /\ cmd' = [pc |-> IF failed THEN "exit" ELSE "call",
                 by |-> "query", target |-> target,
                 ids |-> SetToSortSeq(others, <), settled |-> SettledIDs(listed),
                 status |-> IF failed THEN "failure" ELSE "none"]
      /\ UNCHANGED <<kernel, scanning, tracking, mutex, job, announced, auditing>>

\* Mutation: an exception ends the command
AnsweredOrStopped(raised) ==
  IF raised THEN [cmd EXCEPT !.pc = "exit", !.status = "success"]
            ELSE [cmd EXCEPT !.pc = "call", !.ids = Tail(@)]

\* The command after an answer.  With a query, exceptions are ignored.
Answered(raised) ==
  IF raised /\ cmd.by = "id" THEN [cmd EXCEPT !.pc = "exit", !.status = "failure"]
                             ELSE [cmd EXCEPT !.pc = "call", !.ids = Tail(@)]

\* The next request of the command: Daemon::applyDevicePolicy up to
\* dmApplyDevicePolicy
Call ==
  LET id == Head(cmd.ids)
  IN  /\ cmd.pc = "call" /\ cmd.ids # <<>> /\ job["ipc"].pc = "idle"
      /\ IF id \in devmap
         THEN /\ cmd' = [cmd EXCEPT !.pc = "wait"]
              /\ job' = [job EXCEPT !["ipc"] =
                   [NoJob EXCEPT !.pc = "get", !.act = "apply", !.path = obj[id].path,
                                 !.id = id, !.target = cmd.target]]
              /\ LET e == PolicyEvent(obj[id].path, DeviceRule(id),
                                      obj[id].target, cmd.target)
                 IN  /\ audit' = [audit EXCEPT !["ipc"] = e]
                     /\ trail' = [trail EXCEPT ![obj[id].path] = @ \o Destroyed(Moved(e))]
              /\ begun' = [begun EXCEPT ![obj[id].path] = @ + 1]
              /\ UNCHANGED applied
         ELSE /\ cmd' = Answered(TRUE)
              /\ UNCHANGED <<job, auditing>>
      /\ UNCHANGED <<kernel, scanning, tracking, mutex, requests, announced>>

CommandExit ==
  /\ cmd.pc = "call" /\ cmd.ids = <<>>
  /\ cmd' = [cmd EXCEPT !.pc = "exit", !.status = "success"]
  /\ UNCHANGED <<vars, auditing>>

-----------------------------------------------------------------------------
(* The audit events in the steps of a thread *)

EventType(t) ==
  CASE job[t].pc = "forget" -> "Remove"
    [] job[t].known         -> "Present"
    [] OTHER                -> "Insert"

\* Daemon::dmHookDeviceEvent: the messages of the step
AuditDeviceEvent(t) ==
  LET id == job[t].id
      e == DeviceAuditEvent(obj[id].path, DeviceRule(id), EventType(t))
      raised == ~HasDeviceRule(id)
  IN  IF raised THEN Destroyed(e) ELSE Success(e)

\* Daemon::dmApplyDevicePolicy: the messages of the step that ends it
AuditApplyEnd(t) ==
  IF job[t].pc = "signal" /\ HasDeviceRule(job[t].id)
  THEN Success(audit[t]) ELSE Destroyed(audit[t])

\* A step of a thread with its audit events
AuditedStep(t) ==
  LET id == job[t].id
      at == job[t].pc
      ends == job'[t].pc = "idle"
      applies == at = "event" /\ ~ends
      e == PolicyEvent(obj[id].path, DeviceRule(id), obj[id].target, job'[t].target)
  IN  /\ Step(t)
      /\ trail' = CASE applies ->
                        [trail EXCEPT ![obj[id].path] =
                           @ \o AuditDeviceEvent(t) \o Destroyed(Moved(e))]
                    [] at \in {"event", "forget"} /\ ends ->
                        [trail EXCEPT ![obj[id].path] = @ \o AuditDeviceEvent(t)]
                    [] at \in {"get", "write", "signal"} /\ ends ->
                        [trail EXCEPT ![obj[id].path] = @ \o AuditApplyEnd(t)]
                    [] OTHER -> trail
      /\ audit' = [audit EXCEPT ![t] = CASE applies -> e
                                         [] ends -> NoEvent
                                         [] OTHER -> @]
      /\ begun' = IF applies THEN [begun EXCEPT ![obj[id].path] = @ + 1] ELSE begun
      /\ applied' = IF at = "write" /\ ~ends
                    THEN [applied EXCEPT ![obj[id].path] =
                            Append(@, <<DeviceRule(id), job[t].target>>)]
                    ELSE applied
      /\ cmd' = IF t = "ipc" /\ ends
                THEN Answered(~(at = "signal" /\ HasDeviceRule(id))) ELSE cmd

-----------------------------------------------------------------------------

AdminInit ==
  /\ Init
  /\ cmd = NoCommand
  /\ audit = [t \in Threads |-> NoEvent]
  /\ trail = [p \in Paths |-> <<>>]
  /\ begun = [p \in Paths |-> 0]
  /\ applied = [p \in Paths |-> <<>>]

Command ==
  \/ \E id \in DOMAIN obj, target \in RequestTargets : CommandByID(id, target)
  \/ \E query \in Queries, target \in RequestTargets : CommandByQuery(query, target)

AdminNext ==
  \/ (Kernel \/ Scan \/ UEvent) /\ UNCHANGED <<cmd, auditing>>
  \/ \E t \in Threads : AuditedStep(t)
  \/ Command \/ Call \/ CommandExit

AdminSpec == AdminInit /\ [][AdminNext]_adminVars

-----------------------------------------------------------------------------
(* Properties *)

\* The messages about the authorization of the device at a path
Authorizations(p) ==
  SelectSeq(trail[p], LAMBDA m : m["op"] = "changed-authorization-state-for")

\* How often x is in the sequence s
Count(s, x) == Len(SelectSeq(s, LAMBDA y : y = x))

\* When all events and requests have been processed, the audit trail has one
\* message for every call of dmApplyDevicePolicy.  For a device that is still in
\* the map each of them reports success, and they name the targets that were
\* written to sysfs, each as often as it was: a change is never missing, doubled
\* or reported as a failure (AuditEvent; comments: "If the event was not commited
\* explicitly, assume that that the result is a failure", "Otherwise the
\* destructor would try to commit it again as failed").
AuditAccounts ==
  Quiet =>
    /\ \A p \in Paths : Len(Authorizations(p)) = begun[p]
    /\ \A id \in devmap :
         LET p == obj[id].path
             mine == SelectSeq(Authorizations(p),
                               LAMBDA m : m["device_rule"] = DeviceRule(id))
             told == [n \in DOMAIN mine |-> mine[n]["target"]]
         IN  /\ \A n \in DOMAIN mine : mine[n]["result"] = 1
             /\ \A target \in Targets :
                  Count(told, target) = Count(applied[p], <<DeviceRule(id), target>>)

\* The messages about the presence of a device that report success
Presence(p) ==
  SelectSeq(trail[p], LAMBDA m :
    m["result"] = 1 /\ m["op"] # "changed-authorization-state-for")

\* When all events have been processed, the last successful message about a
\* device in the audit trail tells whether it is in the system
\* (Daemon::dmHookDeviceEvent).
AuditPresence ==
  Quiet => \A p \in Paths :
    kern[p].on <=> /\ Presence(p) # <<>>
                   /\ Last(Presence(p))["op"] # "removed-device"

\* The audit log tells what was done to devices and which of them are present
\* (Audit::policyEvent, Audit::deviceEvent and their commits in Daemon.cpp).
AuditTrue == AuditAccounts /\ AuditPresence

\* After a command that succeeded, every device that it was about, and that
\* nothing else was changing when the command began, has the target that was
\* asked for, or is gone: also if blocking a hub made a later request of the
\* command fail (usbguard_apply_device_policy, comment: "When a parent device is
\* blocked/rejected, all its child devices are removed from the device map").
CommandEffective ==
  cmd.pc = "exit" /\ cmd.status = "success" =>
    \A id \in cmd.settled :
      On(obj[id].path, obj[id].gen) =>
        obj[id].target = cmd.target /\ kern[obj[id].path].auth = cmd.target

=============================================================================
