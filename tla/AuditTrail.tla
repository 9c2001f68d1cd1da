----------------------------- MODULE AuditTrail -----------------------------
(***************************************************************************)
(* Audit events and the messages that the audit backends write.  An event  *)
(* is committed once, with its result; an event that is destroyed before   *)
(* that is committed as a failure.  The values of the keys are opaque.     *)
(***************************************************************************)
EXTENDS Integers, Sequences, TLC

\* AuditEvent::AuditEvent.  `keys' is _keys.
NewAuditEvent(keys) == [keys |-> keys, commited |-> FALSE]

\* std::map::emplace keeps a value that is there
SetKey(event, key, value) == [event EXCEPT !.keys = @ @@ (key :> value)]

\* Mutation: the source of a move is left as it is
MovedUnmarked(event) == event

\* What the move constructor leaves of its source
Moved(event) == [event EXCEPT !.commited = TRUE]

\* Policy::eventTypeToString and DeviceManager::eventTypeToString, and the
\* operation that translateTypeValue makes of the type.  Any other type raises
\* an exception.
TranslateTypeValue ==
  (<<"Policy.Device", "Update">> :> "changed-authorization-state-for") @@
  (<<"Device", "Present">> :> "discovered-device") @@
  (<<"Device", "Insert">>  :> "inserted-device") @@
  (<<"Device", "Update">>  :> "updated-device") @@
  (<<"Device", "Remove">>  :> "removed-device") @@
  (<<"Policy", "Insert">>  :> "inserted-policy-rule") @@
  (<<"Policy", "Update">>  :> "updated-policy-rule") @@
  (<<"Policy", "Remove">>  :> "removed-policy-rule")

\* The fields of a Linux Audit message, by the key that gives the value.  The
\* other keys are left out of the message.
AuditKey ==
  ("device.system_name" :> "device") @@
  ("rule" :> "rule") @@ ("rule.new" :> "rule") @@ ("rule.id" :> "rule_id") @@
  ("device.rule" :> "device_rule") @@ ("device.rule.new" :> "device_rule") @@
  ("target" :> "target") @@ ("target.new" :> "target")

\* LinuxAuditBackend::write
LinuxMessage(keys) ==
  LET used == DOMAIN keys \cap DOMAIN AuditKey
      key(field) == CHOOSE k \in used : AuditKey[k] = field
  IN  ("op" :> TranslateTypeValue[keys["type"]]) @@
      ("result" :> IF keys["result"] = "SUCCESS" THEN 1 ELSE 0) @@
      [field \in {AuditKey[k] : k \in used} |-> keys[key(field)]]

\* AuditEvent::commit: the messages that the backend gets
Commit(event, result) == <<LinuxMessage(SetKey(event, "result", result).keys)>>

Success(event) == Commit(event, "SUCCESS")
Failure(event) == Commit(event, "FAILURE")

\* AuditEvent::~AuditEvent
Destroyed(event) == IF event.commited THEN <<>> ELSE Failure(event)

\* Audit::policyEvent for a change of the target of a device
PolicyEvent(name, rule, old, new) ==
  NewAuditEvent(("type" :> <<"Policy.Device", "Update">>) @@
                ("target.old" :> old) @@ ("target.new" :> new) @@
                ("device.system_name" :> name) @@ ("device.rule" :> rule))

\* Audit::deviceEvent
DeviceAuditEvent(name, rule, type) ==
  NewAuditEvent(("type" :> <<"Device", type>>) @@
                ("device.system_name" :> name) @@ ("device.rule" :> rule))
=============================================================================
