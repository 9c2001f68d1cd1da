------------------------------- MODULE Policy -------------------------------
(***************************************************************************)
(* The daemon's policy: the rule sets loaded from the rule files, the      *)
(* operations that the IPC thread performs on them (appendRule,            *)
(* removeRule, applyDevicePolicy with the permanent flag), their           *)
(* evaluation for a device, and their persistence in the rule files.       *)
(*                                                                         *)
(* A rule is its ID and a body.  The attributes of the rule language are   *)
(* abstracted to what the operations tell apart: the set of devices that   *)
(* match the identifying attributes, the ports and the parent devices to   *)
(* which the rule is restricted, whether it has conditions, its target.    *)
(* An ID assignment is one step here; module IdAllocation splits it.       *)
(***************************************************************************)
EXTENDS Integers, Sequences, FiniteSets

CONSTANTS
  Devices,              \* devices, as told apart by the rule attributes
  Ports, Parents,       \* values of via-port and of parent-hash
  Bodies,               \* the rule bodies that clients append
  InitialFiles,         \* the contents that the rule files may start with
  Decisions,            \* the permanent decisions that clients ask for
  ImplicitTargets,      \* the implicit policy targets that clients set
  NumSets,              \* number of rule sets
  LastID,               \* Rule::LastID, 2^32 - 3 in the code
  RuleFile, RuleFolder, \* is the configuration option set?
  DeviceRulesWithPort,  \* the option of the same name
  WriteErrors           \* may writing to an open rule file fail?

RootID == 0
ImplicitID == LastID + 1
DefaultID == LastID + 2

Targets == {"allow", "block", "reject"}

Attached == [dev : Devices, port : Ports, parent : Parents]

Body == [devs : SUBSET Devices, ports : SUBSET Ports, parents : SUBSET Parents,
         cond : BOOLEAN, target : Targets]

Rule == [id : 1 .. LastID - 2, body : Body]

Sets == 1 .. NumSets

ASSUME ConstantsAssumption ==
  /\ NumSets \in Nat \ {0}
  /\ LastID \in Nat /\ LastID > 2
  /\ Bodies \subseteq Body
  /\ InitialFiles \subseteq [Sets -> Seq(Body)]
  /\ Decisions \subseteq Attached \X Targets
  /\ ImplicitTargets \subseteq Targets
  /\ RuleFile \in BOOLEAN /\ RuleFolder \in BOOLEAN
  /\ DeviceRulesWithPort \in BOOLEAN /\ WriteErrors \in BOOLEAN

VARIABLES
  rulesets,   \* [Sets -> Seq(Rule)]: the _rules of every rule set, in order
  idNext,     \* the static RuleSet::_id_next
  implicit,   \* the implicit policy target
  condNow,    \* do rule conditions evaluate to true at present?
  files,      \* [Sets -> Seq(Body)]: the rule files on disk
  saveSet,    \* the rule set that Policy::save has reached, 0: not saving
  saveOpen,   \* has that rule set's file been truncated and is it written?
  reply       \* the IPC operation in progress or last answered

vars == <<rulesets, idNext, implicit, condNow, files, saveSet, saveOpen,
          reply>>

NoReply == [op |-> "none", st |-> "ok", id |-> RootID]

Least(S) == CHOOSE k \in S : \A m \in S : k <= m

\* The places of rules in rule sets or in rule files, and their order
Places(f) == UNION {{i} \X DOMAIN f[i] : i \in Sets}

Before(f, i, k) == {p \in Places(f) : p[1] < i \/ (p[1] = i /\ p[2] < k)}

-----------------------------------------------------------------------------
(* Evaluation *)

\* RulePrivate::appliesToWithConditions for a device attached to the system
AppliesTo(body, a) ==
  /\ a.dev \in body.devs
  /\ a.port \in body.ports
  /\ a.parent \in body.parents
  /\ body.cond => condNow

\* RuleSet::getFirstMatchingRule
RuleSetFirst(rules, a) ==
  LET hits == {k \in DOMAIN rules : AppliesTo(rules[k].body, a)}
  IN  IF hits = {}
      THEN [id |-> ImplicitID, target |-> implicit]
      ELSE [id |-> rules[Least(hits)].id,
            target |-> rules[Least(hits)].body.target]

\* Mutation: the rule sets after the first one are not looked at
PolicyFirstOfOneSet(rs, a) == RuleSetFirst(rs[1], a)

\* Policy::getFirstMatchingRule
PolicyFirst(rs, a) ==
  LET hits == {i \in Sets : RuleSetFirst(rs[i], a).id # ImplicitID}
  IN  RuleSetFirst(rs[IF hits = {} THEN 1 ELSE Least(hits)], a)

\* Daemon::listRules without a label
ListRules ==
  [n \in 1 .. Cardinality(Places(rulesets)) |->
     LET p == CHOOSE q \in Places(rulesets) :
                Cardinality(Before(rulesets, q[1], q[2])) = n - 1
     IN  rulesets[p[1]][p[2]]]

-----------------------------------------------------------------------------
(* Editing *)

\* RuleSet::assignID: the check against the reserved IDs
\* Mutation: off by one
IdAvailableTooLong == idNext < LastID

IdAvailable == idNext + 1 < LastID

InsertAfter(rules, k, rule) ==
  [j \in 1 .. Len(rules) + 1 |->
     IF j <= k THEN rules[j] ELSE IF j = k + 1 THEN rule ELSE rules[j - 1]]

Without(rules, k) ==
  [j \in 1 .. Len(rules) - 1 |-> IF j < k THEN rules[j] ELSE rules[j + 1]]

PositionsOf(rules, id) == {k \in DOMAIN rules : rules[k].id = id}

SetsWith(id) == {i \in Sets : PositionsOf(rulesets[i], id) # {}}

\* Policy::appendRule: where a rule goes.  LastID is the end of the last rule
\* set; another parent ID is looked up in every rule set.
HasPlace(parent) == parent = LastID \/ SetsWith(parent) # {}

PlaceSet(parent) == IF parent = LastID THEN NumSets ELSE Least(SetsWith(parent))

PlaceAfter(parent) ==
  IF parent = LastID THEN Len(rulesets[NumSets])
  ELSE Least(PositionsOf(rulesets[PlaceSet(parent)], parent))

\* RuleSet::upsertRule compares without port, parent and conditions
\* Mutation: a rule whose conditions are not met is passed over
UpsertHitsIfMet(i, d) ==
  {k \in DOMAIN rulesets[i] : d \in rulesets[i][k].body.devs
                               /\ (rulesets[i][k].body.cond => condNow)}

UpsertHits(i, d) == {k \in DOMAIN rulesets[i] : d \in rulesets[i][k].body.devs}

SetsHit(d) == {i \in Sets : UpsertHits(i, d) # {}}

\* Daemon::upsertDeviceRule: an allow rule is bound to the parent device, and
\* to the port if so configured; block and reject rules are not.
DeviceBody(a, target) ==
  [devs    |-> {a.dev},
   ports   |-> IF target = "allow" /\ DeviceRulesWithPort THEN {a.port} ELSE Ports,
   parents |-> IF target = "allow" THEN {a.parent} ELSE Parents,
   cond    |-> FALSE,
   target  |-> target]

-----------------------------------------------------------------------------
(* IPC operations *)

Idle == saveSet = 0

\* Mutation: only the last rule set is written
BeginSaveLast(r, wanted) ==
  /\ saveSet' = IF wanted THEN NumSets ELSE 0
  /\ saveOpen' = FALSE
  /\ reply' = [r EXCEPT !.st = IF wanted THEN "saving" ELSE "ok"]

\* Policy::save writes the rule sets one after the other
BeginSave(r, wanted) ==
  /\ saveSet' = IF wanted THEN 1 ELSE 0
  /\ saveOpen' = FALSE
  /\ reply' = [r EXCEPT !.st = IF wanted THEN "saving" ELSE "ok"]

Fail(r) ==
  /\ reply' = [r EXCEPT !.st = "error"]
  /\ UNCHANGED <<rulesets, saveSet, saveOpen>>

Env == UNCHANGED <<implicit, condNow, files>>

\* Daemon::appendRule.  The ID is consumed before the conditions of the new
\* rule are initialised, which may fail.
AppendRule(body, parent, permanent) ==
  LET r == [op |-> "append", st |-> "ok", id |-> idNext]
  IN  /\ Idle
      /\ Env
      /\ \/ /\ HasPlace(parent) /\ IdAvailable
            /\ rulesets' = [rulesets EXCEPT ![PlaceSet(parent)] =
                 InsertAfter(@, PlaceAfter(parent), [id |-> idNext, body |-> body])]
            /\ idNext' = idNext + 1
            /\ BeginSave(r, permanent /\ (RuleFile \/ RuleFolder))
         \/ /\ HasPlace(parent) /\ IdAvailable /\ body.cond
            /\ idNext' = idNext + 1
            /\ Fail(r)
         \/ /\ ~(HasPlace(parent) /\ IdAvailable)
            /\ idNext' = idNext
            /\ Fail(r)

\* Daemon::removeRule
RemoveRule(id) ==
  LET r == [op |-> "remove", st |-> "ok", id |-> id]
      i == Least(SetsWith(id))
  IN  /\ Idle
      /\ Env
      /\ UNCHANGED idNext
      /\ \/ /\ SetsWith(id) # {}
            /\ rulesets' = [rulesets EXCEPT ![i] =
                              Without(@, Least(PositionsOf(@, id)))]
            /\ BeginSave(r, RuleFile \/ RuleFolder)
         \/ /\ SetsWith(id) = {}
            /\ Fail(r)

\* Daemon::applyDevicePolicy with permanent = true, up to the answer: update
\* the only rule for the device in the first rule set that has one, or append
UpsertDeviceRule(a, target) ==
  LET body == DeviceBody(a, target)
      hit == SetsHit(a.dev)
      i == Least(hit)
      k == Least(UpsertHits(i, a.dev))
      r(id) == [op |-> "upsert", st |-> "ok", id |-> id,
                att |-> a, target |-> target]
  IN  /\ Idle
      /\ Env
      /\ \/ /\ hit # {} /\ UpsertHits(i, a.dev) = {k}
            /\ rulesets' = [rulesets EXCEPT ![i][k].body = body]
            /\ UNCHANGED idNext
            /\ BeginSave(r(rulesets[i][k].id), RuleFile)
         \/ /\ hit = {} /\ IdAvailable
            /\ rulesets' = [rulesets EXCEPT ![NumSets] =
                              Append(@, [id |-> idNext, body |-> body])]
            /\ idNext' = idNext + 1
            /\ BeginSave(r(idNext), RuleFile)
         \/ /\ IF hit = {} THEN ~IdAvailable ELSE UpsertHits(i, a.dev) # {k}
            /\ UNCHANGED idNext
            /\ Fail(r(DefaultID))

\* Daemon::setParameter, setImplicitPolicyTarget
SetImplicitPolicyTarget(target) ==
  /\ Idle
  /\ implicit' = target
  /\ reply' = NoReply
  /\ UNCHANGED <<rulesets, idNext, condNow, files, saveSet, saveOpen>>

-----------------------------------------------------------------------------
(* FileRuleSet::save: truncate the file, then write one rule per line *)

SaveOpen ==
  /\ saveSet # 0 /\ ~saveOpen
  /\ files' = [files EXCEPT ![saveSet] = <<>>]
  /\ saveOpen' = TRUE
  /\ UNCHANGED <<rulesets, idNext, implicit, condNow, saveSet, reply>>

SaveOpenFails ==
  /\ saveSet # 0 /\ ~saveOpen
  /\ saveSet' = 0
  /\ reply' = [reply EXCEPT !.st = "error"]
  /\ UNCHANGED <<rulesets, idNext, implicit, condNow, files, saveOpen>>

Written == Len(files[saveSet])

SaveLine ==
  /\ saveSet # 0 /\ saveOpen
  /\ Written < Len(rulesets[saveSet])
  /\ files' = [files EXCEPT ![saveSet] =
                 Append(@, rulesets[saveSet][Written + 1].body)]
  /\ UNCHANGED <<rulesets, idNext, implicit, condNow, saveSet, saveOpen, reply>>

\* The state of the stream is not looked at: a failed write ends the file early
SaveClose ==
  /\ saveSet # 0 /\ saveOpen
  /\ Written = Len(rulesets[saveSet]) \/ WriteErrors
  /\ saveOpen' = FALSE
  /\ saveSet' = IF saveSet = NumSets THEN 0 ELSE saveSet + 1
  /\ reply' = IF saveSet = NumSets THEN [reply EXCEPT !.st = "ok"] ELSE reply
  /\ UNCHANGED <<rulesets, idNext, implicit, condNow, files>>

-----------------------------------------------------------------------------
(* Start, and everything that is not an IPC operation *)

\* Mutation: a rule set is constructed just before it is loaded
LoadedRulesResetPerSet ==
  [i \in Sets |-> [k \in DOMAIN files[i] |-> [id |-> k, body |-> files[i][k]]]]

\* Daemon::loadRules: the rule sets are constructed, which resets _id_next,
\* and then loaded in order, every rule taking the next ID
LoadedRules ==
  [i \in Sets |-> [k \in DOMAIN files[i] |->
     [id |-> Cardinality(Before(files, i, k)) + 1, body |-> files[i][k]]]]

LoadSucceeds == Cardinality(Places(files)) < LastID - 1

\* The daemon dies, in the middle of anything, and is started again
Restart ==
  /\ LoadSucceeds
  /\ rulesets' = LoadedRules
  /\ idNext' = Cardinality(Places(files)) + 1
  /\ implicit' = "block"
  /\ saveSet' = 0 /\ saveOpen' = FALSE
  /\ reply' = IF Idle THEN reply ELSE NoReply
  /\ UNCHANGED <<condNow, files>>

\* Daemon::dmHookAssignID, on the device manager's thread
AssignDeviceID ==
  /\ IdAvailable
  /\ idNext' = idNext + 1
  /\ UNCHANGED <<rulesets, implicit, condNow, files, saveSet, saveOpen, reply>>

\* Time passes, devices come and go: the conditions of the rules change
ConditionsChange ==
  /\ condNow' = ~condNow
  /\ UNCHANGED <<rulesets, idNext, implicit, files, saveSet, saveOpen, reply>>

Init ==
  /\ files \in InitialFiles
  /\ LoadSucceeds
  /\ rulesets = LoadedRules
  /\ idNext = Cardinality(Places(files)) + 1
  /\ implicit = "block"
  /\ condNow \in BOOLEAN
  /\ saveSet = 0 /\ saveOpen = FALSE
  /\ reply = NoReply

Next ==
  \/ \E body \in Bodies, parent \in 0 .. LastID, permanent \in BOOLEAN :
       AppendRule(body, parent, permanent)
  \/ \E id \in 0 .. LastID : RemoveRule(id)
  \/ \E d \in Decisions : UpsertDeviceRule(d[1], d[2])
  \/ \E target \in ImplicitTargets : SetImplicitPolicyTarget(target)
  \/ SaveOpen
  \/ SaveOpenFails
  \/ SaveLine
  \/ SaveClose
  \/ Restart
  \/ AssignDeviceID
  \/ ConditionsChange

Spec == Init /\ [][Next]_vars

-----------------------------------------------------------------------------
(* Properties *)

Replies ==
  [op : {"none", "append", "remove"}, st : {"ok", "error", "saving"}, id : Nat]
    \cup [op : {"upsert"}, st : {"ok", "error", "saving"}, id : Nat,
          att : Attached, target : Targets]

\* The variables hold values of the types the code gives them; every ID of a
\* rule is below the reserved values LastID, ImplicitID and DefaultID.
TypeOK ==
  /\ rulesets \in [Sets -> Seq(Rule)]
  /\ idNext \in 1 .. LastID - 1
  /\ implicit \in Targets
  /\ condNow \in BOOLEAN
  /\ files \in [Sets -> Seq(Body)]
  /\ saveSet \in 0 .. NumSets
  /\ saveOpen \in BOOLEAN
  /\ reply \in Replies

\* No two rules of the policy have the same ID, across all rule sets, edits,
\* crashes and reloads, so that getRule and removeRule are unambiguous
\* (RuleSet::assignID and the comment in RuleSet::appendRule).
RuleIdsUnique ==
  \A i, j \in Sets : \A k \in DOMAIN rulesets[i], m \in DOMAIN rulesets[j] :
    rulesets[i][k].id = rulesets[j][m].id => i = j /\ k = m

\* An acknowledged permanent decision is what the policy says of the device
\* until another request changes the policy, also if the daemon dies and is
\* restarted and whatever the conditions of the other rules evaluate to
\* (Daemon::applyDevicePolicy; Interface.hpp: "permanently store the
\* authorization decision").
DecisionHolds ==
  reply.op = "upsert" /\ reply.st = "ok"
    => PolicyFirst(rulesets, reply.att).target = reply.target

\* The rule that decides about a device is the first one in the listing that
\* applies to it, and the implicit rule is used only if none does, although
\* rule sets are evaluated separately, each with an implicit rule of its own
\* (Policy::getFirstMatchingRule; Interface.hpp: "The rules are returned in
\* the same order as they are evaluated").
EvaluationFollowsListing ==
  \A a \in Attached :
    LET hits == {n \in DOMAIN ListRules : AppliesTo(ListRules[n].body, a)}
    IN  PolicyFirst(rulesets, a) =
          IF hits = {} THEN [id |-> ImplicitID, target |-> implicit]
          ELSE [id |-> ListRules[Least(hits)].id,
                target |-> ListRules[Least(hits)].body.target]

\* Whatever the daemon was doing when it died, and whatever writes had failed,
\* the rule files never hold more rules than there are IDs for the next start
\* (RuleSet::assignID throws at its limit and loadRules passes that on).
RestartLoads == LoadSucceeds
=============================================================================
