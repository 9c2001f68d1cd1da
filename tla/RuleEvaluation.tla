--------------------------- MODULE RuleEvaluation ---------------------------
(***************************************************************************)
(* The evaluation of the rules of a rule set for a device, condition by    *)
(* condition, while IPC clients change the targets of devices and time     *)
(* passes; then the application of the rule that was found.                *)
(*                                                                         *)
(* Which devices the attributes of a rule match (module RuleMatching) is   *)
(* an attribute of the rule here, and so are the devices that the query of *)
(* an allowed-matches condition matches.  _conditions_state of a rule is   *)
(* only read after it was written under the same lock, and is a part of    *)
(* the evaluation.                                                         *)
(***************************************************************************)
EXTENDS Integers, Sequences, FiniteSets, FiniteSetsExt

CONSTANTS
  Devices,
  Rules,           \* the sequence of rules [target, devices, op, conds]
  Threads,         \* the threads that evaluate: {"uevent"}, with "main" at startup
  Initial,         \* the targets that the kernel may give to a new device
  RequestTargets,  \* the targets that IPC clients ask for
  Width,           \* the number of bits of the state of the conditions
  Day,             \* the length of a day
  MaxTime          \* bound: the time when the clock stops

Targets == {"allow", "block", "reject"}

ConditionIds == {"allowed-matches", "localtime", "random", "true", "false", "rule-applied",
                 "rule-evaluated"}

ASSUME ConstantsAssumption ==
  /\ Threads \subseteq {"main", "uevent"}
  /\ Initial \subseteq {"allow", "block"} /\ RequestTargets \subseteq {"allow", "block"}
  /\ {Width, Day, MaxTime} \subseteq Nat /\ Day > 0
  /\ Len(Rules) \in Nat /\ DOMAIN Rules = 1 .. Len(Rules)
  /\ \A r \in DOMAIN Rules :
       /\ Rules[r].target \in Targets /\ Rules[r].devices \subseteq Devices
       /\ Len(Rules[r].conds) \in Nat
       /\ DOMAIN Rules[r].conds = 1 .. Len(Rules[r].conds)
       /\ \A i \in DOMAIN Rules[r].conds :
            Rules[r].conds[i].id \in ConditionIds /\ Rules[r].conds[i].neg \in BOOLEAN

VARIABLES
  target,     \* the device map: the target of each device, or "gone"
  decided,    \* the rule that gave each device the target it has, or 0
  eval,       \* the evaluation that each thread is in
  opMutex,    \* the threads that hold the _op_mutex of the rule set
  applied,    \* the rules whose counter_applied is not 0
  clock

vars == <<target, decided, eval, opMutex, applied, clock>>

Idle == [pc |-> "idle", dev |-> {}, rule |-> 0, bits |-> {}, truth |-> <<>>]

ImplicitRule == Len(Rules) + 1

TargetOf(r) == IF r = ImplicitRule THEN "block" ELSE Rules[r].target

Conds(r) == Rules[r].conds

-----------------------------------------------------------------------------
(* Conditions *)

AllowedDevices(devices) == {d \in devices : target[d] = "allow"}

\* AllowedMatchesCondition::update, by way of Daemon::listDevices
AllowedMatchesUpdate(c) == {AllowedDevices(c.devices) # {}}

\* LocaltimeCondition::update, in UTC
LocaltimeUpdate(c) == {clock % Day >= c.begin /\ clock % Day <= c.end}

\* RandomStateCondition::update
RandomStateUpdate == BOOLEAN

\* FixedStateCondition::update
FixedStateUpdate(c) == {c.id = "true"}

\* RuleAppliedCondition::update and RuleEvaluatedCondition::update read the
\* counters of the device rule they are given, which are 0
RuleAppliedUpdate == {FALSE}
RuleEvaluatedUpdate == {FALSE}

UpdateValues(c) ==
  CASE c.id = "allowed-matches" -> AllowedMatchesUpdate(c)
    [] c.id = "localtime" -> LocaltimeUpdate(c)
    [] c.id = "random" -> RandomStateUpdate
    [] c.id \in {"true", "false"} -> FixedStateUpdate(c)
    [] c.id = "rule-applied" -> RuleAppliedUpdate
    [] c.id = "rule-evaluated" -> RuleEvaluatedUpdate

\* Mutation: a negation is forgotten
EvaluatePositive(c) == UpdateValues(c)

\* RuleConditionBase::evaluate
Evaluate(c) == IF c.neg THEN {~v : v \in UpdateValues(c)} ELSE UpdateValues(c)

\* The state of the conditions is a word, here the set of its bits that are 1.

\* (1 << n) - 1; to shift by the width of the type is undefined, and gives 1 or 0
Masks(n) == IF n < Width THEN {0 .. n - 1} ELSE {{}, 0 .. Width - 1}

\* Mutation: one-of holds whatever the state is
MeetsConditionsAnyState(r, state, mask) ==
  CASE Rules[r].op = "one-of" -> state \subseteq 0 .. Width - 1
    [] Rules[r].op = "none-of" -> state = {}
    [] OTHER -> state = mask

\* RulePrivate::meetsConditions, for one outcome of the shift
MeetsConditions(r, state, mask) ==
  CASE Rules[r].op = "one-of" -> state # {}
    [] Rules[r].op = "none-of" -> state = {}
    [] OTHER -> state = mask

-----------------------------------------------------------------------------
(* Evaluation *)

\* The first rule from r on whose attributes match the device
NextRule(r, d) ==
  Min({ImplicitRule} \cup {i \in r .. Len(Rules) : d \in Rules[i].devices})

TheDevice(t) == CHOOSE d \in eval[t].dev : TRUE

GotoRule(t, r) ==
  eval' = [eval EXCEPT ![t].pc = IF r = ImplicitRule THEN "found" ELSE "conditions",
                       ![t].rule = r, ![t].bits = {}, ![t].truth = <<>>]

Release(t, r) == opMutex' = IF r = ImplicitRule THEN opMutex \ {t} ELSE opMutex

\* A device is inserted into the map with the target that the kernel gave it,
\* and Daemon::dmHookDeviceEvent asks for its rule
Insert(t, d, initial) ==
  /\ eval[t].pc = "idle" /\ target[d] = "gone"
  /\ target' = [target EXCEPT ![d] = initial]
  /\ eval' = [eval EXCEPT ![t] = [Idle EXCEPT !.pc = "lock", !.dev = {d}]]
  /\ UNCHANGED <<decided, opMutex, applied, clock>>

\* RuleSet::getFirstMatchingRule
GetFirstMatchingRule(t) ==
  /\ eval[t].pc = "lock" /\ opMutex = {}
  /\ LET r == NextRule(1, TheDevice(t))
     IN  GotoRule(t, r) /\ opMutex' = (IF r = ImplicitRule THEN {} ELSE {t})
  /\ UNCHANGED <<target, decided, applied, clock>>

\* RulePrivate::updateConditionsState, one round of its loop
UpdateCondition(t) ==
  LET r == eval[t].rule
      i == Len(eval[t].truth) + 1
  IN  /\ eval[t].pc = "conditions" /\ i <= Len(Conds(r)) /\ i <= Width
      /\ \E v \in Evaluate(Conds(r)[i]) :
           eval' = [eval EXCEPT ![t].truth = Append(@, v),
                                ![t].bits = IF v THEN @ \cup {i - 1} ELSE @]
      /\ UNCHANGED <<target, decided, opMutex, applied, clock>>

\* The exception for more conditions than bits ends the processing of the device
TooManyConditions(t) ==
  /\ eval[t].pc = "conditions"
  /\ Len(eval[t].truth) = Width /\ Len(Conds(eval[t].rule)) > Width
  /\ eval' = [eval EXCEPT ![t] = Idle] /\ opMutex' = opMutex \ {t}
  /\ UNCHANGED <<target, decided, applied, clock>>

\* The end of RulePrivate::updateConditionsState, RulePrivate::meetsConditions and
\* the loop of RuleSet::getFirstMatchingRule
DecideRule(t) ==
  LET r == eval[t].rule
      next == NextRule(r + 1, TheDevice(t))
  IN  /\ eval[t].pc = "conditions" /\ Len(eval[t].truth) = Len(Conds(r))
      /\ \E mask \in Masks(Len(Conds(r))) :
           \/ /\ MeetsConditions(r, eval[t].bits, mask)
              /\ eval' = [eval EXCEPT ![t].pc = "found"]
              /\ opMutex' = opMutex \ {t}
           \/ /\ ~MeetsConditions(r, eval[t].bits, mask)
              /\ GotoRule(t, next) /\ Release(t, next)
      /\ UNCHANGED <<target, decided, applied, clock>>

\* Daemon::dmApplyDevicePolicy; a device that is gone is an exception
Apply(t) ==
  LET d == TheDevice(t)
      r == eval[t].rule
  IN  /\ eval[t].pc = "found"
      /\ eval' = [eval EXCEPT ![t] = Idle]
      /\ IF target[d] = "gone" THEN UNCHANGED <<target, decided, applied>>
         ELSE /\ target' = [target EXCEPT ![d] = TargetOf(r)]
              /\ decided' = [decided EXCEPT ![d] = r]
              /\ applied' = applied \cup ({r} \ {ImplicitRule})
      /\ UNCHANGED <<opMutex, clock>>

\* The uevent thread handles the removal of a device
Remove(d) ==
  /\ eval["uevent"].pc = "idle" /\ target[d] # "gone"
  /\ target' = [target EXCEPT ![d] = "gone"] /\ decided' = [decided EXCEPT ![d] = 0]
  /\ UNCHANGED <<eval, opMutex, applied, clock>>

\* Daemon::applyDevicePolicy, not permanent, for an IPC client
Request(d, tgt) ==
  /\ target[d] # "gone"
  /\ target' = [target EXCEPT ![d] = tgt] /\ decided' = [decided EXCEPT ![d] = 0]
  /\ UNCHANGED <<eval, opMutex, applied, clock>>

Tick ==
  /\ clock < MaxTime /\ clock' = clock + 1
  /\ UNCHANGED <<target, decided, eval, opMutex, applied>>

Init ==
  /\ target = [d \in Devices |-> "gone"] /\ decided = [d \in Devices |-> 0]
  /\ eval = [t \in Threads |-> Idle] /\ opMutex = {}
  /\ applied = {} /\ clock = 0

Next ==
  \/ \E t \in Threads :
       \/ \E d \in Devices, initial \in Initial : Insert(t, d, initial)
       \/ GetFirstMatchingRule(t) \/ UpdateCondition(t) \/ TooManyConditions(t)
       \/ DecideRule(t) \/ Apply(t)
  \/ \E d \in Devices : Remove(d)
  \/ \E d \in Devices, tgt \in RequestTargets : Request(d, tgt)
  \/ Tick

Spec == Init /\ [][Next]_vars

-----------------------------------------------------------------------------
(* Properties *)

\* The bits of an evaluation fit into their word, rule numbers are rules.
TypeOK ==
  /\ target \in [Devices -> Targets \cup {"gone"}]
  /\ decided \in [Devices -> 0 .. ImplicitRule]
  /\ \A t \in Threads :
       /\ eval[t].pc \in {"idle", "lock", "conditions", "found"}
       /\ eval[t].dev \subseteq Devices /\ eval[t].rule \in 0 .. ImplicitRule
       /\ eval[t].bits \subseteq 0 .. Width - 1
  /\ opMutex \subseteq Threads
  /\ applied \subseteq DOMAIN Rules /\ clock \in 0 .. MaxTime

\* The meaning of the operators in usbguard-rules.conf(5), "Conditions"
Documented(op, truth) ==
  CASE op = "one-of" -> \E i \in DOMAIN truth : truth[i]
    [] op = "none-of" -> \A i \in DOMAIN truth : ~truth[i]
    [] OTHER -> \A i \in DOMAIN truth : truth[i]

\* A rule that has fewer conditions than bits is chosen for a device only if its
\* conditions, as they were found true or false in this very evaluation, hold by
\* the documented meaning of its operator (the bits of _conditions_state).
RuleFoundHolds ==
  \A t \in Threads : LET r == eval[t].rule IN
    eval[t].pc = "found" /\ r # ImplicitRule /\ Len(Conds(r)) < Width
      => Len(eval[t].truth) = Len(Conds(r)) /\ Documented(Rules[r].op, eval[t].truth)

\* A rule that has fewer conditions than bits is chosen only if its conditions hold,
\* and passed over for a later one only if they do not: nothing else decides, and
\* nothing is left over from an earlier rule or evaluation
\* (RuleSet::getFirstMatchingRule, Rule::meetsConditions).
ConditionsDecide ==
  [][/\ RuleFoundHolds'
     /\ \A t \in Threads :
          /\ eval[t].pc = "conditions" /\ eval'[t].rule > eval[t].rule
          /\ Len(Conds(eval[t].rule)) < Width
          => ~Documented(Rules[eval[t].rule].op, eval[t].truth)]_vars

\* The devices that rule r allows only if none of them is allowed, which all its
\* conditions must say: example 4 of usbguard-rules.conf(5), "Allow a keyboard-only
\* USB device only if there isn't already a USB device with a keyboard interface
\* allowed"
Exclusive(r) ==
  /\ Rules[r].target = "allow"
  /\ Rules[r].op \notin {"one-of", "none-of"} /\ Len(Conds(r)) < Width
  /\ \E i \in DOMAIN Conds(r) :
       LET c == Conds(r)[i]
       IN  c.id = "allowed-matches" /\ c.neg /\ Rules[r].devices \subseteq c.devices

\* Such a rule has allowed at most one of the devices that are allowed, whatever
\* comes and goes and whatever clients ask for during the evaluation.  This
\* needs that only one thread evaluates.
OneAllowed ==
  \A r \in DOMAIN Rules :
    Exclusive(r) => Cardinality({d \in AllowedDevices(Devices) : decided[d] = r}) <= 1
=============================================================================
