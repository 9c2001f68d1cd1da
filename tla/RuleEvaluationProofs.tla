------------------------ MODULE RuleEvaluationProofs ------------------------
(***************************************************************************)
(* Proofs about the evaluation of rules, for any rules, conditions,        *)
(* devices, targets that clients ask for, times and width of the word that *)
(* holds the state of the conditions.                                      *)
(***************************************************************************)
EXTENDS RuleEvaluation, WellFoundedInduction, TLAPS

PCs == {"idle", "lock", "conditions", "found"}

Evaluation == [pc : PCs, dev : SUBSET Devices, rule : 0 .. ImplicitRule,
               bits : SUBSET (0 .. Width - 1), truth : Seq(BOOLEAN)]

\* The word holds the truth of the conditions that were evaluated.
Holds(bits, truth) ==
  /\ bits \subseteq 0 .. Len(truth) - 1
  /\ \A i \in DOMAIN truth : i - 1 \in bits <=> truth[i]

\* The device that a thread decides on is one that the rule matches.
DeviceInv(e) ==
  /\ e.pc # "idle" => \E d \in Devices : e.dev = {d}
  /\ e.pc \in {"conditions", "found"} /\ e.rule # ImplicitRule
       => e.dev \subseteq Rules[e.rule].devices

ConditionsInv(e) ==
  e.pc = "conditions" =>
    /\ e.rule \in DOMAIN Rules
    /\ Len(e.truth) <= Len(Conds(e.rule)) /\ Len(e.truth) <= Width
    /\ Holds(e.bits, e.truth)

FoundInv(e) ==
  e.pc = "found" =>
    /\ e.rule \in 1 .. ImplicitRule
    /\ e.rule # ImplicitRule /\ Len(Conds(e.rule)) < Width
         => Len(e.truth) = Len(Conds(e.rule)) /\ Documented(Rules[e.rule].op, e.truth)

EvalInv(e) == e \in Evaluation /\ DeviceInv(e) /\ ConditionsInv(e) /\ FoundInv(e)

Inv ==
  /\ target \in [Devices -> Targets \cup {"gone"}]
  /\ decided \in [Devices -> 0 .. ImplicitRule]
  /\ DOMAIN eval = Threads /\ \A t \in Threads : EvalInv(eval[t])
  /\ opMutex \subseteq Threads /\ applied \subseteq DOMAIN Rules /\ clock \in 0 .. MaxTime

-----------------------------------------------------------------------------
(* Words and rules *)

\* The rules are numbered, and the implicit rule follows them.
LEMMA RuleNumbers ==
  /\ \A r \in DOMAIN Rules : /\ r \in 1 .. ImplicitRule /\ r + 1 \in 1 .. ImplicitRule
                            /\ r # ImplicitRule
  /\ \A r \in 1 .. ImplicitRule : r \in 0 .. ImplicitRule /\ (r # ImplicitRule => r \in DOMAIN Rules)
  /\ 0 \in 0 .. ImplicitRule /\ 1 \in 1 .. ImplicitRule
<1>1. Len(Rules) \in Nat /\ DOMAIN Rules = 1 .. Len(Rules)
  BY ConstantsAssumption, Zenon
<1> QED
  BY <1>1, SMT, Z3 DEF ImplicitRule

\* So are the conditions of a rule.
LEMMA ConditionNumbers ==
  ASSUME NEW r \in DOMAIN Rules
  PROVE  Len(Conds(r)) \in Nat /\ DOMAIN Conds(r) = 1 .. Len(Conds(r))
  BY ConstantsAssumption, Zenon DEF Conds

\* No bit is set when no condition is true, all of them when all are.
LEMMA HoldsDecides ==
  ASSUME NEW truth \in Seq(BOOLEAN), NEW bits, Holds(bits, truth)
  PROVE  /\ bits = {} <=> \A i \in DOMAIN truth : ~truth[i]
         /\ bits = 0 .. Len(truth) - 1 <=> \A i \in DOMAIN truth : truth[i]
<1>1. \A b \in bits : b + 1 \in DOMAIN truth /\ (b + 1) - 1 = b
  BY SMT, Z3 DEF Holds
<1>2. bits = {} <=> \A i \in DOMAIN truth : ~truth[i]
  BY <1>1, Zenon DEF Holds
<1>3. \A i \in 0 .. Len(truth) - 1 : i + 1 \in DOMAIN truth /\ (i + 1) - 1 = i
  BY SMT, Z3
<1>4. \A i \in DOMAIN truth : i - 1 \in 0 .. Len(truth) - 1
  BY SMT, Z3
<1>5. ASSUME bits = 0 .. Len(truth) - 1
      PROVE  \A i \in DOMAIN truth : truth[i]
  BY <1>4, <1>5, Zenon DEF Holds
<1>6. ASSUME \A i \in DOMAIN truth : truth[i]
      PROVE  bits = 0 .. Len(truth) - 1
  <2>1. ASSUME NEW b \in 0 .. Len(truth) - 1
        PROVE  b \in bits
    <3>1. (b + 1) - 1 \in bits
      BY <1>3, <1>6, Zenon DEF Holds
    <3> QED
      BY <1>3, <3>1, Zenon
  <2> QED
    BY <2>1, Zenon DEF Holds
<1> QED
  BY <1>2, <1>5, <1>6, Zenon

\* Recording one more condition.
LEMMA AppendHolds ==
  ASSUME NEW truth \in Seq(BOOLEAN), NEW bits, Holds(bits, truth), NEW v \in BOOLEAN,
         NEW new, new = IF v THEN bits \cup {Len(truth)} ELSE bits
  PROVE  Holds(new, Append(truth, v))
<1> DEFINE s == Append(truth, v)
<1>1. /\ s \in Seq(BOOLEAN) /\ Len(s) = Len(truth) + 1
      /\ \A i \in DOMAIN truth : i \in DOMAIN s /\ s[i] = truth[i]
      /\ s[Len(truth) + 1] = v
  BY SMT, Z3
<1>2. new \subseteq 0 .. Len(s) - 1
  <2>1. Len(truth) \in Nat /\ bits \subseteq 0 .. Len(truth) - 1
    BY SMT, Z3 DEF Holds
  <2>2. new \subseteq bits \cup {Len(truth)}
    BY Zenon
  <2>3. Len(s) = Len(truth) + 1
    BY <1>1, Zenon
  <2>4. 0 .. Len(truth) - 1 \subseteq 0 .. Len(s) - 1 /\ Len(truth) \in 0 .. Len(s) - 1
    BY <2>1, <2>3, SMT, Z3
  <2> QED
    BY <2>1, <2>2, <2>4, Zenon
<1>3. ASSUME NEW i \in DOMAIN s
      PROVE  i - 1 \in new <=> s[i]
  <2>1. CASE i \in DOMAIN truth
    <3>1. i - 1 # Len(truth) /\ s[i] = truth[i]
      BY <1>1, <2>1, SMT, Z3
    <3> QED
      BY <2>1, <3>1, Zenon DEF Holds
  <2>2. CASE i = Len(truth) + 1
    <3>1. i - 1 = Len(truth) /\ Len(truth) \notin bits
      BY <2>2, SMT, Z3 DEF Holds
    <3> QED
      BY <1>1, <2>2, <3>1, Zenon
  <2> QED
    BY <1>1, <2>1, <2>2, SMT, Z3
<1> QED
  BY <1>2, <1>3, Zenon DEF Holds

\* With fewer conditions than bits the word is compared as it should be.
LEMMA MeetsIsDocumented ==
  ASSUME NEW r \in DOMAIN Rules, NEW truth \in Seq(BOOLEAN), NEW bits, Holds(bits, truth),
         Len(truth) = Len(Conds(r)), Len(Conds(r)) < Width,
         NEW mask \in Masks(Len(Conds(r)))
  PROVE  MeetsConditions(r, bits, mask) <=> Documented(Rules[r].op, truth)
<1>1. mask = 0 .. Len(truth) - 1
  BY DEF Masks
<1> QED
  BY <1>1, HoldsDecides, Zenon DEF MeetsConditions, Documented

\* What a condition evaluates to is true or false.
LEMMA EvaluateType ==
  ASSUME NEW r \in DOMAIN Rules, NEW i \in DOMAIN Conds(r)
  PROVE  Evaluate(Conds(r)[i]) \subseteq BOOLEAN
<1> DEFINE c == Conds(r)[i]
<1>1. c.id \in ConditionIds
  BY ConstantsAssumption, Zenon DEF Conds
<1> HIDE DEF c
<1>2. UpdateValues(c) \subseteq BOOLEAN
  BY <1>1, Zenon DEF UpdateValues, ConditionIds, AllowedMatchesUpdate, LocaltimeUpdate,
     RandomStateUpdate, FixedStateUpdate, RuleAppliedUpdate, RuleEvaluatedUpdate
<1> QED
  BY <1>2, Zenon DEF Evaluate, c

\* A set of natural numbers that is not empty has a least element.
LEMMA MinIsLeast ==
  ASSUME NEW S \in SUBSET Nat, S # {}
  PROVE  Min(S) \in S /\ \A j \in S : Min(S) <= j
<1>1. IsWellFoundedOn(OpToRel(<, Nat), Nat)
  BY NatLessThanWellFounded, Zenon
<1>2. PICK x \in S : \A y \in S : ~(<<y, x>> \in OpToRel(<, Nat))
  BY <1>1, WFMin, Zenon
<1>3. \A y \in S : ~(y < x)
  BY <1>2, Zenon DEF OpToRel
<1>4. \A y \in S : x <= y
  BY <1>3, SMT, Z3
<1> QED
  BY <1>4, Zenon DEF Min

\* The rule that is evaluated next is not an earlier one, and matches the device.
LEMMA NextRuleMatches ==
  ASSUME NEW r \in 1 .. ImplicitRule, NEW d
  PROVE  /\ NextRule(r, d) \in r .. ImplicitRule
         /\ NextRule(r, d) # ImplicitRule
              => NextRule(r, d) \in DOMAIN Rules /\ d \in Rules[NextRule(r, d)].devices
<1> DEFINE M == {i \in r .. Len(Rules) : d \in Rules[i].devices}
           S == {ImplicitRule} \cup M
<1>1. Len(Rules) \in Nat /\ DOMAIN Rules = 1 .. Len(Rules) /\ ImplicitRule = Len(Rules) + 1
  BY ConstantsAssumption, Zenon DEF ImplicitRule
<1>2. S \in SUBSET Nat /\ S # {} /\ S \subseteq r .. ImplicitRule
  BY <1>1, SMT, Z3
<1>3. Min(S) \in S
  BY <1>2, MinIsLeast, Zenon
<1>4. NextRule(r, d) = Min(S)
  BY Zenon DEF NextRule
<1>5. M \subseteq DOMAIN Rules
  BY <1>1, SMT, Z3
<1> QED
  BY <1>2, <1>3, <1>4, <1>5, Zenon

-----------------------------------------------------------------------------
(* Steps *)

\* A step of a thread changes its own evaluation only.
LEMMA ThreadStep ==
  ASSUME Inv, NEW t \in Threads, NEW e, EvalInv(e), eval' = [eval EXCEPT ![t] = e]
  PROVE  DOMAIN eval' = Threads /\ \A u \in Threads : EvalInv(eval'[u])
BY Zenon DEF Inv

\* A thread that evaluates nothing.
LEMMA IdleInv == EvalInv(Idle)
<1>1. Idle \in Evaluation
  BY ConstantsAssumption, SMT, Z3 DEF Idle, Evaluation, PCs, ImplicitRule
<1> QED
  BY <1>1, Zenon DEF EvalInv, Idle, DeviceInv, ConditionsInv, FoundInv

\* What an evaluation becomes with GotoRule.
Gone(e, r) ==
  [e EXCEPT !.pc = IF r = ImplicitRule THEN "found" ELSE "conditions",
            !.rule = r, !.bits = {}, !.truth = <<>>]

\* The search for the next rule that matches resets the conditions.
LEMMA GotoRuleInv ==
  ASSUME NEW e, EvalInv(e), e.pc # "idle", NEW d \in e.dev, NEW n \in 1 .. ImplicitRule,
         NEW r, r = NextRule(n, d)
  PROVE  EvalInv(Gone(e, r))
<1> DEFINE g == Gone(e, r)
<1>1. r \in 1 .. ImplicitRule /\ (r # ImplicitRule => r \in DOMAIN Rules /\ d \in Rules[r].devices)
  BY NextRuleMatches, ConstantsAssumption, SMT, Z3 DEF ImplicitRule
<1>2. e.dev = {d} /\ d \in Devices
  BY Zenon DEF EvalInv, DeviceInv
<1>3. e \in Evaluation
  BY Zenon DEF EvalInv
<1>4. /\ g.pc = (IF r = ImplicitRule THEN "found" ELSE "conditions") /\ g.dev = e.dev
      /\ g.rule = r /\ g.bits = {} /\ g.truth = <<>>
  BY <1>3, Zenon DEF Gone, Evaluation
<1>5. g \in Evaluation
  <2>1. r \in 0 .. ImplicitRule /\ <<>> \in Seq(BOOLEAN)
    BY <1>1, ConstantsAssumption, SMT, Z3 DEF ImplicitRule
  <2> QED
    BY <1>3, <2>1, Zenon DEF Gone, Evaluation, PCs
<1> HIDE DEF g
<1>6. DeviceInv(g)
  BY <1>1, <1>2, <1>4, Zenon DEF DeviceInv
<1>7. ConditionsInv(g)
  <2>1. Len(g.truth) = 0 /\ DOMAIN g.truth = {} /\ Holds(g.bits, g.truth)
    BY <1>4, SMT, Z3 DEF Holds
  <2>2. 0 <= Width /\ \A i \in DOMAIN Rules : 0 <= Len(Conds(i))
    BY ConstantsAssumption, SMT, Z3 DEF Conds
  <2> QED
    BY <1>1, <1>4, <2>1, <2>2, Zenon DEF ConditionsInv
<1>8. FoundInv(g)
  BY <1>1, <1>4, Zenon DEF FoundInv
<1> QED
  BY <1>5, <1>6, <1>7, <1>8, Zenon DEF EvalInv, g

\* The device that a thread decides on.
LEMMA TheDeviceType ==
  ASSUME Inv, NEW t \in Threads, eval[t].pc # "idle"
  PROVE  TheDevice(t) \in Devices /\ eval[t].dev = {TheDevice(t)}
BY Zenon DEF Inv, EvalInv, DeviceInv, TheDevice

\* GotoRule keeps the evaluations, also those of the other threads.
LEMMA GotoRuleStep ==
  ASSUME Inv, NEW t \in Threads, eval[t].pc # "idle", NEW n \in 1 .. ImplicitRule,
         GotoRule(t, NextRule(n, TheDevice(t)))
  PROVE  DOMAIN eval' = Threads /\ \A u \in Threads : EvalInv(eval'[u])
<1> DEFINE r == NextRule(n, TheDevice(t))
<1>1. EvalInv(eval[t]) /\ TheDevice(t) \in eval[t].dev
  BY TheDeviceType, Zenon DEF Inv
<1>2. EvalInv(Gone(eval[t], r))
  BY <1>1, GotoRuleInv, Zenon
<1>3. eval' = [eval EXCEPT ![t] = Gone(eval[t], r)]
  BY Zenon DEF GotoRule, Gone
<1> QED
  BY <1>2, <1>3, ThreadStep, Zenon

\* DeviceManager::insertDevice begins an evaluation.
LEMMA InsertKeeps ==
  ASSUME Inv, NEW t \in Threads, NEW d \in Devices, NEW initial \in Initial,
         Insert(t, d, initial)
  PROVE  Inv'
<1> DEFINE e == [Idle EXCEPT !.pc = "lock", !.dev = {d}]
<1>1. e \in Evaluation /\ e.pc = "lock" /\ e.dev = {d}
  <2>1. Idle \in Evaluation
    BY IdleInv, Zenon DEF EvalInv
  <2> QED
    BY <2>1, Zenon DEF Idle, Evaluation, PCs
<1> HIDE DEF e
<1>2. EvalInv(e)
  BY <1>1, Zenon DEF EvalInv, DeviceInv, ConditionsInv, FoundInv
<1>3. eval' = [eval EXCEPT ![t] = e]
  BY Zenon DEF Insert, e
<1>4. DOMAIN eval' = Threads /\ \A u \in Threads : EvalInv(eval'[u])
  BY <1>2, <1>3, ThreadStep, Zenon
<1>5. initial \in Targets
  BY ConstantsAssumption, Zenon DEF Targets
<1>6. target' \in [Devices -> Targets \cup {"gone"}]
  BY <1>5, Zenon DEF Insert, Inv
<1> QED
  BY <1>4, <1>6 DEF Insert, Inv

\* One round of the loop of RulePrivate::updateConditionsState.
LEMMA UpdateConditionKeeps ==
  ASSUME Inv, NEW t \in Threads, UpdateCondition(t)
  PROVE  Inv'
<1> DEFINE e == eval[t]
           r == e.rule
           i == Len(e.truth) + 1
<1>1. /\ e.pc = "conditions" /\ i <= Len(Conds(r)) /\ i <= Width
      /\ UNCHANGED <<target, decided, opMutex, applied, clock>>
  BY Zenon DEF UpdateCondition
<1>2. PICK v \in Evaluate(Conds(r)[i]) :
        eval' = [eval EXCEPT ![t].truth = Append(@, v),
                             ![t].bits = IF v THEN @ \cup {i - 1} ELSE @]
  BY Zenon DEF UpdateCondition
<1>3. e \in Evaluation /\ DeviceInv(e) /\ ConditionsInv(e)
  BY Zenon DEF Inv, EvalInv
<1>4. r \in DOMAIN Rules /\ e.truth \in Seq(BOOLEAN) /\ Holds(e.bits, e.truth)
  BY <1>1, <1>3, Zenon DEF ConditionsInv, Evaluation
<1>5. Len(Conds(r)) \in Nat /\ DOMAIN Conds(r) = 1 .. Len(Conds(r)) /\ Width \in Nat
  BY <1>4, ConstantsAssumption, Zenon DEF Conds
<1>6. v \in BOOLEAN
  BY <1>1, <1>2, <1>4, <1>5, EvaluateType, SMT, Z3
<1> DEFINE b == IF v THEN e.bits \cup {i - 1} ELSE e.bits
           n == [e EXCEPT !.truth = Append(@, v), !.bits = b]
<1>7. i - 1 = Len(e.truth) /\ Len(Append(e.truth, v)) = i /\ Append(e.truth, v) \in Seq(BOOLEAN)
  BY <1>4, <1>6, SMT, Z3
<1>8. Holds(b, Append(e.truth, v))
  BY <1>4, <1>6, <1>7, AppendHolds, Zenon
<1>9. b \subseteq 0 .. Width - 1
  BY <1>1, <1>5, <1>7, <1>8, SMT, Z3 DEF Holds
<1>10. /\ n \in Evaluation /\ n.pc = e.pc /\ n.dev = e.dev /\ n.rule = r
       /\ n.bits = b /\ n.truth = Append(e.truth, v)
  BY <1>3, <1>7, <1>9, Zenon DEF Evaluation
<1>11. eval' = [eval EXCEPT ![t] = n]
  BY <1>2, Zenon
<1> HIDE DEF n, b
<1>12. EvalInv(n)
  <2>1. DeviceInv(n)
    BY <1>3, <1>10, Zenon DEF DeviceInv
  <2>2. ConditionsInv(n)
    BY <1>1, <1>4, <1>7, <1>8, <1>10, Zenon DEF ConditionsInv
  <2> QED
    BY <1>1, <1>10, <2>1, <2>2, Zenon DEF EvalInv, FoundInv
<1>13. DOMAIN eval' = Threads /\ \A u \in Threads : EvalInv(eval'[u])
  BY <1>11, <1>12, ThreadStep, Zenon
<1> QED
  BY <1>1, <1>13, Zenon DEF Inv

\* The rule is taken, or the search goes on behind it.
LEMMA DecideRuleKeeps ==
  ASSUME Inv, NEW t \in Threads, DecideRule(t)
  PROVE  Inv'
<1> DEFINE e == eval[t]
           r == e.rule
<1>1. /\ e.pc = "conditions" /\ Len(e.truth) = Len(Conds(r))
      /\ UNCHANGED <<target, decided, applied, clock>> /\ opMutex' \subseteq opMutex
  BY Zenon DEF DecideRule, Release
<1>2. e \in Evaluation /\ DeviceInv(e) /\ ConditionsInv(e)
  BY Zenon DEF Inv, EvalInv
<1>3. r \in DOMAIN Rules /\ e.truth \in Seq(BOOLEAN) /\ Holds(e.bits, e.truth)
  BY <1>1, <1>2, Zenon DEF ConditionsInv, Evaluation
<1>4. r \in 1 .. ImplicitRule /\ r + 1 \in 1 .. ImplicitRule
  BY <1>3, RuleNumbers, Zenon
<1>5. PICK mask \in Masks(Len(Conds(r))) :
        \/ /\ MeetsConditions(r, e.bits, mask)
           /\ eval' = [eval EXCEPT ![t].pc = "found"]
        \/ GotoRule(t, NextRule(r + 1, TheDevice(t)))
  BY Zenon DEF DecideRule
<1>6. CASE MeetsConditions(r, e.bits, mask) /\ eval' = [eval EXCEPT ![t].pc = "found"]
  <2> DEFINE n == [e EXCEPT !.pc = "found"]
  <2>1. /\ n \in Evaluation /\ n.pc = "found" /\ n.dev = e.dev /\ n.rule = r
        /\ n.truth = e.truth
    BY <1>2, Zenon DEF Evaluation, PCs
  <2>2. eval' = [eval EXCEPT ![t] = n]
    BY <1>6
  <2> HIDE DEF n
  <2>3. FoundInv(n)
    BY <1>1, <1>3, <1>4, <1>6, <2>1, MeetsIsDocumented, Zenon DEF FoundInv
  <2>4. EvalInv(n)
    BY <1>1, <1>2, <2>1, <2>3, Zenon DEF EvalInv, DeviceInv, ConditionsInv
  <2>5. DOMAIN eval' = Threads /\ \A u \in Threads : EvalInv(eval'[u])
    BY <2>2, <2>4, ThreadStep, Zenon
  <2> QED
    BY <1>1, <2>5, Zenon DEF Inv
<1>7. CASE GotoRule(t, NextRule(r + 1, TheDevice(t)))
  <2>1. DOMAIN eval' = Threads /\ \A u \in Threads : EvalInv(eval'[u])
    BY <1>1, <1>4, <1>7, GotoRuleStep, Zenon
  <2> QED
    BY <1>1, <2>1 DEF Inv
<1> QED
  BY <1>5, <1>6, <1>7, Zenon

\* Applying a rule, and what the other threads do.
LEMMA OthersKeep ==
  ASSUME Inv,
         \/ \E t \in Threads : Apply(t) \/ TooManyConditions(t)
         \/ \E d \in Devices : Remove(d)
         \/ \E d \in Devices, tgt \in RequestTargets : Request(d, tgt)
         \/ Tick
         \/ UNCHANGED vars
  PROVE  Inv'
<1>1. ASSUME NEW t \in Threads, TooManyConditions(t)
      PROVE  Inv'
  <2>1. DOMAIN eval' = Threads /\ \A u \in Threads : EvalInv(eval'[u])
    BY <1>1, IdleInv, ThreadStep, Zenon DEF TooManyConditions
  <2> QED
    BY <1>1, <2>1, Zenon DEF Inv, TooManyConditions
<1>2. ASSUME NEW t \in Threads, Apply(t)
      PROVE  Inv'
  <2> DEFINE d == TheDevice(t)
             r == eval[t].rule
  <2>1. DOMAIN eval' = Threads /\ \A u \in Threads : EvalInv(eval'[u])
    BY <1>2, IdleInv, ThreadStep, Zenon DEF Apply
  <2>2. r \in 1 .. ImplicitRule /\ d \in Devices /\ UNCHANGED <<opMutex, clock>>
    BY <1>2, TheDeviceType, Zenon DEF Apply, Inv, EvalInv, FoundInv
  <2>3. r \in 0 .. ImplicitRule /\ (r # ImplicitRule => r \in DOMAIN Rules)
    BY <2>2, RuleNumbers, Zenon
  <2>4. TargetOf(r) \in Targets
    BY <2>3, ConstantsAssumption, Zenon DEF TargetOf, Targets
  <2>5. CASE target[d] = "gone"
    BY <1>2, <2>1, <2>2, <2>5, Zenon DEF Inv, Apply
  <2>6. CASE target[d] # "gone"
    <3>1. /\ target' = [target EXCEPT ![d] = TargetOf(r)]
          /\ decided' = [decided EXCEPT ![d] = r]
          /\ applied' = applied \cup ({r} \ {ImplicitRule})
      BY <1>2, <2>6, Zenon DEF Apply
    <3> QED
      BY <2>1, <2>2, <2>3, <2>4, <3>1, Zenon DEF Inv
  <2> QED
    BY <2>5, <2>6, Zenon
<1>3. 0 \in 0 .. ImplicitRule /\ RequestTargets \subseteq Targets
  BY ConstantsAssumption, SMT, Z3 DEF ImplicitRule, Targets
<1>4. ASSUME NEW d \in Devices, Remove(d) \/ \E tgt \in RequestTargets : Request(d, tgt)
      PROVE  Inv'
  <2>1. target' \in [Devices -> Targets \cup {"gone"}] /\ decided' \in [Devices -> 0 .. ImplicitRule]
    BY <1>3, <1>4, SMT, Z3, ZenonT(30) DEF Remove, Request, Inv
  <2> QED
    BY <1>4, <2>1, Zenon DEF Remove, Request, Inv
<1>5. ASSUME Tick
      PROVE  Inv'
  BY <1>5, ConstantsAssumption, SMT, Z3 DEF Tick, Inv
<1>6. ASSUME UNCHANGED vars
      PROVE  Inv'
  BY <1>6 DEF vars, Inv
<1> QED
  BY <1>1, <1>2, <1>4, <1>5, <1>6, Zenon

\* Before the first device.
LEMMA InitHolds == Init => Inv
<1>1. 0 \in 0 .. ImplicitRule /\ 0 \in 0 .. MaxTime
  BY ConstantsAssumption, SMT, Z3 DEF ImplicitRule
<1> QED
  BY <1>1, IdleInv, Zenon DEF Init, Inv

\* The invariant of the evaluations is inductive.
LEMMA NextKeeps == Inv /\ [Next]_vars => Inv'
<1> SUFFICES ASSUME Inv, [Next]_vars
             PROVE  Inv'
  BY Zenon
<1>1. ASSUME NEW t \in Threads, GetFirstMatchingRule(t)
      PROVE  Inv'
  <2>1. 1 \in 1 .. ImplicitRule
    BY RuleNumbers, Zenon
  <2>2. DOMAIN eval' = Threads /\ \A u \in Threads : EvalInv(eval'[u])
    BY <1>1, <2>1, GotoRuleStep, Zenon DEF GetFirstMatchingRule
  <2> QED
    BY <1>1, <2>2, Zenon DEF Inv, GetFirstMatchingRule
<1> QED
  BY <1>1, InsertKeeps, UpdateConditionKeeps, DecideRuleKeeps, OthersKeep, Zenon DEF Next

\* What every evaluation holds, at any time.
LEMMA Invariance == Spec => []Inv
BY InitHolds, NextKeeps, PTL DEF Spec

-----------------------------------------------------------------------------
(* Conditions *)

\* Only a thread itself goes on to another rule, and only if the conditions of the
\* rule that it leaves are not met.
LEMMA PassedOver ==
  ASSUME Inv, Next, NEW t \in Threads, eval[t].pc = "conditions",
         eval'[t].rule > eval[t].rule, Len(Conds(eval[t].rule)) < Width
  PROVE  ~Documented(Rules[eval[t].rule].op, eval[t].truth)
<1> DEFINE e == eval[t]
           r == e.rule
<1>1. e \in Evaluation /\ r \in Nat /\ DOMAIN eval = Threads
  BY ConstantsAssumption, SMT, Z3 DEF Inv, EvalInv, Evaluation, ImplicitRule
<1>2. r \in DOMAIN Rules /\ e.truth \in Seq(BOOLEAN) /\ Holds(e.bits, e.truth)
  BY Zenon DEF Inv, EvalInv, ConditionsInv, Evaluation
<1>3. eval'[t].rule # r
  BY <1>1, SMT, Z3
<1>4. eval' # eval /\ ~UpdateCondition(t) /\ ~TooManyConditions(t)
  <2>1. eval' # eval
    BY <1>3, Zenon
  <2>2. ASSUME UpdateCondition(t)
        PROVE  FALSE
    BY <1>1, <1>3, <2>2, SMT, Z3 DEF UpdateCondition, Evaluation
  <2>3. ASSUME TooManyConditions(t)
        PROVE  FALSE
    BY <1>1, <2>3, SMT, Z3 DEF TooManyConditions, Idle
  <2> QED
    BY <2>1, <2>2, <2>3, Zenon
<1>5. ASSUME NEW u \in Threads, u # t,
             \/ \E d \in Devices, initial \in Initial : Insert(u, d, initial)
             \/ GetFirstMatchingRule(u) \/ UpdateCondition(u) \/ TooManyConditions(u)
             \/ DecideRule(u) \/ Apply(u)
      PROVE  FALSE
  <2>1. eval'[t] = eval[t]
    BY <1>1, <1>5, Zenon DEF Insert, GetFirstMatchingRule, UpdateCondition, TooManyConditions,
       DecideRule, Apply, GotoRule
  <2> QED
    BY <1>3, <2>1, Zenon
<1>6. DecideRule(t)
  BY <1>4, <1>5, Zenon DEF Next, Insert, GetFirstMatchingRule, Apply, Remove, Request, Tick
<1>7. PICK mask \in Masks(Len(Conds(r))) :
        \/ eval' = [eval EXCEPT ![t].pc = "found"]
        \/ ~MeetsConditions(r, e.bits, mask)
  BY <1>6, Zenon DEF DecideRule
<1>8. eval' # [eval EXCEPT ![t].pc = "found"]
  BY <1>1, <1>3, Zenon DEF Evaluation
<1> QED
  BY <1>2, <1>6, <1>7, <1>8, MeetsIsDocumented, Zenon DEF DecideRule

\* The conditions of a rule with fewer conditions than bits are what decides on it
\* (RuleSet::getFirstMatchingRule, RulePrivate::meetsConditions), for any rules and
\* conditions, whatever other threads and clients do between two conditions.
THEOREM ConditionsAlwaysDecide == Spec => ConditionsDecide
<1>1. Inv' => RuleFoundHolds'
  BY Zenon DEF Inv, EvalInv, FoundInv, RuleFoundHolds
<1>2. Inv /\ Inv' /\ [Next]_vars =>
        [/\ RuleFoundHolds'
         /\ \A t \in Threads :
              /\ eval[t].pc = "conditions" /\ eval'[t].rule > eval[t].rule
              /\ Len(Conds(eval[t].rule)) < Width
              => ~Documented(Rules[eval[t].rule].op, eval[t].truth)]_vars
  BY <1>1, PassedOver, Zenon
<1> QED
  BY <1>2, Invariance, PTL DEF Spec, ConditionsDecide

-----------------------------------------------------------------------------
(* Exclusive rules *)

AllowedBy(r) == {d \in AllowedDevices(Devices) : decided[d] = r}

\* Condition i of rule r says that no device of the rule is allowed.
Excludes(r, i) ==
  /\ Conds(r)[i].id = "allowed-matches" /\ Conds(r)[i].neg = TRUE
  /\ Rules[r].devices \subseteq Conds(r)[i].devices

\* The thread has found that no device is allowed by the rule it evaluates.
FoundNone(e) ==
  e.pc \in {"conditions", "found"} /\ e.rule # ImplicitRule =>
    \A i \in DOMAIN e.truth : Excludes(e.rule, i) /\ e.truth[i] => AllowedBy(e.rule) = {}

\* The inductive invariant of OneAllowed.
ExclusiveInv ==
  /\ \A d \in Devices : target[d] = "gone" => decided[d] = 0
  /\ \A d \in Devices : decided[d] \in DOMAIN Rules => d \in Rules[decided[d]].devices
  /\ \A r \in DOMAIN Rules :
       Exclusive(r) => \A d, o \in AllowedBy(r) : d = o
  /\ FoundNone(eval["uevent"])

\* Removals and requests of clients, and a new device, give no device to a rule.
LEMMA AllowedShrinks ==
  ASSUME Inv, ExclusiveInv, NEW d \in Devices, NEW tgt, target' = [target EXCEPT ![d] = tgt],
         \/ decided' = [decided EXCEPT ![d] = 0]
         \/ decided' = decided /\ target[d] = "gone"
  PROVE  /\ \A r \in DOMAIN Rules : AllowedBy(r)' \subseteq AllowedBy(r)
         /\ \A o \in Devices : decided'[o] \in DOMAIN Rules => o \in Rules[decided'[o]].devices
         /\ tgt = "gone" => decided'[d] = 0
         /\ \A o \in Devices : o # d => target'[o] = target[o] /\ decided'[o] = decided[o]
<1>1. \A r \in DOMAIN Rules : r # 0
  BY ConstantsAssumption, SMT, Z3
<1>2. \A o \in Devices : o # d => target'[o] = target[o] /\ decided'[o] = decided[o]
  BY Zenon DEF Inv
<1>3. decided'[d] = 0
  BY Zenon DEF Inv, ExclusiveInv
<1> QED
  BY <1>1, <1>2, <1>3, Zenon DEF ExclusiveInv, AllowedBy, AllowedDevices

\* What keeps the invariant of exclusive rules: no device is given to a rule, and the
\* thread does not come to know more about the rule it evaluates.
LEMMA ShrinkKeeps ==
  ASSUME Inv, ExclusiveInv, "uevent" \in Threads,
         \A r \in DOMAIN Rules : AllowedBy(r)' \subseteq AllowedBy(r),
         \A o \in Devices : decided'[o] \in DOMAIN Rules => o \in Rules[decided'[o]].devices,
         \A o \in Devices : target'[o] = "gone" => decided'[o] = 0,
         \/ eval'["uevent"].pc \notin {"conditions", "found"}
         \/ eval'["uevent"].truth = <<>>
         \/ /\ eval["uevent"].pc \in {"conditions", "found"}
            /\ eval'["uevent"].rule = eval["uevent"].rule
            /\ eval'["uevent"].truth = eval["uevent"].truth
  PROVE  ExclusiveInv'
<1> DEFINE e == eval["uevent"]
<1>1. \A r \in DOMAIN Rules : Exclusive(r) => \A d, o \in AllowedBy(r)' : d = o
  BY Zenon DEF ExclusiveInv
<1>2. FoundNone(e)'
  <2>1. CASE e'.pc \notin {"conditions", "found"}
    BY <2>1, Zenon DEF FoundNone
  <2>2. CASE e'.truth = <<>>
    BY <2>2, SMT, Z3 DEF FoundNone
  <2>3. CASE /\ e.pc \in {"conditions", "found"}
             /\ e'.rule = e.rule /\ e'.truth = e.truth
    <3>1. e.rule # ImplicitRule => e.rule \in DOMAIN Rules
      BY <2>3, RuleNumbers, Zenon DEF Inv, EvalInv, ConditionsInv, FoundInv
    <3>2. FoundNone(e)
      BY Zenon DEF ExclusiveInv
    <3> QED
      BY <2>3, <3>1, <3>2, Zenon DEF FoundNone
  <2> QED
    BY <2>1, <2>2, <2>3, Zenon
<1> QED
  BY <1>1, <1>2, Zenon DEF ExclusiveInv, Exclusive

\* A condition that is found true now excludes that a device is allowed by the rule.
LEMMA UpdateConditionExcludes ==
  ASSUME Inv, ExclusiveInv, "uevent" \in Threads, UpdateCondition("uevent")
  PROVE  ExclusiveInv'
<1> DEFINE e == eval["uevent"]
           r == e.rule
           i == Len(e.truth) + 1
<1>1. /\ e.pc = "conditions" /\ i <= Len(Conds(r))
      /\ UNCHANGED <<target, decided, opMutex, applied, clock>>
  BY Zenon DEF UpdateCondition
<1>2. PICK v \in Evaluate(Conds(r)[i]) :
        eval' = [eval EXCEPT !["uevent"].truth = Append(@, v),
                             !["uevent"].bits = IF v THEN @ \cup {i - 1} ELSE @]
  BY Zenon DEF UpdateCondition
<1>3. e \in Evaluation /\ e.truth \in Seq(BOOLEAN) /\ r \in DOMAIN Rules /\ DOMAIN eval = Threads
  BY <1>1, Zenon DEF Inv, EvalInv, ConditionsInv, Evaluation
<1>4. e'.pc = e.pc /\ e'.rule = r /\ e'.truth = Append(e.truth, v)
  BY <1>2, <1>3, Zenon DEF Evaluation
<1>5. i \in DOMAIN Conds(r) /\ v \in BOOLEAN
  <2>1. i \in DOMAIN Conds(r)
    <3>1. Len(e.truth) \in Nat
      BY <1>3, SMT, Z3
    <3>2. i \in 1 .. Len(Conds(r))
      BY <1>1, <1>3, <3>1, ConditionNumbers, SMT, Z3
    <3> QED
      BY <1>3, <3>2, ConditionNumbers, Zenon
  <2> QED
    BY <1>2, <1>3, <2>1, EvaluateType, Zenon
<1>6. ASSUME Excludes(r, i), v = TRUE
      PROVE  AllowedBy(r) = {}
  <2> DEFINE c == Conds(r)[i]
  <2>1. UpdateValues(c) = {AllowedDevices(c.devices) # {}}
    BY <1>6, Zenon DEF Excludes, UpdateValues, AllowedMatchesUpdate
  <2>2. Evaluate(c) = {~w : w \in {AllowedDevices(c.devices) # {}}}
    BY <1>6, <2>1, Zenon DEF Excludes, Evaluate
  <2>3. AllowedDevices(c.devices) = {}
    BY <1>2, <1>6, <2>2, Zenon
  <2>4. \A d \in AllowedBy(r) : d \in Rules[r].devices /\ target[d] = "allow"
    BY <1>3, Zenon DEF AllowedBy, AllowedDevices, ExclusiveInv
  <2> QED
    BY <1>6, <2>3, <2>4, Zenon DEF Excludes, AllowedDevices
<1>7. \A q : AllowedBy(q)' = AllowedBy(q)
  BY <1>1, Zenon DEF AllowedBy, AllowedDevices
<1>8. FoundNone(e)'
  <2> SUFFICES ASSUME NEW k \in DOMAIN e'.truth, Excludes(r, k), e'.truth[k],
                      r # ImplicitRule
               PROVE  AllowedBy(r) = {}
    BY <1>4, <1>7, Zenon DEF FoundNone, Excludes
  <2>1. k \in DOMAIN e.truth \/ k = i
    BY <1>3, <1>4, <1>5, SMT, Z3
  <2>2. CASE k \in DOMAIN e.truth
    <3>1. e.truth[k]
      BY <1>3, <1>4, <1>5, <2>2, SMT, Z3
    <3>2. FoundNone(e)
      BY Zenon DEF ExclusiveInv
    <3> QED
      BY <1>1, <2>2, <3>1, <3>2, Zenon DEF FoundNone
  <2>3. CASE k = i
    <3>1. v = TRUE
      BY <1>3, <1>4, <1>5, <2>3, SMT, Z3
    <3> QED
      BY <1>6, <2>3, <3>1, Zenon
  <2> QED
    BY <2>1, <2>2, <2>3, Zenon
<1>9. \A q \in DOMAIN Rules : Exclusive(q) => \A d, o \in AllowedBy(q)' : d = o
  BY <1>7, Zenon DEF ExclusiveInv
<1> QED
  BY <1>1, <1>8, <1>9, Zenon DEF ExclusiveInv, Exclusive

\* An exclusive rule is applied only if it has allowed no device that is allowed.
LEMMA ApplyExcludes ==
  ASSUME Inv, ExclusiveInv, "uevent" \in Threads, Apply("uevent")
  PROVE  ExclusiveInv'
<1> DEFINE e == eval["uevent"]
           r == e.rule
           d == TheDevice("uevent")
<1>1. e.pc = "found" /\ eval' = [eval EXCEPT !["uevent"] = Idle] /\ DOMAIN eval = Threads
  BY Zenon DEF Apply, Inv
<1>2. FoundInv(e) /\ DeviceInv(e) /\ d \in Devices /\ e.dev = {d}
  BY <1>1, TheDeviceType, Zenon DEF Inv, EvalInv
<1>3. FoundNone(e)'
  BY <1>1, Zenon DEF FoundNone, Idle
<1>4. CASE target[d] = "gone"
  <2>1. UNCHANGED <<target, decided>>
    BY <1>4, Zenon DEF Apply
  <2>2. \A q \in DOMAIN Rules : AllowedBy(q)' = AllowedBy(q)
    BY <2>1, Zenon DEF AllowedBy, AllowedDevices
  <2>3. \A q \in DOMAIN Rules : Exclusive(q) => \A o, p \in AllowedBy(q)' : o = p
    BY <2>2, Zenon DEF ExclusiveInv
  <2> QED
    BY <1>3, <2>1, <2>3, Zenon DEF ExclusiveInv, Exclusive
<1>5. CASE target[d] # "gone"
  <2>1. target' = [target EXCEPT ![d] = TargetOf(r)] /\ decided' = [decided EXCEPT ![d] = r]
    BY <1>5, Zenon DEF Apply
  <2>2. /\ target'[d] = TargetOf(r) /\ decided'[d] = r
        /\ \A o \in Devices : o # d => target'[o] = target[o] /\ decided'[o] = decided[o]
    BY <1>2, <2>1, Zenon DEF Inv
  <2>3. r \in DOMAIN Rules => d \in Rules[r].devices
    BY <1>1, <1>2, RuleNumbers, Zenon DEF DeviceInv
  <2>4. TargetOf(r) # "gone"
    <3>1. r # ImplicitRule => r \in DOMAIN Rules
      BY <1>1, <1>2, RuleNumbers, Zenon DEF FoundInv
    <3> QED
      BY <3>1, ConstantsAssumption, Zenon DEF TargetOf, Targets
  <2>5. ASSUME NEW q \in DOMAIN Rules, Exclusive(q), q = r
        PROVE  AllowedBy(q) = {}
    <3>1. PICK i \in DOMAIN Conds(q) : Excludes(q, i)
      BY <2>5, ConstantsAssumption, Zenon DEF Exclusive, Excludes, Conds
    <3>2. Len(e.truth) = Len(Conds(q)) /\ \A k \in DOMAIN e.truth : e.truth[k]
      BY <1>1, <1>2, <2>5, RuleNumbers, Zenon DEF FoundInv, Exclusive, Documented
    <3>3. e.truth \in Seq(BOOLEAN)
      BY Zenon DEF Inv, EvalInv, Evaluation
    <3>4. i \in DOMAIN e.truth
      <4>1. DOMAIN e.truth = 1 .. Len(e.truth)
        BY <3>3, SMT, Z3
      <4> QED
        BY <3>1, <3>2, <4>1, ConditionNumbers, Zenon
    <3>5. q # ImplicitRule /\ FoundNone(e)
      BY RuleNumbers, Zenon DEF ExclusiveInv
    <3> QED
      BY <1>1, <2>5, <3>1, <3>2, <3>4, <3>5, Zenon DEF FoundNone
  <2>6. ASSUME NEW q \in DOMAIN Rules, Exclusive(q)
        PROVE  \A o, p \in AllowedBy(q)' : o = p
    <3>1. CASE q = r
      <4>1. AllowedBy(q)' \subseteq {d}
        BY <2>2, <2>5, <2>6, <3>1, Zenon DEF AllowedBy, AllowedDevices
      <4> QED
        BY <4>1, Zenon
    <3>2. CASE q # r
      <4>1. AllowedBy(q)' \subseteq AllowedBy(q)
        BY <2>2, <3>2, Zenon DEF AllowedBy, AllowedDevices
      <4> QED
        BY <2>6, <4>1, Zenon DEF ExclusiveInv
    <3> QED
      BY <3>1, <3>2, Zenon
  <2>7. /\ \A o \in Devices : target'[o] = "gone" => decided'[o] = 0
        /\ \A o \in Devices : decided'[o] \in DOMAIN Rules => o \in Rules[decided'[o]].devices
    BY <2>2, <2>3, <2>4, Zenon DEF ExclusiveInv
  <2> QED
    BY <1>3, <2>6, <2>7, Zenon DEF ExclusiveInv, Exclusive
<1> QED
  BY <1>4, <1>5, Zenon

\* One thread keeps the rules that allow one device at a time exclusive.
LEMMA NextExcludes ==
  ASSUME Inv, ExclusiveInv, [Next]_vars, Threads = {"uevent"}
  PROVE  ExclusiveInv'
<1> DEFINE e == eval["uevent"]
<1>1. "uevent" \in Threads /\ DOMAIN eval = Threads /\ e \in Evaluation
  BY Zenon DEF Inv, EvalInv
<1>2. ASSUME UNCHANGED <<target, decided>>,
             \/ eval'["uevent"].pc \notin {"conditions", "found"}
             \/ eval'["uevent"].truth = <<>>
             \/ /\ e.pc \in {"conditions", "found"}
                /\ eval'["uevent"].rule = e.rule /\ eval'["uevent"].truth = e.truth
      PROVE  ExclusiveInv'
  <2>1. \A r \in DOMAIN Rules : AllowedBy(r)' \subseteq AllowedBy(r)
    BY <1>2, Zenon DEF AllowedBy, AllowedDevices
  <2> QED
    BY <1>1, <1>2, <2>1, ShrinkKeeps, Zenon DEF ExclusiveInv
<1>3. ASSUME UNCHANGED eval
      PROVE  \/ eval'["uevent"].pc \notin {"conditions", "found"}
             \/ /\ e.pc \in {"conditions", "found"}
                /\ eval'["uevent"].rule = e.rule /\ eval'["uevent"].truth = e.truth
  BY <1>3, Zenon
<1>4. ASSUME NEW r, GotoRule("uevent", r), UNCHANGED <<target, decided>>
      PROVE  ExclusiveInv'
  <2>1. eval'["uevent"].truth = <<>>
    BY <1>1, <1>4, Zenon DEF GotoRule, Evaluation
  <2> QED
    BY <1>2, <1>4, <2>1, Zenon
<1>5. ASSUME NEW d \in Devices, NEW initial \in Initial, Insert("uevent", d, initial)
      PROVE  ExclusiveInv'
  <2>1. eval'["uevent"].pc = "lock"
    BY <1>1, <1>5, Zenon DEF Insert, Idle
  <2>2. initial # "gone" /\ target' = [target EXCEPT ![d] = initial] /\ target[d] = "gone"
        /\ decided' = decided
    BY <1>5, ConstantsAssumption, Zenon DEF Insert
  <2>3. \A o \in Devices : target'[o] = "gone" => decided'[o] = 0
    BY <2>2, Zenon DEF Inv, ExclusiveInv
  <2>4. /\ \A r \in DOMAIN Rules : AllowedBy(r)' \subseteq AllowedBy(r)
        /\ \A o \in Devices : decided'[o] \in DOMAIN Rules => o \in Rules[decided'[o]].devices
    BY <2>2, AllowedShrinks, Zenon
  <2> QED
    BY <1>1, <2>1, <2>3, <2>4, ShrinkKeeps, Zenon
<1>6. ASSUME GetFirstMatchingRule("uevent")
      PROVE  ExclusiveInv'
  BY <1>4, <1>6, Zenon DEF GetFirstMatchingRule
<1>7. ASSUME TooManyConditions("uevent")
      PROVE  ExclusiveInv'
  <2>1. eval'["uevent"].pc = "idle"
    BY <1>1, <1>7, Zenon DEF TooManyConditions, Idle
  <2> QED
    BY <1>2, <1>7, <2>1, Zenon DEF TooManyConditions
<1>8. ASSUME DecideRule("uevent")
      PROVE  ExclusiveInv'
  <2>1. CASE eval' = [eval EXCEPT !["uevent"].pc = "found"]
    <3>1. eval'["uevent"].rule = e.rule /\ eval'["uevent"].truth = e.truth
      BY <1>1, <2>1, Zenon DEF Evaluation
    <3> QED
      BY <1>2, <1>8, <3>1, Zenon DEF DecideRule
  <2>2. CASE \E r : GotoRule("uevent", r)
    BY <1>4, <1>8, <2>2, Zenon DEF DecideRule
  <2> QED
    BY <1>8, <2>1, <2>2, Zenon DEF DecideRule
<1>9. ASSUME NEW d \in Devices, NEW tgt, target' = [target EXCEPT ![d] = tgt],
             decided' = [decided EXCEPT ![d] = 0], UNCHANGED eval
      PROVE  ExclusiveInv'
  <2>1. \A o \in Devices : target'[o] = "gone" => decided'[o] = 0
    BY <1>9, Zenon DEF Inv, ExclusiveInv
  <2>2. /\ \A r \in DOMAIN Rules : AllowedBy(r)' \subseteq AllowedBy(r)
        /\ \A o \in Devices : decided'[o] \in DOMAIN Rules => o \in Rules[decided'[o]].devices
    BY <1>9, AllowedShrinks, Zenon
  <2> QED
    BY <1>1, <1>3, <1>9, <2>1, <2>2, ShrinkKeeps, Zenon
<1>10. ASSUME NEW d \in Devices, Remove(d) \/ \E tgt \in RequestTargets : Request(d, tgt)
       PROVE  ExclusiveInv'
  BY <1>9, <1>10, Zenon DEF Remove, Request
<1>11. ASSUME Tick \/ UNCHANGED vars
       PROVE  ExclusiveInv'
  BY <1>2, <1>3, <1>11, Zenon DEF Tick, vars
<1> QED
  BY <1>5, <1>6, <1>7, <1>8, <1>10, <1>11, UpdateConditionExcludes, ApplyExcludes, Zenon DEF Next

\* No device is allowed at first.
LEMMA InitExcludes ==
  ASSUME Init, Threads = {"uevent"}
  PROVE  ExclusiveInv
<1>1. AllowedDevices(Devices) = {} /\ eval["uevent"].pc = "idle" /\ \A d \in Devices : decided[d] = 0
  BY Zenon DEF Init, AllowedDevices, Idle
<1>2. 0 \notin DOMAIN Rules
  BY ConstantsAssumption, SMT, Z3
<1> QED
  BY <1>1, <1>2, Zenon DEF ExclusiveInv, FoundNone, AllowedBy

\* Facts about cardinalities
INSTANCE FiniteSetTheorems

\* If one thread evaluates, a rule that allows a device only if none of its devices is
\* allowed (example 4 of usbguard-rules.conf(5)) has allowed at most one of the devices
\* that are allowed: the devices that AllowedMatchesCondition::update saw are still the
\* ones when Daemon::dmApplyDevicePolicy applies the rule, whatever clients asked for
\* in between and however many devices, rules and conditions there are.
THEOREM OneAlwaysAllowed ==
  ASSUME Threads = {"uevent"}
  PROVE  Spec => []OneAllowed
<1>1. Init => ExclusiveInv
  BY InitExcludes, Zenon
<1>2. Inv /\ ExclusiveInv /\ [Next]_vars => ExclusiveInv'
  BY NextExcludes, Zenon
<1>3. ASSUME ExclusiveInv
      PROVE  OneAllowed
  <2> SUFFICES ASSUME NEW r \in DOMAIN Rules, Exclusive(r)
               PROVE  Cardinality(AllowedBy(r)) <= 1
    BY Zenon DEF OneAllowed, AllowedBy
  <2>1. \A d, o \in AllowedBy(r) : d = o
    BY <1>3, Zenon DEF ExclusiveInv
  <2>2. CASE AllowedBy(r) = {}
    BY <2>2, FS_EmptySet, SMT, Z3
  <2>3. CASE AllowedBy(r) # {}
    <3>1. PICK d \in AllowedBy(r) : TRUE
      BY <2>3, Zenon
    <3>2. AllowedBy(r) = {d} /\ Cardinality({d}) = 1
      BY <2>1, <3>1, FS_Singleton, Zenon
    <3> QED
      BY <3>2, SMT, Z3
  <2> QED
    BY <2>2, <2>3, Zenon
<1>4. ExclusiveInv => OneAllowed
  BY <1>3, Zenon
<1> QED
  BY <1>1, <1>2, <1>4, Invariance, PTL DEF Spec
=============================================================================
