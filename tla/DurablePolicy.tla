--------------------------- MODULE DurablePolicy ---------------------------
(***************************************************************************)
(* What the daemon promises of a policy in several rule sets that is kept  *)
(* in files: a request changes one rule and leaves all others and their    *)
(* order alone; while a request is stored, a file holds the first rules of *)
(* its rule set; a request is acknowledged as stored only when the files   *)
(* hold the policy; and a crash brings back what the files hold.           *)
(***************************************************************************)
EXTENDS Integers, Sequences

CONSTANTS
  RuleSets,   \* the rule sets
  RuleBody    \* what a rule says

VARIABLES
  policy,     \* [RuleSets -> Seq(RuleBody)]: the rules in force
  kept,       \* [RuleSets -> Seq(RuleBody)]: the rules on disk
  answer      \* of the last request: "ok", "error", or "saving" before that

vars == <<policy, kept, answer>>

Prefix(s, n) == SubSeq(s, 1, n)

Dropped(s, n) == SubSeq(s, 1, n - 1) \o SubSeq(s, n + 1, Len(s))

\* One rule more, one rule less, or another rule in the place of one
Inserted(s, t) == \E n \in 1 .. Len(t) : t[n] \in RuleBody /\ s = Dropped(t, n)

Removed(s, t) == \E n \in 1 .. Len(s) : t = Dropped(s, n)

Replaced(s, t) ==
  \E n \in (1 .. Len(s)) \cap (1 .. Len(t)) : t[n] \in RuleBody /\ t = [s EXCEPT ![n] = t[n]]

Init ==
  /\ kept \in [RuleSets -> Seq(RuleBody)]
  /\ policy = kept
  /\ answer = "ok"

\* A request that is carried out, and is stored or not
Change(i) ==
  /\ answer # "saving"
  /\ \/ Inserted(policy[i], policy'[i])
     \/ Removed(policy[i], policy'[i])
     \/ Replaced(policy[i], policy'[i])
  /\ policy' = [policy EXCEPT ![i] = policy'[i]]
  /\ answer' \in {"ok", "saving"}
  /\ UNCHANGED kept

\* A request that changes no rule, or is refused
Answer ==
  /\ answer # "saving"
  /\ answer' \in {"ok", "error"}
  /\ UNCHANGED <<policy, kept>>

Store(i) ==
  /\ answer = "saving"
  /\ \E n \in 0 .. Len(policy[i]) : kept' = [kept EXCEPT ![i] = Prefix(policy[i], n)]
  /\ UNCHANGED <<policy, answer>>

Acknowledge ==
  /\ answer = "saving" /\ kept = policy
  /\ answer' = "ok"
  /\ UNCHANGED <<policy, kept>>

GiveUp ==
  /\ answer = "saving"
  /\ answer' = "error"
  /\ UNCHANGED <<policy, kept>>

Crash ==
  /\ policy' = kept
  /\ answer' # "saving"
  /\ UNCHANGED kept

Next ==
  \/ \E i \in RuleSets : Change(i) \/ Store(i)
  \/ Answer \/ Acknowledge \/ GiveUp \/ Crash

Spec == Init /\ [][Next]_vars
=============================================================================
