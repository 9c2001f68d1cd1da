------------------------- MODULE PolicyRefinement -------------------------
(***************************************************************************)
(* Policy implements DurablePolicy: the rules in force are the bodies of   *)
(* the rules in _rules, the rules on disk are the rule files.              *)
(***************************************************************************)
EXTENDS Policy

BodiesOf(rules) == [k \in DOMAIN rules |-> rules[k].body]

Durable == INSTANCE DurablePolicy WITH
  RuleSets <- Sets, RuleBody <- Body,
  policy <- [i \in Sets |-> BodiesOf(rulesets[i])], kept <- files,
  answer <- reply.st

\* Every behaviour of the policy is one of a durable list: a request changes
\* one rule and keeps the order of the others, a request is acknowledged as
\* stored only when all rule files hold the policy, and a daemon that dies at
\* any point of a save comes back with the first rules of each rule set as
\* they were at some save (Daemon::appendRule, removeRule, upsertRule,
\* Policy::save, FileRuleSet::save).
PolicyIsDurable == Durable!Spec
=============================================================================
