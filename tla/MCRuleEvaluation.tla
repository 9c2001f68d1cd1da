-------------------------- MODULE MCRuleEvaluation --------------------------
(***************************************************************************)
(* Instance of RuleEvaluation: two keyboards under the rule of example 4   *)
(* of usbguard-rules.conf(5) and a disk, rules with every operator, one    *)
(* with as many and one with more conditions than bits.                    *)
(***************************************************************************)
EXTENDS RuleEvaluation

Keyboards == {"kbd1", "kbd2"}

Cond(id, neg) == [id |-> id, neg |-> neg]
AllowedMatches(devices, neg) == [id |-> "allowed-matches", neg |-> neg, devices |-> devices]
Localtime(begin, end, neg) == [id |-> "localtime", neg |-> neg, begin |-> begin, end |-> end]
Rule(tgt, devices, op, conds) == [target |-> tgt, devices |-> devices, op |-> op, conds |-> conds]

MCDevices == Keyboards \cup {"disk"}

MCRules ==
  <<Rule("allow", Keyboards, "equals", <<AllowedMatches(Keyboards, TRUE)>>),
    Rule("allow", {"disk"}, "one-of", <<Localtime(1, 1, FALSE), Cond("random", TRUE)>>),
    Rule("reject", Keyboards, "none-of", <<AllowedMatches({"disk"}, FALSE), Localtime(0, 0, TRUE)>>),
    Rule("block", MCDevices, "all-of", <<Cond("rule-applied", TRUE), Localtime(0, 1, FALSE),
                                            Cond("random", FALSE)>>),
    Rule("block", {"disk"}, "all-of", <<Cond("true", FALSE), Cond("false", TRUE),
                                          Cond("rule-evaluated", TRUE), Cond("true", FALSE)>>)>>
=============================================================================
