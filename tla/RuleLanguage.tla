---------------------------- MODULE RuleLanguage ----------------------------
(***************************************************************************)
(* The rule language: the parser as a machine that is fed the tokens of a  *)
(* rule one by one, the printing of rules, and the rules that the daemon   *)
(* generates for a device.  Rules pass through their printed form whenever *)
(* they cross the IPC interface and whenever a rule file is saved.         *)
(*                                                                         *)
(* White space is left out.  A string is a sequence of the characters that *)
(* quoting tells apart: "quote", "backslash", "x", "hex" (a digit), "chr"  *)
(* (any other printable one) and "ctl" (one that is not printable).        *)
(***************************************************************************)
EXTENDS RuleMatching, SequencesExt

CONSTANTS
  Targets,          \* the targets that occur
  Attributes,       \* the attributes that occur
  TextAttributes,   \* those that occur in rule texts
  Ids, Interfaces,  \* USB device IDs and interface types in rule texts
  Literals,         \* texts between quotes in rule texts
  Conditions,       \* conditions in rule texts
  Devices,          \* devices that rules are generated for
  MaxValues         \* bound: number of values in a rule text

ASSUME AttributesAssumption ==
  /\ Targets \subseteq {"allow", "block", "reject", "match", "device"}
  /\ Attributes \subseteq ToSet(AttributeOrder) /\ TextAttributes \subseteq Attributes
  /\ MaxValues \in Nat

VARIABLES
  parser,        \* the state of the parser and the rule it is building
  generatedFor   \* the device that the rule was generated for, if it was

vars == <<parser, generatedFor>>

NoRule == [target |-> "invalid", attrs |-> [a \in Attributes |-> NoValues]]

Start == [pc |-> "start", attr |-> "none", rule |-> NoRule]

-----------------------------------------------------------------------------
(* Strings *)

\* Mutation: only quotes and unprintable characters are escaped
EscapeCharNoBackslash(c) ==
  CASE c = "quote" -> <<"backslash", "quote">>
    [] c = "ctl" -> <<"backslash", "x", "hex", "hex">>
    [] OTHER -> <<c>>

\* Utility::escapeString
EscapeChar(c) ==
  CASE c \in {"quote", "backslash"} -> <<"backslash", c>>
    [] c = "ctl" -> <<"backslash", "x", "hex", "hex">>
    [] OTHER -> <<c>>

\* Utility::quoteEscapeString, after the opening quote
Quoted(s) == FlattenSeq([i \in DOMAIN s |-> EscapeChar(s[i])]) \o <<"quote">>

\* Mutation: bytes in hexadecimal are not understood
ScanCharNoHex(s, c) ==
  CASE s.pc = "in" /\ c = "quote" -> [s EXCEPT !.pc = "end"]
    [] s.pc = "in" /\ c = "backslash" -> [s EXCEPT !.pc = "escaped"]
    [] s.pc = "in" -> [s EXCEPT !.out = Append(@, c)]
    [] s.pc = "escaped" /\ c \in {"quote", "backslash"} ->
         [s EXCEPT !.pc = "in", !.out = Append(@, c)]
    [] OTHER -> [s EXCEPT !.pc = "error"]

\* The grammar of string_value and Utility::unescapeString, which must both
\* accept the text; other escapes are in the grammar and refused afterwards
ScanChar(s, c) ==
  CASE s.pc = "in" /\ c = "quote" -> [s EXCEPT !.pc = "end"]
    [] s.pc = "in" /\ c = "backslash" -> [s EXCEPT !.pc = "escaped"]
    [] s.pc = "in" -> [s EXCEPT !.out = Append(@, c)]
    [] s.pc = "escaped" /\ c \in {"quote", "backslash"} ->
         [s EXCEPT !.pc = "in", !.out = Append(@, c)]
    [] s.pc = "escaped" /\ c = "x" -> [s EXCEPT !.pc = "byte1"]
    [] s.pc = "byte1" /\ c = "hex" -> [s EXCEPT !.pc = "byte2"]
    [] s.pc = "byte2" /\ c = "hex" -> [s EXCEPT !.pc = "in", !.out = Append(@, "ctl")]
    [] OTHER -> [s EXCEPT !.pc = "error"]

Scan(text) == FoldLeft(ScanChar, [pc |-> "in", out |-> <<>>], text)

-----------------------------------------------------------------------------
(* Values *)

\* RuleConditionBase::getImplementation: a condition is [id, param, neg], the class of
\* its object, the parameter and the negation; FixedStateCondition drops the parameter
ConditionObject(c) == [c EXCEPT !.param = IF c.id \in {"true", "false"} THEN "" ELSE @]

\* The identifier that the constructor of the class passes on and that is printed;
\* RuleEvaluatedCondition passes on that of RuleAppliedCondition
ConditionText(c) == [c EXCEPT !.id = IF @ = "rule-evaluated" THEN "rule-applied" ELSE @]

\* USBDeviceID::checkDeviceID, USBInterfaceType::USBInterfaceType, unescapeString,
\* RuleConditionBase::getImplementation
ValidValue(k, v) ==
  CASE k = "id" -> v[1] = "*" => v[2] = "*"
    [] k = "interface" -> v[2] = "*" => v[3] = "*"
    [] k = "string" -> Scan(v).pc = "end"
    [] k = "condition" -> v.id = "localtime" => v.param # ""

ParsedValue(k, v) == CASE k = "string" -> Scan(v).out
                       [] k = "condition" -> ConditionObject(v)
                       [] OTHER -> v

PrintedValue(k, v) == CASE k = "string" -> Quoted(v)
                        [] k = "condition" -> ConditionText(v)
                        [] OTHER -> v

-----------------------------------------------------------------------------
(* Parsing *)

Tok(t, v) == [t |-> t, v |-> v]

\* An exception leaves the parser without a rule
Error(p) == [Start EXCEPT !.pc = "error"]

\* rule_parser_actions<device_id>
FeedDeviceID(p, v) ==
  IF p.pc = "device" /\ ValidValue("id", v)
  THEN [p EXCEPT !.pc = "attributes", !.rule.attrs["id"].values = <<v>>]
  ELSE Error(p)

\* The actions of the attribute names refuse an attribute that has values; that
\* of the label is attached to another name and never runs
FeedAttribute(p, a) ==
  IF p.pc \in {"device", "attributes"} /\ (a = "label" \/ p.rule.attrs[a].values = <<>>)
  THEN [p EXCEPT !.pc = "value", !.attr = a]
  ELSE Error(p)

\* The actions of multiset_operator
FeedOperator(p, op) ==
  IF p.pc = "value"
  THEN [p EXCEPT !.pc = "open", !.rule.attrs[p.attr].op = op]
  ELSE Error(p)

\* The actions of the values, in braces or alone
FeedValue(p, k, v) ==
  IF p.pc \in {"value", "first", "next"} /\ k = Kind(p.attr) /\ ValidValue(k, v)
  THEN [p EXCEPT !.pc = IF @ = "value" THEN "attributes" ELSE "next",
                 !.rule.attrs[p.attr].values = Append(@, ParsedValue(k, v))]
  ELSE Error(p)

\* rule_parser_actions<comment>
FeedComment(p) ==
  CASE p.pc = "start" -> [p EXCEPT !.pc = "end", !.rule.target = "empty"]
    [] p.pc \in {"device", "attributes"} -> [p EXCEPT !.pc = "end"]
    [] OTHER -> Error(p)

\* rule_grammar
Feed(p, tok) ==
  CASE tok.t = "target" ->
         IF p.pc = "start" THEN [p EXCEPT !.pc = "device", !.rule.target = tok.v]
         ELSE Error(p)
    [] tok.t = "id" /\ p.pc = "device" -> FeedDeviceID(p, tok.v)
    [] tok.t = "attribute" -> FeedAttribute(p, tok.v)
    [] tok.t = "operator" -> FeedOperator(p, tok.v)
    [] tok.t = "{" -> IF p.pc \in {"value", "open"} THEN [p EXCEPT !.pc = "first"]
                      ELSE Error(p)
    [] tok.t = "}" -> IF p.pc = "next" THEN [p EXCEPT !.pc = "attributes"]
                      ELSE Error(p)
    [] tok.t = "comment" -> FeedComment(p)
    [] OTHER -> FeedValue(p, tok.t, tok.v)

\* May the text end here?
Accepts(p) == p.pc \in {"start", "device", "attributes", "end"}

\* parseRuleFromString
Parse(text) == FoldLeft(Feed, Start, text)

-----------------------------------------------------------------------------
(* Printing *)

\* Rule::Attribute::toRuleString
PrintAttribute(a, x) ==
  LET op == IF x.op # "equals" THEN <<Tok("operator", x.op)>> ELSE <<>>
      values == [i \in DOMAIN x.values |->
                   Tok(Kind(a), PrintedValue(Kind(a), x.values[i]))]
  IN  <<Tok("attribute", a)>> \o
      IF Len(x.values) > 1 \/ x.op # "equals"
      THEN op \o <<Tok("{", "")>> \o values \o <<Tok("}", "")>>
      ELSE values

\* RulePrivate::toString
PrintRule(r) ==
  LET printed(a) == IF a \notin Attributes \/ r.attrs[a].values = <<>> THEN <<>>
                    ELSE PrintAttribute(a, r.attrs[a])
  IN  <<Tok("target", r.target)>> \o
      FlattenSeq([i \in DOMAIN AttributeOrder |-> printed(AttributeOrder[i])])

-----------------------------------------------------------------------------
(* Device rules *)

\* DevicePrivate::getDeviceRule; a device is the values of its attributes
DeviceRule(d, target, withPort, withParent) ==
  [target |-> target,
   attrs |-> [a \in Attributes |->
     IF \/ a \in {"if", "label"}
        \/ a = "via-port" /\ ~withPort
        \/ a = "parent-hash" /\ ~withParent
     THEN NoValues
     ELSE [op |-> "equals", values |-> d[a]]]]

-----------------------------------------------------------------------------

CountValues(r) ==
  FoldLeft(LAMBDA n, a : n + IF a \in Attributes THEN Len(r.attrs[a].values) ELSE 0,
           0, AttributeOrder)

\* The next token of a rule text that a client, a rule file or the command line
\* gives to parseRuleFromString
Read(tok) ==
  /\ generatedFor = {}
  /\ parser.pc \notin {"error", "end"}
  /\ parser' = Feed(parser, tok)
  /\ UNCHANGED generatedFor

ReadMore(tok) == CountValues(parser.rule) < MaxValues /\ Read(tok)

\* Daemon::upsertDeviceRule, usbguard generate-policy: a rule is generated for
\* a device, printed, and parsed again
Generate(d, target, withPort, withParent) ==
  /\ parser = Start /\ generatedFor = {}
  /\ parser' = Parse(PrintRule(DeviceRule(d, target, withPort, withParent)))
  /\ generatedFor' = {d}

Init == parser = Start /\ generatedFor = {}

Next ==
  \/ \E v \in Targets : Read(Tok("target", v))
  \/ \E a \in TextAttributes : ReadMore(Tok("attribute", a))
  \/ \E op \in Operators : ReadMore(Tok("operator", op))
  \/ ReadMore(Tok("{", "")) \/ Read(Tok("}", "")) \/ Read(Tok("comment", ""))
  \/ \E v \in Ids : ReadMore(Tok("id", v))
  \/ \E v \in Interfaces : ReadMore(Tok("interface", v))
  \/ \E v \in Literals : ReadMore(Tok("string", v \o <<"quote">>))
  \/ \E v \in Conditions : ReadMore(Tok("condition", v))
  \/ \E d \in Devices, target \in Targets, withPort, withParent \in BOOLEAN :
       Generate(d, target, withPort, withParent)

Spec == Init /\ [][Next]_vars

-----------------------------------------------------------------------------
(* Properties *)

\* The parser is in one of its states; a part of an ID or of an interface type
\* that is not compared is never followed by one that is (the constructors of
\* USBDeviceID and USBInterfaceType).
TypeOK ==
  /\ parser.pc \in {"start", "device", "attributes", "value", "open", "first", "next",
                    "end", "error"}
  /\ parser.pc \in {"value", "open", "first", "next"} => parser.attr \in Attributes
  /\ \A a \in Attributes :
       /\ parser.rule.attrs[a].op \in Operators
       /\ Kind(a) \in {"id", "interface"} =>
            \A v \in ToSet(parser.rule.attrs[a].values), i, j \in 1 .. 3 :
              i < j /\ j \in DOMAIN v /\ v[i] = "*" => v[j] = "*"

\* The rule with rule-applied in the place of rule-evaluated
EvaluatedLost(r) ==
  LET lost(c) == IF c.id = "rule-evaluated" THEN [c EXCEPT !.id = "rule-applied"] ELSE c
  IN  [r EXCEPT !.attrs["if"].values = [i \in DOMAIN @ |-> lost(@[i])]]

\* What is printed of a rule is parsed as the same rule, whatever was written: one
\* value alone or in braces, operators, quotes and unprintable characters in strings,
\* conditions, several labels.  The one exception: a rule-evaluated condition comes
\* back as rule-applied, which asks another question; nothing else of its rule changes
\* (RulePrivate::toString, RuleSet::serialize and FileRuleSet::load;
\* RuleEvaluatedCondition.cpp:38).
RoundTrip ==
  Accepts(parser) /\ parser.rule.target \notin {"invalid", "empty"}
    => LET back == Parse(PrintRule(parser.rule))
       IN  Accepts(back) /\ back.rule = EvaluatedLost(parser.rule)

\* What usbguard-rules.conf(5) says of the operators that compare all values of a
\* device, as pairings of the values: equals pairs each value of the rule with one of
\* the device and leaves none over, equals-ordered does so in the same order, and
\* match-all finds a value of the rule for each of the device
Documented(k, op, source, target) ==
  LET pairs(f) == \A i \in DOMAIN source : IsSubsetOf(k, source[i], target[f[i]])
      ordered(f) == \A i, j \in DOMAIN source : i < j => f[i] < f[j]
      pairings == Bijection(DOMAIN source, DOMAIN target)
  IN  CASE op = "equals" -> \E f \in pairings : pairs(f)
        [] op = "equals-ordered" -> \E f \in pairings : pairs(f) /\ ordered(f)
        [] op = "match-all" ->
             \A t \in ToSet(target) : \E s \in ToSet(source) : IsSubsetOf(k, s, t)

\* No two values of the rule match the same value of the device
Separate(k, source, target) ==
  \A i, m \in DOMAIN source : i # m =>
    \A j \in DOMAIN target :
      ~(IsSubsetOf(k, source[i], target[j]) /\ IsSubsetOf(k, source[m], target[j]))

\* An attribute with equals, equals-ordered or match-all matches a device if the values
\* can be paired as the documentation says, and only then, also with "*" in the values
\* and with repeated ones.  Two cases are left out, in which the code matches more:
\* equals with values that overlap on the device matches although values of the
\* device are left over, and match-all for anything but interface types
\* (Rule::Attribute::appliesTo; usbguard-rules.conf(5), "Device Attributes").
OperatorsAsDocumented ==
  \A d \in Devices, a \in TextAttributes \ {"if", "label"} :
    LET source == parser.rule.attrs[a]
        k == Kind(a)
        applies == AttributeAppliesTo(k, source, [op |-> "equals", values |-> d[a]])
        documented == Documented(k, source.op, source.values, d[a])
    IN  \/ source.values = <<>> \/ source.op \notin {"equals", "equals-ordered", "match-all"}
        \/ source.op = "match-all" /\ k # "interface"
        \/ applies = documented
        \/ applies /\ source.op = "equals" /\ ~Separate(k, source.values, d[a])

\* A rule generated for a device is accepted when it is read back and applies to
\* that device, and a later decision about the device finds the rule, wherever
\* the device is then (DevicePrivate::getDeviceRule, Daemon::upsertDeviceRule,
\* RuleSet::upsertRule).
GeneratedRuleApplies ==
  \A d \in generatedFor :
    LET match == Parse(PrintRule(DeviceRule(d, "match", FALSE, FALSE)))
    IN  /\ Accepts(parser) /\ Accepts(match)
        /\ RuleAppliesTo(parser.rule, DeviceRule(d, "match", TRUE, TRUE), FALSE)
        /\ RuleAppliesTo(parser.rule, match.rule, TRUE)
=============================================================================
