-------------------------- MODULE PolicyGeneration --------------------------
(***************************************************************************)
(* "usbguard generate-policy": rules that allow the devices that are       *)
(* present, printed as a rule file or as entries for an LDAP directory,    *)
(* and what the daemon loads from either.                                  *)
(***************************************************************************)
EXTENDS RuleLanguage, FiniteSets

CONSTANTS
  Catchalls,    \* targets of the rule at the end; "none" if there is to be none
  MaxPresent    \* bound on the number of devices that are present

VARIABLES
  generator,   \* the PolicyGenerator
  policy       \* the rules that the daemon loads, with the parser's verdict

generatorVars == <<generator, policy>>

GeneratorOptions ==
  [withHash : BOOLEAN, hashOnly : BOOLEAN, portSpecific : BOOLEAN,
   portSpecificNoSerial : BOOLEAN, catchall : Catchalls]

NoSerial == <<<<>>>>   \* one value, the empty string

CatchallRule(target) == [NoRule EXCEPT !.target = target]

Without(rule, attributes) ==
  [rule EXCEPT !.attrs = [a \in DOMAIN @ |-> IF a \in attributes THEN NoValues ELSE @[a]]]

\* Mutation: a rule of hashes only is without the hash of the device itself
GeneratedRuleParentOnly(d, o) ==
  LET port == o.portSpecific \/ (o.portSpecificNoSerial /\ d["serial"] = NoSerial)
      rule == DeviceRule(d, "allow", port, TRUE)
  IN  IF o.hashOnly
      THEN Without(rule, Attributes \ {"parent-hash", "via-port"})
      ELSE IF o.withHash THEN rule ELSE Without(rule, {"hash", "parent-hash"})

\* PolicyGenerator::dmHookDeviceEvent, for a device that is present
GeneratedRule(d, o) ==
  LET port == o.portSpecific \/ (o.portSpecificNoSerial /\ d["serial"] = NoSerial)
      rule == DeviceRule(d, "allow", port, TRUE)
  IN  IF o.hashOnly
      THEN Without(rule, Attributes \ {"hash", "parent-hash", "via-port"})
      ELSE IF o.withHash THEN rule ELSE Without(rule, {"hash", "parent-hash"})

-----------------------------------------------------------------------------
(* LDAP *)

\* The attributes of a rule that toLDIF writes
LDIFAttributes ==
  {"id", "serial", "name", "hash", "parent-hash", "via-port", "with-interface", "if"}

\* LDAPUtil::_rule_keys, after the three that are not attributes of a rule
RuleKeys == <<"id", "serial", "with-connect-type", "name", "hash", "parent-hash",
              "via-port", "with-interface", "if">>

\* LDAPUtil::toLDIF: the printed attribute without its name.  The order of the
\* rule, which the daemon sorts by, is not written.
ToLDIF(rule) ==
  [target |-> rule.target,
   values |-> [a \in {b \in LDIFAttributes \cap Attributes : rule.attrs[b].values # <<>>} |->
                 Tail(PrintAttribute(a, rule.attrs[a]))]]

\* LDAPHandler::ldapToRules
LDAPToRule(entry) ==
  <<Tok("target", entry.target)>> \o
  FlattenSeq([i \in DOMAIN RuleKeys |->
    IF RuleKeys[i] \notin DOMAIN entry.values THEN <<>>
    ELSE <<Tok("attribute", RuleKeys[i])>> \o entry.values[RuleKeys[i]]])

\* --name-prefix: the beginning of the names of the entries.  "Rule", the default,
\* stands for all prefixes that begin with it.
NamePrefixes == {"Rule", "Site"}

\* The default query of LDAPHandler::validateConf: an entry whose name begins with
\* "Rule" counts for the hosts that it names and with "*" for all, but not for those
\* named after a "!"
Selected(prefix, hosts, host) ==
  prefix = "Rule" /\ (host \in hosts.named \/ hosts.all) /\ host \notin hosts.excluded

\* LDAPRuleSet::load sorts by the order; entries with the same order, or all of
\* them if none has one, come as the directory and std::sort leave them
SortedBy(order, entries) ==
  {[i \in DOMAIN entries |-> entries[p[i]]] :
     p \in {q \in [DOMAIN entries -> DOMAIN entries] :
              /\ IsInjective(q)
              /\ \A i, j \in DOMAIN entries : i < j => order[q[i]] <= order[q[j]]}}

-----------------------------------------------------------------------------

\* PolicyGenerator::dmHookDeviceEvent; only devices that are present count
HookDeviceEvent(event, d) ==
  /\ generator.pc = "scan" /\ d \notin generator.seen
  /\ Cardinality(generator.seen) < MaxPresent
  /\ generator' = IF event # "present" THEN generator
                  ELSE [generator EXCEPT !.rules = Append(@, GeneratedRule(d, generator.options)),
                                         !.seen = @ \cup {d}]
  /\ UNCHANGED policy

\* The end of PolicyGenerator::generate
EndOfScan ==
  /\ generator.pc = "scan"
  /\ generator' = [generator EXCEPT !.pc = "generated",
       !.rules = IF generator.options.catchall = "none" THEN @
                 ELSE Append(@, CatchallRule(generator.options.catchall))]
  /\ UNCHANGED policy

\* RuleSet::serialize to the rule file, and FileRuleSet::load
LoadFromFile ==
  /\ generator.pc = "generated"
  /\ policy' = [i \in DOMAIN generator.rules |-> Parse(PrintRule(generator.rules[i]))]
  /\ generator' = [generator EXCEPT !.pc = "loaded"]

\* The hosts of the entries: toLDIF writes the one where the policy was generated;
\* others may be added in the directory
EntryHosts == [named : {{"here"}, {"here", "there"}}, all : BOOLEAN,
               excluded : {{}, {"there"}}]

\* LDAPUtil::serializeLDIF, the import into the directory below the base that the
\* daemon searches, with or without an order added to each entry, and
\* LDAPRuleSet::load on one of the hosts
LoadFromLDAP(prefix, ordered, hosts, host) ==
  /\ generator.pc = "generated"
  /\ LET entries == IF Selected(prefix, hosts, host)
                    THEN [i \in DOMAIN generator.rules |-> ToLDIF(generator.rules[i])]
                    ELSE <<>>
     IN  \E sorted \in SortedBy([i \in DOMAIN entries |-> IF ordered THEN i ELSE 0], entries) :
           policy' = [i \in DOMAIN entries |-> Parse(LDAPToRule(sorted[i]))]
  /\ generator' = [generator EXCEPT !.pc = IF ordered THEN "loaded" ELSE "loaded unordered",
                                    !.prefix = prefix, !.hosts = hosts, !.host = host]

GeneratorInit ==
  /\ \E o \in GeneratorOptions :
       generator = [pc |-> "scan", options |-> o, rules |-> <<>>, seen |-> {}, prefix |-> "Rule",
                    hosts |-> [named |-> {"here"}, all |-> FALSE, excluded |-> {}],
                    host |-> "here"]
  /\ policy = <<>>

GeneratorNext ==
  \/ \E event \in {"present", "insert"}, d \in Devices : HookDeviceEvent(event, d)
  \/ EndOfScan
  \/ LoadFromFile
  \/ \E prefix \in NamePrefixes, ordered \in BOOLEAN, hosts \in EntryHosts,
        host \in {"here", "there"} :
       LoadFromLDAP(prefix, ordered, hosts, host)

-----------------------------------------------------------------------------
(* Properties *)

Matching(d) ==
  {i \in DOMAIN policy : RuleAppliesTo(policy[i].rule, DeviceRule(d, "match", TRUE, TRUE), FALSE)}

\* The first rule of the policy that applies to a device
Decision(d) ==
  LET first == CHOOSE i \in Matching(d) : \A j \in Matching(d) : i <= j
  IN  IF Matching(d) = {} THEN "none" ELSE policy[first].rule.target

\* A policy that was generated is loaded without an error, from a rule file as from a
\* directory in which the entries were given an order, and on the hosts that it is
\* for it allows every device that was present, whatever options chose the form of
\* the rules.  Without an order this holds if no rule at the end blocks.  It allows
\* nothing on other hosts, nor with a --name-prefix that the default query does not
\* look for, and if rules contain hashes then a device with another hash is not
\* allowed by them (PolicyGenerator, LDAPUtil::toLDIF, LDAPHandler::validateConf and
\* ldapToRules, LDAPRuleSet::load).
GeneratedPolicyAllows ==
  LET o == generator.options
      hashes == UNION {ToSet(d["hash"]) : d \in generator.seen}
      meant == /\ generator.prefix = "Rule"
               /\ \/ generator.host = "here"
                  \/ /\ "there" \in generator.hosts.named \/ generator.hosts.all
                     /\ "there" \notin generator.hosts.excluded
  IN  generator.pc \in {"loaded", "loaded unordered"} =>
        /\ \A i \in DOMAIN policy : Accepts(policy[i])
        /\ meant /\ (generator.pc = "loaded" \/ o.catchall \in {"none", "allow"}) =>
             \A d \in generator.seen : Decision(d) = "allow"
        /\ ~meant => \A d \in Devices : Decision(d) # "allow"
        /\ (o.hashOnly \/ o.withHash) /\ o.catchall # "allow" =>
             \A d \in Devices : d["hash"][1] \notin hashes => Decision(d) # "allow"
=============================================================================
