---------------------------- MODULE RuleMatching ----------------------------
(***************************************************************************)
(* How a rule is matched against a device: the predicates on the values of *)
(* an attribute, the set operators and the comparison of all attributes.   *)
(*                                                                         *)
(* A USB device ID is a pair and an interface type a triple, in which "*"  *)
(* stands for a part that is not compared; a string is a sequence of       *)
(* characters.  A device is described by a rule, its device rule.          *)
(***************************************************************************)
EXTENDS Naturals, Sequences

\* The attributes in the order in which a rule is printed
AttributeOrder ==
  <<"id", "serial", "name", "hash", "parent-hash", "via-port",
    "with-interface", "if", "with-connect-type", "label">>

Kind(a) == CASE a = "id" -> "id"
             [] a = "with-interface" -> "interface"
             [] a = "if" -> "condition"
             [] OTHER -> "string"

\* The operators of the rule language; Rule::SetOperator::Match is not one
Operators == {"all-of", "one-of", "none-of", "equals", "equals-ordered", "match-all"}

NoValues == [op |-> "equals", values |-> <<>>]

-----------------------------------------------------------------------------
(* Predicates on values *)

\* USBDeviceID::isSubsetOf
DeviceIDIsSubset(s, t) == s[1] = "*" \/ (s[1] = t[1] /\ s[2] \in {"*", t[2]})

\* USBInterfaceType::appliesTo; a part of t that is not compared is stored as 0
InterfaceAppliesTo(s, t) ==
  \A i \in 1 .. 3 : s[i] \in {"*", IF t[i] = "*" THEN "00" ELSE t[i]}

\* Predicates::isSubsetOf and its specializations
IsSubsetOf(k, s, t) ==
  CASE k = "id" -> DeviceIDIsSubset(s, t)
    [] k = "interface" -> InterfaceAppliesTo(s, t)
    [] OTHER -> s = t

\* Predicates::isSupersetOf, which is not implemented for strings
IsSupersetOf(k, s, t) ==
  CASE k = "id" -> DeviceIDIsSubset(t, s)
    [] k = "interface" -> InterfaceAppliesTo(s, t)
    [] OTHER -> TRUE

-----------------------------------------------------------------------------
(* Set operators, from the values of a rule to those of a device *)

HasMatch(k, s, target) == \E j \in DOMAIN target : IsSubsetOf(k, s, target[j])

SetSolveAllOf(k, source, target) ==
  \A i \in DOMAIN source : HasMatch(k, source[i], target)

SetSolveOneOf(k, source, target) ==
  \E i \in DOMAIN source : HasMatch(k, source[i], target)

SetSolveNoneOf(k, source, target) ==
  \A i \in DOMAIN source : ~HasMatch(k, source[i], target)

SetSolveEquals(k, source, target) ==
  Len(source) = Len(target) /\ SetSolveAllOf(k, source, target)

\* Mutation: the order of the values is not compared
SetSolveEqualsUnordered(k, source, target) == SetSolveEquals(k, source, target)

SetSolveEqualsOrdered(k, source, target) ==
  /\ Len(source) = Len(target)
  /\ \A i \in DOMAIN source : IsSubsetOf(k, source[i], target[i])

SetSolveMatchAll(k, source, target) ==
  \A j \in DOMAIN target : \E i \in DOMAIN source : IsSupersetOf(k, source[i], target[j])

\* Rule::Attribute::appliesTo
AttributeAppliesTo(k, source, target) ==
  \/ source.values = <<>>
  \/ CASE source.op = "all-of" -> SetSolveAllOf(k, source.values, target.values)
       [] source.op = "one-of" -> SetSolveOneOf(k, source.values, target.values)
       [] source.op = "none-of" -> SetSolveNoneOf(k, source.values, target.values)
       [] source.op = "equals" -> SetSolveEquals(k, source.values, target.values)
       [] source.op = "equals-ordered" ->
            SetSolveEqualsOrdered(k, source.values, target.values)
       [] source.op = "match-all" -> SetSolveMatchAll(k, source.values, target.values)

\* RulePrivate::appliesTo; labels and conditions are not compared
RuleAppliesTo(r, s, parentInsensitive) ==
  \A a \in DOMAIN r.attrs \ {"if", "label"} :
    \/ parentInsensitive /\ a \in {"parent-hash", "via-port"}
    \/ AttributeAppliesTo(Kind(a), r.attrs[a], s.attrs[a])
=============================================================================
