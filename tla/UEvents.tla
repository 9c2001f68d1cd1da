------------------------------ MODULE UEvents ------------------------------
(***************************************************************************)
(* The text of a kernel uevent: a header line with the action and the      *)
(* device path, and attributes KEY=value.  The parser's actions change the *)
(* UEvent as soon as a part matches, and the result of the parse is not    *)
(* used: what follows a part that does not match is ignored.               *)
(*                                                                         *)
(* A part of the text is [key, value]; the key "" stands for a text that   *)
(* is not a key, the value "" for an empty one.  A value that is not in a  *)
(* class of characters begins with a character outside it.                 *)
(***************************************************************************)
EXTENDS Sequences, SequencesExt

CONSTANTS
  UEventKeys, UEventValues,   \* keys and values of attributes
  LowerCase, Printable,       \* the values of lower-case letters, of printable ones
  MaxAttributes               \* bound on the attributes in a text

VARIABLES
  uevent,      \* the UEvent object: the parser's state and the attributes
  ueventText   \* what was read: the header and the attributes

ueventVars == <<uevent, ueventText>>

Headers == {"ACTION", "DEVPATH"}

NewUEvent == [pc |-> "header", attrs |-> [k \in {} |-> ""]]

GetAttribute(u, k) == IF k \in DOMAIN u.attrs THEN u.attrs[k] ELSE ""

SetAttribute(u, k, v) ==
  [u EXCEPT !.attrs = [x \in DOMAIN @ \cup {k} |-> IF x = k THEN v ELSE @[x]]]

\* The rules action and devpath of the grammar and their actions.  A header that does
\* not match ends the parse, and an action before a bad path is kept.
FeedHeader(u, action, devpath) ==
  LET acted == SetAttribute(u, "ACTION", action)
  IN  CASE action \notin LowerCase -> [u EXCEPT !.pc = "ignored"]
        [] devpath \notin Printable -> [acted EXCEPT !.pc = "ignored"]
        [] OTHER -> [SetAttribute(acted, "DEVPATH", devpath) EXCEPT !.pc = "attributes"]

\* Mutation: the attributes are not compared with the header
FeedAttributeUnchecked(u, a) ==
  CASE u.pc # "attributes" -> u
    [] a.key = "" \/ a.value = "" -> [u EXCEPT !.pc = "ignored"]
    [] OTHER -> SetAttribute(u, a.key, a.value)

\* actions<attribute>
FeedUEventAttribute(u, a) ==
  CASE u.pc # "attributes" -> u
    [] a.key = "" \/ a.value = "" -> [u EXCEPT !.pc = "ignored"]
    [] /\ a.key \in Headers /\ GetAttribute(u, a.key) # ""
       /\ GetAttribute(u, a.key) # a.value -> [NewUEvent EXCEPT !.pc = "error"]
    [] OTHER -> SetAttribute(u, a.key, a.value)

\* UEvent::toString: the header line, then the attributes in any order
PrintUEvent(u) ==
  [action |-> u.attrs["ACTION"], devpath |-> u.attrs["DEVPATH"],
   attrs |-> SetToSeq({[key |-> k, value |-> u.attrs[k]] : k \in DOMAIN u.attrs})]

\* UEvent::fromString
ParseUEvent(text) ==
  FoldLeft(FeedUEventAttribute, FeedHeader(NewUEvent, text.action, text.devpath), text.attrs)

-----------------------------------------------------------------------------

\* UEvent::fromString reads the text of an event part by part
ReadHeader(action, devpath) ==
  /\ uevent.pc = "header"
  /\ uevent' = FeedHeader(uevent, action, devpath)
  /\ ueventText' = [action |-> action, devpath |-> devpath, attrs |-> <<>>]

\* parseUEventFromFile: the text of the file "uevent" in sysfs has no header
ReadAttributesOnly ==
  /\ uevent.pc = "header"
  /\ uevent' = [uevent EXCEPT !.pc = "attributes"]
  /\ UNCHANGED ueventText

ReadUEventAttribute(a) ==
  /\ uevent.pc \in {"attributes", "ignored"} /\ Len(ueventText.attrs) < MaxAttributes
  /\ uevent' = FeedUEventAttribute(uevent, a)
  /\ ueventText' = [ueventText EXCEPT !.attrs = Append(@, a)]

UEventInit ==
  /\ uevent = NewUEvent
  /\ ueventText = [action |-> "", devpath |-> "", attrs |-> <<>>]

UEventNext ==
  \/ \E a, p \in UEventValues : ReadHeader(a, p)
  \/ ReadAttributesOnly
  \/ \E k \in UEventKeys \cup {""}, v \in UEventValues :
       ReadUEventAttribute([key |-> k, value |-> v])

-----------------------------------------------------------------------------
(* Properties *)

\* An event that is not refused names the action and the device of its header,
\* whatever its attributes say.  It keeps the attributes of the text up to the first
\* part that is not KEY=value, and all of it is read back from its printed form; of
\* an event without a header this is so if its ACTION and DEVPATH could have stood in
\* one, and otherwise no more than its action is read (the grammar and actions of
\* UEventParser, UEvent::toString; comment: "Sanity check the value only if the value
\* is already assigned").
UEventTrue ==
  uevent.pc \in {"attributes", "ignored"} /\ Headers \subseteq DOMAIN uevent.attrs =>
    /\ ueventText.action # "" =>
         /\ uevent.attrs["ACTION"] = ueventText.action
         /\ uevent.attrs["DEVPATH"] = ueventText.devpath
    /\ LET again == ParseUEvent(PrintUEvent(uevent))
           fits == uevent.attrs["ACTION"] \in LowerCase /\ uevent.attrs["DEVPATH"] \in Printable
       IN  /\ ueventText.action # "" => fits
           /\ fits => again.pc = "attributes" /\ again.attrs = uevent.attrs
           /\ ~fits => again.pc = "ignored" /\ "DEVPATH" \notin DOMAIN again.attrs
    /\ \A n \in DOMAIN ueventText.attrs :
         LET whole(m) == ueventText.attrs[m].key # "" /\ ueventText.attrs[m].value # ""
         IN  (\A m \in 1 .. n : whole(m)) =>
               ueventText.attrs[n].key \in DOMAIN uevent.attrs
=============================================================================
