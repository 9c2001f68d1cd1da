----------------------------- MODULE DeviceTree -----------------------------
(***************************************************************************)
(* "usbguard list-devices --tree": the devices, in the order in which the  *)
(* daemon lists them, are put into a map by their hash, which is then      *)
(* printed depth first.  A device is [id, hash, parent].  The map has a    *)
(* node without a device for a parent that has not been seen.              *)
(***************************************************************************)
EXTENDS Naturals, Sequences, SequencesExt, FiniteSets

CONSTANTS
  Listable,     \* the devices that may be listed
  MaxPrinted    \* bound on the nodes that are printed or about to be

VARIABLES
  tree,      \* [hashes -> [dev, children]]
  listed,    \* the devices that were put into the tree
  stack,     \* the nodes that are still to be printed; the last is the next
  printed    \* the devices in the order in which they were printed

treeVars == <<tree, listed, stack, printed>>

NoDevice == [id |-> 0, hash |-> "", parent |-> ""]

Put(t, hash, node) == [h \in DOMAIN t \cup {hash} |-> IF h = hash THEN node ELSE t[h]]

\* Mutation: a node that is there keeps what it has
TreeWithKeepsNode(t, d) ==
  LET linked == IF d.parent \in DOMAIN t
                THEN [t EXCEPT ![d.parent].children = Append(@, d.hash)]
                ELSE Put(t, d.parent, [dev |-> NoDevice, children |-> <<d.hash>>])
  IN  IF d.hash \in DOMAIN linked THEN linked
      ELSE Put(linked, d.hash, [dev |-> d, children |-> <<>>])

\* One round of treeFormat.  Both nodes are looked up before either is inserted,
\* and std::map::insert keeps a node that is there.
TreeWith(t, d) ==
  LET linked == IF d.parent \in DOMAIN t
                THEN [t EXCEPT ![d.parent].children = Append(@, d.hash)]
                ELSE Put(t, d.parent, [dev |-> NoDevice, children |-> <<d.hash>>])
  IN  CASE d.hash \in DOMAIN t -> [linked EXCEPT ![d.hash].dev = d]
        [] d.hash \in DOMAIN linked -> linked
        [] OTHER -> Put(linked, d.hash, [dev |-> d, children |-> <<>>])

List(d) ==
  /\ printed = <<>> /\ stack = <<>> /\ d \notin listed
  /\ tree' = TreeWith(tree, d)
  /\ listed' = listed \cup {d}
  /\ UNCHANGED <<stack, printed>>

\* printTree: the children of the nodes without a device, in the order of the map
PrintTree ==
  /\ printed = <<>> /\ stack = <<>>
  /\ LET roots == SetToSeq({h \in DOMAIN tree : tree[h].dev = NoDevice})
     IN  stack' = Reverse(FlattenSeq([i \in DOMAIN roots |-> tree[roots[i]].children]))
  /\ UNCHANGED <<tree, listed, printed>>

\* printNode: the device of the node, then its children
PrintNode ==
  /\ stack # <<>> /\ Len(stack) + Len(printed) <= MaxPrinted
  /\ LET node == tree[stack[Len(stack)]]
     IN  /\ printed' = IF node.dev = NoDevice THEN printed ELSE Append(printed, node.dev)
         /\ stack' = Front(stack) \o Reverse(node.children)
  /\ UNCHANGED <<tree, listed>>

TreeInit == tree = <<>> /\ listed = {} /\ stack = <<>> /\ printed = <<>>

TreeNext ==
  \/ \E d \in Listable : List(d)
  \/ PrintTree
  \/ PrintNode

-----------------------------------------------------------------------------
(* Properties *)

\* The hashes of the devices that are listed tell them apart from each other and
\* from those above them
HashesTellApart ==
  /\ \A d, e \in listed : d.hash = e.hash => d = e
  /\ ~ \E S \in SUBSET listed : S # {} /\ \A d \in S : \E e \in S : d.parent = e.hash

\* If the hashes tell the devices apart, then every device that is listed is printed
\* once, after its parent if that is listed too, in whatever order the daemon
\* lists them and whichever of them it lists (treeFormat, printTree, printNode).
\* Two hubs of the same kind, one behind the other, have the same hash: their
\* node is its own child, and printNode does not return.
TreeComplete ==
  HashesTellApart /\ printed # <<>> =>
    /\ IsInjective(printed)
    /\ \A i, j \in DOMAIN printed : printed[i].hash = printed[j].parent => i < j
    /\ stack = <<>> => ToSet(printed) = listed
=============================================================================
