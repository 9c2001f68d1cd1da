------------------------------- MODULE Formats -------------------------------
(***************************************************************************)
(* What crosses the borders of the program as text or bytes: rule texts,   *)
(* generated policies, USB descriptors, uevents, encoded data, the         *)
(* configuration files, the access control files and the device tree.      *)
(* Last, what "usbguard watch" passes to an executable.  None of them      *)
(* shares state with another, so a behaviour is about one.                 *)
(***************************************************************************)
EXTENDS PolicyGeneration, DeviceObject, UEvents, Codecs, ConfigText,
        AccessControlFiles, DeviceTree, SignalWatcher

VARIABLE topic   \* what a behaviour is about

Topics == {"rule", "generator", "device", "uevent", "codec", "config", "source",
           "access", "tree", "watcher"}

formatVars == <<topic, vars, generatorVars, deviceVars, ueventVars, data, configVars,
                rules, acVars, treeVars, watcherVars>>

\* The parts that do not move in a behaviour about t are as at their beginning; of
\* several beginnings one will do
Begin(t, init, fixed) == IF topic = t THEN init ELSE fixed

FormatsInit ==
  /\ topic \in Topics
  /\ Init /\ DeviceInit /\ UEventInit /\ CodecInit /\ ACInit /\ TreeInit
  /\ WatcherInit
  /\ Begin("generator", GeneratorInit, generator = [pc |-> "idle"] /\ policy = <<>>)
  /\ Begin("config", ConfigInit, configFile = <<>> /\ config = NotOpened)
  /\ Begin("source", SourceInit, rules = [source |-> "idle"])

FormatsNext ==
  /\ UNCHANGED topic
  /\ \/ /\ topic = "rule" /\ Next
        /\ UNCHANGED <<generatorVars, deviceVars, ueventVars, data, configVars, rules,
                       acVars, treeVars, watcherVars>>
     \/ /\ topic = "generator" /\ GeneratorNext
        /\ UNCHANGED <<vars, deviceVars, ueventVars, data, configVars, rules, acVars,
                       treeVars, watcherVars>>
     \/ /\ topic = "device" /\ DeviceNext
        /\ UNCHANGED <<vars, generatorVars, ueventVars, data, configVars, rules, acVars,
                       treeVars, watcherVars>>
     \/ /\ topic = "uevent" /\ UEventNext
        /\ UNCHANGED <<vars, generatorVars, deviceVars, data, configVars, rules, acVars,
                       treeVars, watcherVars>>
     \/ /\ topic = "codec" /\ CodecNext
        /\ UNCHANGED <<vars, generatorVars, deviceVars, ueventVars, configVars, rules,
                       acVars, treeVars, watcherVars>>
     \/ /\ topic = "config" /\ ConfigNext
        /\ UNCHANGED <<vars, generatorVars, deviceVars, ueventVars, data, rules, acVars,
                       treeVars, watcherVars>>
     \/ /\ topic = "source" /\ SourceNext
        /\ UNCHANGED <<vars, generatorVars, deviceVars, ueventVars, data, configVars, acVars,
                       treeVars, watcherVars>>
     \/ /\ topic = "access" /\ ACNext
        /\ UNCHANGED <<vars, generatorVars, deviceVars, ueventVars, data, configVars, rules,
                       treeVars, watcherVars>>
     \/ /\ topic = "tree" /\ TreeNext
        /\ UNCHANGED <<vars, generatorVars, deviceVars, ueventVars, data, configVars, rules,
                       acVars, watcherVars>>
     \/ /\ topic = "watcher" /\ WatcherNext
        /\ UNCHANGED <<vars, generatorVars, deviceVars, ueventVars, data, configVars, rules,
                       acVars, treeVars>>

FormatsSpec == FormatsInit /\ [][FormatsNext]_formatVars
=============================================================================
