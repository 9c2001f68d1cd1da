--------------------------- MODULE SignalWatcher ---------------------------
(***************************************************************************)
(* "usbguard watch --exec": for every event an executable is started, with *)
(* the event in its environment.  The main thread connects and reports the *)
(* connection while the client thread already reports the signals that     *)
(* arrive, until it reports the end of the connection.  Either thread      *)
(* forks an intermediary process and waits for it; the intermediary forks  *)
(* the process that becomes the executable, at any time later and without  *)
(* anybody waiting for it or noticing that fexecve fails.                  *)
(*                                                                         *)
(* The arguments of a signal are one value.  Module Services has the rest  *)
(* of the command: what it does while there is no daemon.                  *)
(***************************************************************************)
EXTENDS Naturals, Sequences, FiniteSets, Functions

CONSTANTS
  SignalValues,      \* arguments of signals
  Inherited,         \* the environment of the command: <<name, value>> pairs
  MaxConnections,    \* bound on the number of connections
  MaxCalls           \* bound on the number of signals that are reported

VARIABLES
  executable,   \* is _exec_path_fd open?
  reporter,     \* what each of the two threads is doing
  started,      \* the calls whose process an intermediary has forked, in their order
  tally         \* connections, events reported, and those without a process

watcherVars == <<executable, reporter, started, tally>>

IPCSignal == "USBGUARD_IPC_SIGNAL"

\* The variables that a handler sets, besides the name of the signal
Variables(signal) ==
  CASE signal = "IPC.Connected"    -> <<>>
    [] signal = "IPC.Disconnected" -> <<"USBGUARD_MESSAGE">>
    [] signal = "Device.PresenceChanged" ->
         <<"USBGUARD_DEVICE_ID", "USBGUARD_DEVICE_EVENT", "USBGUARD_DEVICE_TARGET",
          "USBGUARD_DEVICE_RULE">>
    [] signal = "Device.PolicyChanged" ->
         <<"USBGUARD_DEVICE_ID", "USBGUARD_DEVICE_TARGET_OLD", "USBGUARD_DEVICE_TARGET_NEW",
          "USBGUARD_DEVICE_RULE", "USBGUARD_DEVICE_RULE_ID">>
    [] signal = "Device.PolicyApplied" ->
         <<"USBGUARD_DEVICE_ID", "USBGUARD_DEVICE_TARGET_NEW", "USBGUARD_DEVICE_RULE",
          "USBGUARD_DEVICE_RULE_ID">>
    [] signal = "Property.ParameterChanged" ->
         <<"USBGUARD_PROPERTY_NAME", "USBGUARD_PROPERTY_VALUE_OLD", "USBGUARD_PROPERTY_VALUE_NEW">>

ClientSignals == {"Device.PresenceChanged", "Device.PolicyChanged", "Device.PolicyApplied",
                  "Property.ParameterChanged", "IPC.Disconnected"}

\* IPCSignalWatcher::createExecutableEnvironment: what was inherited comes first
Environment(call) ==
  Inherited \o <<<<IPCSignal, call.signal>>>> \o
  [i \in DOMAIN Variables(call.signal) |-> <<Variables(call.signal)[i], call.value>>]

Waiting(t) == reporter[t].pc = "wait"

\* Where a thread goes on after a handler
Returned(t, signal) ==
  [reporter[t] EXCEPT !.child = "none",
     !.pc = CASE t = "main" -> "joining"
              [] signal = "IPC.Disconnected" -> "ended"
              [] OTHER -> "loop"]
-----------------------------------------------------------------------------
\* usbguard_watch up to its loop: without an executable, or with one that is
\* opened; if that fails the command ends
SetExecutable(given) ==
  /\ reporter["main"].pc = "start"
  /\ executable' = given
  /\ reporter' = [reporter EXCEPT !["main"].pc = "connect"]
  /\ UNCHANGED <<started, tally>>

\* IPCClientPrivate::connect up to the call of IPCConnected
ConnectWatcher ==
  /\ reporter["main"].pc = "connect" /\ tally.connections < MaxConnections
  /\ reporter' = [reporter EXCEPT !["main"].pc = "connected", !["client"].pc = "loop"]
  /\ tally' = [tally EXCEPT !.connections = @ + 1]
  /\ UNCHANGED <<executable, started>>

\* The handlers of IPCSignalWatcher and runExecutable up to waitpid
Report(t, signal, value, forked) ==
  /\ IF t = "main" THEN reporter[t].pc = "connected" /\ signal = "IPC.Connected"
                   ELSE reporter[t].pc = "loop" /\ signal \in ClientSignals
  /\ tally.calls < MaxCalls
  /\ reporter' = [reporter EXCEPT ![t] =
       IF executable /\ forked
       THEN [pc |-> "wait", child |-> "intermediary",
             call |-> [signal |-> signal, value |-> value, connection |-> tally.connections]]
       ELSE Returned(t, signal)]
  /\ tally' = [tally EXCEPT !.calls = @ + 1,
                            !.without = IF executable /\ forked THEN @ ELSE @ + 1]
  /\ UNCHANGED <<executable, started>>

\* Mutation: the intermediary process goes on after its fork
IntermediaryGoesOn(t) ==
  /\ Waiting(t) /\ reporter[t].child = "intermediary"
  /\ reporter' = [reporter EXCEPT ![t].child = "exited"]
  /\ started' = started \o <<reporter[t].call, reporter[t].call>>
  /\ UNCHANGED <<executable, tally>>

\* The intermediary process forks and exits
Intermediary(t) ==
  /\ Waiting(t) /\ reporter[t].child = "intermediary"
  /\ reporter' = [reporter EXCEPT ![t].child = "exited"]
  /\ started' = Append(started, reporter[t].call)
  /\ UNCHANGED <<executable, tally>>

\* setsid or fork fails in it, or it is killed by a signal
IntermediaryFails(t, end) ==
  /\ Waiting(t) /\ reporter[t].child = "intermediary"
  /\ reporter' = [reporter EXCEPT ![t].child = end]
  /\ tally' = [tally EXCEPT !.without = @ + 1]
  /\ UNCHANGED <<executable, started>>

\* runExecutable from waitpid on; what became of the process is only printed
WaitPid(t) ==
  /\ Waiting(t) /\ reporter[t].child # "intermediary"
  /\ reporter' = [reporter EXCEPT ![t] = Returned(t, reporter[t].call.signal)]
  /\ UNCHANGED <<executable, started, tally>>

\* IPCClientPrivate::wait, and the next round of the loop
Rejoin ==
  /\ reporter["main"].pc = "joining" /\ reporter["client"].pc = "ended"
  /\ reporter' = [reporter EXCEPT !["main"].pc = "connect", !["client"].pc = "none"]
  /\ UNCHANGED <<executable, started, tally>>

NoCall == [signal |-> "none", value |-> "none", connection |-> 0]

WatcherInit ==
  /\ executable = FALSE
  /\ reporter = [t \in {"main", "client"} |->
       [pc |-> IF t = "main" THEN "start" ELSE "none", child |-> "none", call |-> NoCall]]
  /\ started = <<>>
  /\ tally = [connections |-> 0, calls |-> 0, without |-> 0]

WatcherNext ==
  \/ \E given \in BOOLEAN : SetExecutable(given)
  \/ ConnectWatcher
  \/ \E t \in {"main", "client"} :
       \/ \E signal \in ClientSignals \cup {"IPC.Connected"}, value \in SignalValues,
             forked \in BOOLEAN : Report(t, signal, value, forked)
       \/ Intermediary(t)
       \/ \E end \in {"failed", "killed"} : IntermediaryFails(t, end)
       \/ WaitPid(t)
  \/ Rejoin
-----------------------------------------------------------------------------
(* Properties *)

\* getenv
GetEnv(environment, name) ==
  LET hits == {i \in DOMAIN environment : environment[i][1] = name}
  IN  environment[CHOOSE i \in hits : \A j \in hits : i <= j][2]

\* Every event of the connections starts one process, unless there is no executable
\* or a system call before the second fork failed; the processes of one connection are forked before
\* those of the next, and the one for the end of a connection after those for its
\* signals; each finds the event in its environment, in the variables that the
\* command did not have itself (IPCSignalWatcher::runExecutable,
\* createExecutableEnvironment; option --exec: "Run an executable file located at
\* <path> for every event").  The process for "IPC.Connected" may come after others
\* of its connection, and nothing orders the processes once they are forked.
ExecutablesFollow ==
  LET inherited == {Inherited[i][1] : i \in DOMAIN Inherited}
      pending == {t \in DOMAIN reporter : Waiting(t) /\ reporter[t].child = "intermediary"}
  IN  /\ Len(started) + tally.without + Cardinality(pending) = tally.calls
      /\ \A i, j \in DOMAIN started :
           LET a == started[i]
               b == started[j]
           IN  i < j => /\ a.connection <= b.connection
                        /\ a.connection = b.connection /\ a.signal = "IPC.Disconnected" =>
                             b.signal = "IPC.Connected"
      /\ \A i \in DOMAIN started :
           LET call == started[i]
           IN  /\ IPCSignal \notin inherited =>
                    GetEnv(Environment(call), IPCSignal) = call.signal
               /\ \A v \in Range(Variables(call.signal)) \ inherited :
                    GetEnv(Environment(call), v) = call.value
=============================================================================
