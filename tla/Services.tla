------------------------------- MODULE Services -------------------------------
(***************************************************************************)
(* The programs that stay connected to the daemon over its IPC interface,  *)
(* composed with the life of the daemon: usbguard-dbus, which offers the   *)
(* interface on D-Bus, and "usbguard watch --wait".                        *)
(*                                                                         *)
(* usbguard-dbus runs callbacks in one main loop, which a method call      *)
(* blocks from its dispatch to its reply: polkit and the daemon are asked  *)
(* synchronously.  Each program has an IPC client thread of its own, which *)
(* notices that the connection is lost.                                    *)
(***************************************************************************)
EXTENDS DaemonProcess

CONSTANTS
  Calls,       \* method calls made on D-Bus
  WaitOnce     \* is watch given --once instead of --wait?

Clients == {"dbus", "watch"}

VARIABLES
  conn,        \* [Clients -> the start whose daemon it is connected to, 0 if none]
  thread,      \* [Clients -> state of the IPC client thread object]
  bus,         \* usbguard-dbus: [loop, bridge, timer, blocked, ret]
  owned,       \* history: did usbguard-dbus own the bus name?
  call,        \* [Calls -> state of the call]
  watch        \* usbguard watch: [pc, doWait]

busVars == <<bus, owned, call>>
vars == <<procVars, conn, thread, busVars, watch>>

LoopStates == {"off", "init", "registered", "owned", "quitting", "exited", "crashed"}
CallStates == {"none", "queued", "authorizing", "calling", "answered", "refused"}
WatchStates == {"off", "connect", "wait", "sleep", "failed", "terminated"}

\* The domains of the variables.
TypeOK ==
  /\ ProcTypeOK
  /\ conn \in [Clients -> Starts \cup {0}]
  /\ thread \in [Clients -> {"none", "running", "ended"}]
  /\ bus \in [loop : LoopStates, bridge : BOOLEAN, timer : BOOLEAN,
              blocked : BOOLEAN, ret : {"SUCCESS", "FAILURE"}]
  /\ owned \in BOOLEAN
  /\ call \in [Calls -> CallStates]
  /\ watch \in [pc : WatchStates, doWait : BOOLEAN]

\* main of usbguard-dbus, up to g_main_loop_run
ServiceStart ==
  bus = [loop |-> "init", bridge |-> FALSE, timer |-> FALSE, blocked |-> FALSE,
         ret |-> "FAILURE"]

ServiceOff ==
  bus = [loop |-> "off", bridge |-> FALSE, timer |-> FALSE, blocked |-> FALSE,
         ret |-> "FAILURE"]

\* The programs do not interact: each behaviour has one of them
Init ==
  /\ ProcInit
  /\ conn = [c \in Clients |-> 0] /\ thread = [c \in Clients |-> "none"]
  /\ \/ ServiceStart /\ watch = [pc |-> "off", doWait |-> FALSE]
     \/ ServiceOff /\ watch = [pc |-> "connect", doWait |-> TRUE]
  /\ owned = FALSE
  /\ call = [k \in Calls |-> "none"]

-----------------------------------------------------------------------------
(* IPCClientPrivate                                                           *)

Serving == {i \in Starts : pc[i]["daemon"] = "serving"}

\* IPCClientPrivate::connect, when the daemon accepts; Thread::start ends the process
\* if the thread object still has a thread
Accepts(c, i) ==
  /\ i \in Serving /\ thread[c] = "none"
  /\ conn' = [conn EXCEPT ![c] = i]
  /\ thread' = [thread EXCEPT ![c] = "running"]

Terminates(c) == Serving # {} /\ thread[c] # "none"

\* When no process has bound the address; otherwise the call blocks until the IPC
\* thread of the daemon runs
Refused == Bound = {} /\ UNCHANGED <<conn, thread>>

\* The client thread notices that the connection is lost, or drops it because of a
\* message that it cannot process: disconnect(..., do_wait=false) and thread's end
Lose(c) ==
  /\ conn[c] # 0 /\ thread[c] = "running"
  /\ \/ conn[c] \notin Serving /\ UNCHANGED faults
     \/ conn[c] \in Serving /\ faults < MaxFaults /\ faults' = faults + 1
  /\ conn' = [conn EXCEPT ![c] = 0]
  /\ thread' = [thread EXCEPT ![c] = "ended"]
  /\ UNCHANGED <<pc, lock, pidfile, usr1, busVars, watch>>

-----------------------------------------------------------------------------
(* usbguard-dbus: callbacks of the main loop                                  *)

Busy == \E k \in Calls : call[k] \in {"authorizing", "calling"}
LoopRuns ==
  bus.loop \in {"init", "registered", "owned", "quitting"} /\ ~Busy /\ ~bus.blocked

Quit(ret) == bus' = [bus EXCEPT !.loop = "quitting", !.ret = ret]

BusAcquired ==
  /\ LoopRuns /\ bus.loop = "init"
  /\ bus' = [bus EXCEPT !.loop = "registered"] \/ Quit("FAILURE")
  /\ UNCHANGED <<procVars, conn, thread, owned, call, watch>>

\* on_name_acquired and handle_usbguard_ipc_state; the construction of the bridge, or
\* that of the timer, may fail
NameAcquired ==
  /\ LoopRuns /\ bus.loop = "registered"
  /\ owned' = TRUE
  /\ \/ bus' = [bus EXCEPT !.loop = "owned", !.bridge = TRUE, !.timer = TRUE,
                            !.ret = "SUCCESS"]
     \/ Quit("FAILURE")
     \/ bus' = [bus EXCEPT !.loop = "quitting", !.bridge = TRUE, !.ret = "FAILURE"]
  /\ UNCHANGED <<procVars, conn, thread, call, watch>>

\* on_name_lost; ~IPCClientPrivate disconnects and joins the thread
NameLost ==
  /\ LoopRuns
  /\ bus' = [bus EXCEPT !.loop = "quitting", !.bridge = FALSE]
  /\ conn' = [conn EXCEPT !["dbus"] = 0]
  /\ thread' = [thread EXCEPT !["dbus"] = "none"]
  /\ UNCHANGED <<procVars, owned, call, watch>>

LoopEnds ==
  /\ LoopRuns /\ bus.loop = "quitting"
  /\ bus' = [bus EXCEPT !.loop = "exited"]
  /\ UNCHANGED <<procVars, conn, thread, owned, call, watch>>

\* Mutation: the timer is removed after one attempt
TryConnectOnce ==
  /\ LoopRuns /\ bus.timer /\ bus.bridge
  /\ bus' = [bus EXCEPT !.timer = FALSE]
  /\ (\E i \in Starts : Accepts("dbus", i)) \/ Refused
  /\ UNCHANGED <<procVars, owned, call, watch>>

\* DBusBridge::connect returns or throws
Connects ==
  \/ /\ (\E i \in Starts : Accepts("dbus", i)) \/ Refused
     /\ bus' = [bus EXCEPT !.blocked = FALSE]
  \/ /\ Terminates("dbus")
     /\ bus' = [bus EXCEPT !.loop = "crashed", !.blocked = FALSE]
     /\ UNCHANGED <<conn, thread>>

\* usbguard_ipc_try_connect, each second while the timer is there; the main loop is
\* blocked with it if the address is bound and nobody serves it
TryConnect ==
  /\ LoopRuns /\ bus.timer
  /\ \/ /\ ~bus.bridge
        /\ bus' = [bus EXCEPT !.loop = "quitting", !.timer = FALSE, !.ret = "FAILURE"]
        /\ UNCHANGED <<conn, thread>>
     \/ /\ bus.bridge /\ conn["dbus"] # 0
        /\ bus' = [bus EXCEPT !.timer = FALSE]
        /\ UNCHANGED <<conn, thread>>
     \/ /\ bus.bridge /\ conn["dbus"] = 0
        /\ \/ Connects
           \/ /\ Bound # {} /\ Serving = {}
              /\ bus' = [bus EXCEPT !.blocked = TRUE]
              /\ UNCHANGED <<conn, thread>>
  /\ UNCHANGED <<procVars, owned, call, watch>>

ConnectReturns ==
  /\ bus.blocked /\ Connects
  /\ UNCHANGED <<procVars, owned, call, watch>>

\* A method call arrives at an object that is registered
Arrive(k) ==
  /\ bus.loop \in {"registered", "owned"} /\ call[k] = "none"
  /\ call' = [call EXCEPT ![k] = "queued"]
  /\ UNCHANGED <<procVars, conn, thread, bus, owned, watch>>

Answer(k, reply) == call' = [call EXCEPT ![k] = reply]

\* handle_method_call and handleMethodCall: no bridge, no connection, no such method
\* or a method, which begins with isAuthorizedByPolkit
Dispatch(k) ==
  /\ LoopRuns /\ call[k] = "queued"
  /\ IF ~bus.bridge THEN bus' = [bus EXCEPT !.loop = "crashed"] /\ UNCHANGED call
     ELSE /\ UNCHANGED bus
          /\ \/ Answer(k, "refused")
             \/ conn["dbus"] # 0 /\ Answer(k, "authorizing")
  /\ UNCHANGED <<procVars, conn, thread, owned, watch>>

\* isAuthorizedByPolkit returns: not authorized, failed, or authorized
Authorize(k) ==
  /\ call[k] = "authorizing"
  /\ Answer(k, "refused") \/ Answer(k, "calling")
  /\ UNCHANGED <<procVars, conn, thread, bus, owned, watch>>

\* Mutation: an exception of the call is not answered
ForwardSilently(k) ==
  /\ call[k] = "calling"
  /\ conn["dbus"] # 0 /\ Answer(k, "answered")
  /\ UNCHANGED <<procVars, conn, thread, bus, owned, watch>>

\* The IPC method returns or throws (not connected, timed out, an exception of the
\* daemon); handleMethodCall answers in both cases
Forward(k) ==
  /\ call[k] = "calling"
  /\ (conn["dbus"] # 0 /\ Answer(k, "answered")) \/ Answer(k, "refused")
  /\ UNCHANGED <<procVars, conn, thread, bus, owned, watch>>

-----------------------------------------------------------------------------
(* usbguard watch                                                             *)

\* watcher.connect(): an exception ends the program unless it waits
WatchConnect ==
  /\ watch.pc = "connect"
  /\ \/ /\ \E i \in Starts : Accepts("watch", i)
        /\ watch' = [pc |-> "wait", doWait |-> watch.doWait /\ ~WaitOnce]
     \/ /\ Refused
        /\ watch' = [watch EXCEPT !.pc = IF watch.doWait THEN "sleep" ELSE "failed"]
     \/ /\ Terminates("watch")
        /\ watch' = [watch EXCEPT !.pc = "terminated"]
        /\ UNCHANGED <<conn, thread>>
  /\ UNCHANGED <<procVars, busVars>>

\* watcher.wait() joins the thread
WatchReturn ==
  /\ watch.pc = "wait" /\ thread["watch"] = "ended"
  /\ thread' = [thread EXCEPT !["watch"] = "none"]
  /\ watch' = [watch EXCEPT !.pc = "connect"]
  /\ UNCHANGED <<procVars, conn, busVars>>

\* Mutation: an exception while waiting ends the loop
WatchSleepEnds ==
  /\ watch.pc = "sleep"
  /\ watch' = [watch EXCEPT !.pc = "failed"]
  /\ UNCHANGED <<procVars, conn, thread, busVars>>

WatchSleep ==
  /\ watch.pc = "sleep"
  /\ watch' = [watch EXCEPT !.pc = "connect"]
  /\ UNCHANGED <<procVars, conn, thread, busVars>>

-----------------------------------------------------------------------------

CallStep(k) == Dispatch(k) \/ Authorize(k) \/ Forward(k)
WatchStep == WatchConnect \/ WatchReturn \/ WatchSleep

Next ==
  \/ ProcNext /\ UNCHANGED <<conn, thread, busVars, watch>>
  \/ \E c \in Clients : Lose(c)
  \/ BusAcquired \/ NameAcquired \/ NameLost \/ LoopEnds \/ TryConnect \/ ConnectReturns
  \/ \E k \in Calls : Arrive(k) \/ CallStep(k)
  \/ WatchStep

\* Timers fire, callbacks that are due run and threads notice a lost connection; the
\* bus may take the name away at any time, or never
Fairness ==
  /\ ProcFairness
  /\ \A c \in Clients : WF_vars(Lose(c) /\ conn[c] \notin Serving)
  /\ WF_vars(LoopEnds) /\ WF_vars(TryConnect) /\ WF_vars(ConnectReturns)
  /\ \A k \in Calls : WF_vars(Dispatch(k)) /\ WF_vars(Authorize(k)) /\ WF_vars(Forward(k))
  /\ WF_vars(WatchStep)

Spec == Init /\ [][Next]_vars /\ Fairness

-----------------------------------------------------------------------------
(* Properties                                                                 *)

Over == bus.loop \in {"exited", "crashed"}
Stuck == bus.blocked /\ Serving = {} /\ \E i \in Starts : pc[i]["original"] = "spinning"

\* usbguard-dbus exits with success only if it owned its bus name (comment in main:
\* "Otherwise, the on_name_lost callback will be called which will stop the main
\* loop and we'll return the FAILURE return code").
ExitStatusTrue == bus.loop = "exited" /\ bus.ret = "SUCCESS" => owned

\* Success is reported only for what came true: a daemon whose PID was written,
\* and a service that owned its name (Daemon::daemonize, main of usbguard-dbus).
SuccessTrue == PidFileTrue /\ ExitStatusTrue

\* Every method call is answered, with a value or an error, unless usbguard-dbus ends
\* (handle_method_call: exceptions are answered, and so is a lost connection) or its
\* main loop stays blocked, waiting to be accepted at a socket that only an original
\* process that spins has bound (Daemon::daemonize).  Polkit is assumed to answer.
EveryCallAnswered == \A k \in Calls :
  \/ <>[]Stuck
  \/ call[k] = "queued" ~> call[k] \in {"answered", "refused"} \/ Over

\* Once the bus name is owned and the daemon stays up, usbguard-dbus gets connected
\* or ends, however late the daemon was started (usbguard_ipc_try_connect).
ServiceConnects == \A i \in Starts :
  <>[](i \in Serving) => (bus.timer ~> conn["dbus"] # 0 \/ Over)

\* usbguard watch --wait ends up connected to a daemon that stays up, however often
\* the daemon was restarted before (usbguard_watch: connect, wait, sleep).
WatchFollows == \A i \in Starts :
  watch.pc # "off" /\ <>[](i \in Serving) => <>[](conn["watch"] = i)
=============================================================================
