---------------------------- MODULE DaemonProcess ----------------------------
(***************************************************************************)
(* The life of usbguard-daemon as a set of processes: main, daemonize and  *)
(* run.  Every start i of the program is an original process; with -f it   *)
(* forks an intermediate process, which locks and writes the PID file and  *)
(* forks the daemon process; without -f it is the daemon process itself.   *)
(*                                                                         *)
(* The IPC socket is bound when the Daemon object is constructed and is    *)
(* held by every process forked afterwards.  The lock on the PID file is a *)
(* record lock: it belongs to one process and goes with it.  The regions   *)
(* that lockf locks from the shared file offset always overlap, so there   *)
(* is one lock.                                                            *)
(***************************************************************************)
EXTENDS Naturals, FiniteSets

CONSTANTS
  Starts,      \* the starts of the program, numbered in their order from 1
  Digits,      \* [Starts -> Nat \ {0}]: the number of digits of the PID of the daemon
  MaxFaults    \* bound on the processes killed and connections dropped

ASSUME ProcAssumption ==
  /\ Starts \subseteq Nat \ {0}
  /\ Digits \in [Starts -> Nat \ {0}]
  /\ MaxFaults \in Nat

Roles == {"original", "intermediate", "daemon"}

VARIABLES
  pc,          \* [Starts -> [Roles -> program counters]]
  lock,        \* the processes <<start, role>> that hold the lock on the PID file
  pidfile,     \* the PID file: the start whose daemon's PID it begins with, 0 if
               \* none, and its size
  usr1,        \* the starts whose original process has SIGUSR1 pending
  faults

procVars == <<pc, lock, pidfile, usr1, faults>>

Ended == {"none", "done", "failed", "ended"}
Alive(i, r) == pc[i][r] \notin Ended

\* The states of a daemon process inside Daemon::run
Running == {"starting", "scanned", "serving", "unlocked", "ipcStopped"}

PCs == Ended \cup Running \cup
         {"constructed", "configured", "waiting", "spinning", "reaping", "foreground",
          "forked", "locked", "writing", "written", "signalled", "locking"}

ProcTypeOK ==
  /\ pc \in [Starts -> [Roles -> PCs]]
  /\ lock \subseteq Starts \X Roles
  /\ pidfile \in [pid : Starts \cup {0}, size : Nat]
  /\ usr1 \subseteq Starts
  /\ faults \in 0..MaxFaults

ProcInit ==
  /\ pc = [i \in Starts |-> [r \in Roles |-> "none"]]
  /\ lock = {} /\ pidfile = [pid |-> 0, size |-> 0] /\ usr1 = {} /\ faults = 0

Set(i, r, state) == pc' = [pc EXCEPT ![i][r] = state]

\* A process that ends loses its lock.  Only the exit status of the original is seen.
EndIntermediate(i) ==
  /\ Set(i, "intermediate", "ended")
  /\ lock' = lock \ {<<i, "intermediate">>}

\* The starts that hold the IPC socket.  The foreground daemon is the original.
Bound == {i \in Starts : \E r \in Roles : Alive(i, r)}

-----------------------------------------------------------------------------
(* main and daemonize, in the original process                                *)

\* The starts before i have begun, and it has not
NextStart(i) == \A j \in Starts : (j < i) = (pc[j]["original"] # "none")

\* Mutation: the address may be bound by two
ConstructShared(i) ==
  /\ NextStart(i)
  /\ Set(i, "original", "constructed")
  /\ UNCHANGED <<lock, pidfile, usr1, faults>>

\* Daemon::Daemon and IPCServerPrivate::initIPC, which throws if the address of
\* the socket is in use
Construct(i) ==
  /\ NextStart(i)
  /\ Set(i, "original", IF Bound = {} THEN "constructed" ELSE "failed")
  /\ UNCHANGED <<lock, pidfile, usr1, faults>>

\* Daemon::loadConfiguration, which loads the rules and the IPC access control
\* files as well, or throws
LoadConfiguration(i) ==
  /\ pc[i]["original"] = "constructed"
  /\ \/ Set(i, "original", "configured")
     \/ Set(i, "original", "failed")
  /\ UNCHANGED <<lock, pidfile, usr1, faults>>

\* Without -f, main calls run
RunForeground(i) ==
  /\ pc[i]["original"] = "configured"
  /\ pc' = [pc EXCEPT ![i]["original"] = "foreground", ![i]["daemon"] = "starting"]
  /\ UNCHANGED <<lock, pidfile, usr1, faults>>

\* With -f, the first fork
ForkIntermediate(i) ==
  /\ pc[i]["original"] = "configured"
  /\ \/ pc' = [pc EXCEPT ![i]["original"] = "waiting", ![i]["intermediate"] = "forked"]
     \/ Set(i, "original", "failed")
  /\ UNCHANGED <<lock, pidfile, usr1, faults>>

\* sigtimedwait returns SIGUSR1 of the intermediate process
TakeSignal(i) ==
  /\ pc[i]["original"] = "waiting" /\ i \in usr1
  /\ usr1' = usr1 \ {i}
  /\ Set(i, "original", "reaping")
  /\ UNCHANGED <<lock, pidfile, faults>>

\* Mutation: the wait starts over
TimeoutAgain(i) ==
  /\ pc[i]["original"] = "waiting" /\ i \notin usr1
  /\ UNCHANGED procVars

\* sigtimedwait returns EAGAIN; the exception ends main
Timeout(i) ==
  /\ pc[i]["original"] = "waiting" /\ i \notin usr1
  /\ Set(i, "original", "failed")
  /\ UNCHANGED <<lock, pidfile, usr1, faults>>

\* sigtimedwait returns EINTR or SIGUSR1 of another process, and the timeout becomes
\* what is left of five seconds.  The process goes on waiting, for that long or with a
\* timeout of zero; if more than five seconds have passed the timeout is negative,
\* sigtimedwait returns EINVAL at once from then on, and the loop ends on the signal and
\* on EAGAIN only
Interrupted(i) ==
  /\ pc[i]["original"] = "waiting" /\ i \notin usr1
  /\ Set(i, "original", "spinning")
  /\ UNCHANGED <<lock, pidfile, usr1, faults>>

\* waitpid returns
Reap(i) ==
  /\ pc[i]["original"] = "reaping" /\ ~Alive(i, "intermediate")
  /\ Set(i, "original", "done")
  /\ UNCHANGED <<lock, pidfile, usr1, faults>>

-----------------------------------------------------------------------------
(* daemonize, in the intermediate process                                     *)

\* setsid, open and lockf(F_TLOCK), any of which may throw
LockPidFile(i) ==
  /\ pc[i]["intermediate"] = "forked"
  /\ \/ /\ lock = {}
        /\ lock' = {<<i, "intermediate">>}
        /\ Set(i, "intermediate", "locked")
     \/ EndIntermediate(i)
  /\ UNCHANGED <<pidfile, usr1, faults>>

\* The second fork
ForkDaemon(i) ==
  /\ pc[i]["intermediate"] = "locked"
  /\ \/ /\ pc' = [pc EXCEPT ![i]["intermediate"] = "writing", ![i]["daemon"] = "forked"]
        /\ UNCHANGED lock
     \/ EndIntermediate(i)
  /\ UNCHANGED <<pidfile, usr1, faults>>

\* Mutation: the original process is told before the PID is written
WritePidLater(i) ==
  /\ pc[i]["intermediate"] = "writing"
  /\ usr1' = usr1 \cup (IF Alive(i, "original") THEN {i} ELSE {})
  /\ Set(i, "intermediate", "written")
  /\ UNCHANGED <<lock, pidfile, faults>>

\* The PID of the daemon process is written to the file, which is not truncated; if
\* that fails the daemon process is killed and the exception ends main
WritePid(i) ==
  /\ pc[i]["intermediate"] = "writing"
  /\ \/ /\ pidfile' = [pid |-> i, size |-> IF pidfile.size > Digits[i] THEN pidfile.size
                                             ELSE Digits[i]]
        /\ Set(i, "intermediate", "written")
        /\ UNCHANGED lock
     \/ /\ pc' = [pc EXCEPT ![i]["intermediate"] = "ended",
                            ![i]["daemon"] = "ended"]
        /\ lock' = lock \ {<<i, "intermediate">>, <<i, "daemon">>}
        /\ UNCHANGED pidfile
  /\ UNCHANGED <<usr1, faults>>

\* The signal is lost if SIGUSR1 of another process is pending
SignalOriginal(i) ==
  /\ pc[i]["intermediate"] = "written"
  /\ usr1' \in {usr1, usr1 \cup (IF Alive(i, "original") THEN {i} ELSE {})}
  /\ Set(i, "intermediate", "signalled")
  /\ UNCHANGED <<lock, pidfile, faults>>

ExitIntermediate(i) ==
  /\ pc[i]["intermediate"] = "signalled"
  /\ EndIntermediate(i)
  /\ UNCHANGED <<pidfile, usr1, faults>>

-----------------------------------------------------------------------------
(* daemonize and run, in the daemon process                                   *)

\* The end of the daemon process, which is the original one in the foreground
EndDaemon(i, state) ==
  /\ pc' = [pc EXCEPT ![i]["daemon"] = "ended",
                      ![i]["original"] = IF @ = "foreground" THEN state ELSE @]
  /\ lock' = lock \ {<<i, "daemon">>}

\* The standard descriptors are redirected, which may throw
Redirect(i) ==
  /\ pc[i]["daemon"] = "forked"
  /\ \/ Set(i, "daemon", "locking") /\ UNCHANGED lock
     \/ EndDaemon(i, "failed")
  /\ UNCHANGED <<pidfile, usr1, faults>>

\* lockf(F_LOCK) returns when the lock is free
LockAgain(i) ==
  /\ pc[i]["daemon"] = "locking" /\ lock = {}
  /\ lock' = {<<i, "daemon">>}
  /\ Set(i, "daemon", "starting")
  /\ UNCHANGED <<pidfile, usr1, faults>>

\* DeviceManager::start and scan, either of which may throw
StartDevices(i) ==
  /\ pc[i]["daemon"] = "starting"
  /\ \/ Set(i, "daemon", "scanned") /\ UNCHANGED lock
     \/ EndDaemon(i, "failed")
  /\ UNCHANGED <<pidfile, usr1, faults>>

\* IPCServer::start
StartIPC(i) ==
  /\ pc[i]["daemon"] = "scanned"
  /\ Set(i, "daemon", "serving")
  /\ UNCHANGED <<lock, pidfile, usr1, faults>>

\* sigwaitinfo returns SIGTERM or SIGINT: the PID file is unlocked and closed
Terminate(i) ==
  /\ pc[i]["daemon"] = "serving"
  /\ Set(i, "daemon", "unlocked")
  /\ lock' = lock \ {<<i, "daemon">>}
  /\ UNCHANGED <<pidfile, usr1, faults>>

\* IPCServer::stop; then DeviceManager::stop and the end of main
StopIPC(i) ==
  /\ pc[i]["daemon"] = "unlocked"
  /\ Set(i, "daemon", "ipcStopped")
  /\ UNCHANGED <<lock, pidfile, usr1, faults>>

StopDevices(i) ==
  /\ pc[i]["daemon"] = "ipcStopped"
  /\ EndDaemon(i, "done")
  /\ UNCHANGED <<pidfile, usr1, faults>>

\* A process is killed by a signal that cannot be blocked
Kill(i, r) ==
  /\ faults < MaxFaults /\ Alive(i, r) /\ pc[i][r] # "foreground"
  /\ faults' = faults + 1
  /\ CASE r = "original" -> Set(i, r, "failed") /\ UNCHANGED lock
       [] r = "intermediate" -> EndIntermediate(i)
       [] r = "daemon" -> EndDaemon(i, "failed")
  /\ usr1' = usr1 \ (IF r = "original" THEN {i} ELSE {})
  /\ UNCHANGED pidfile

-----------------------------------------------------------------------------

OriginalStep(i) ==
  \/ LoadConfiguration(i) \/ RunForeground(i) \/ ForkIntermediate(i)
  \/ TakeSignal(i) \/ Timeout(i) \/ Reap(i)

IntermediateStep(i) ==
  \/ LockPidFile(i) \/ ForkDaemon(i) \/ WritePid(i) \/ SignalOriginal(i)
  \/ ExitIntermediate(i)

DaemonStep(i) ==
  \/ Redirect(i) \/ LockAgain(i) \/ StartDevices(i) \/ StartIPC(i)
  \/ StopIPC(i) \/ StopDevices(i)

ProcNext == \E i \in Starts :
  \/ Construct(i) \/ OriginalStep(i) \/ IntermediateStep(i) \/ DaemonStep(i)
  \/ Terminate(i) \/ Interrupted(i)
  \/ \E r \in Roles : Kill(i, r)

\* A process that can go on does; when the program is started, and when it is told
\* to stop or is interrupted, is not up to it
ProcFairness == \A i \in Starts :
  /\ WF_procVars(OriginalStep(i))
  /\ WF_procVars(IntermediateStep(i))
  /\ WF_procVars(DaemonStep(i))

-----------------------------------------------------------------------------
(* Properties                                                                 *)

\* There is one daemon at a time (main, Daemon::run): no two starts are between
\* the start of the device manager and its stop, though the PID file is unlocked
\* before the threads are stopped and a start without -f does not lock it.
OneDaemon == Cardinality({i \in Starts : pc[i]["daemon"] \in Running}) <= 1

\* A start with -f reports success only when the PID file begins with the PID of its
\* daemon, and it does as long as that daemon is alive (Daemon::daemonize; a service
\* manager reads the file when the original process has exited).  Nothing follows that
\* PID except the last digits of a longer one that an earlier start left there: the
\* file is not truncated.
PidFileTrue == \A i \in Starts :
  pc[i]["original"] \in {"reaping", "done"} /\ Alive(i, "daemon") =>
    /\ pidfile.pid = i
    /\ \E j \in Starts : /\ pc[j]["intermediate"] # "none"
                         /\ pidfile.size = Digits[j] /\ Digits[j] >= Digits[i]

\* Every start ends its original process, whatever becomes of the other two, unless its
\* wait for SIGUSR1 is interrupted more than five seconds after it began
\* (Daemon::daemonize).  In that case it spins until it is killed, although the comment
\* on the timeout is "avoid potentially endless loop".
EveryStartEnds == \A i \in Starts :
  pc[i]["original"] # "none" ~> pc[i]["original"] \in Ended \cup {"foreground", "spinning"}
=============================================================================
