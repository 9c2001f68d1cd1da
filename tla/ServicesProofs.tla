--------------------------- MODULE ServicesProofs ---------------------------
(***************************************************************************)
(* Proofs that one daemon runs at a time and that success is reported      *)
(* truly, for any number of starts of the daemon, of processes killed and  *)
(* of connections lost.                                                    *)
(***************************************************************************)
EXTENDS Services, TLAPS

\* The PID file begins with the PID of the daemon of start i.
Recorded(i) == pidfile.pid = i /\ pidfile.size >= Digits[i]

\* How far the processes of one start have got with each other.
StartInv(i) ==
  LET original == pc[i]["original"]
      intermediate == pc[i]["intermediate"]
      told == original \in {"reaping", "done"} \/ i \in usr1
  IN  /\ original \in {"none", "constructed", "configured"} =>
           intermediate = "none" /\ pc[i]["daemon"] = "none"
      /\ original = "foreground" => intermediate = "none"
      /\ original = "reaping" \/ i \in usr1 => intermediate \in {"signalled", "ended"}
      /\ original = "done" => intermediate = "ended" \/ pc[i]["daemon"] = "ended"
      /\ original = "done" => intermediate \in {"none", "ended"}
      /\ /\ told \/ intermediate \in {"written", "signalled"}
         /\ Alive(i, "daemon")
         => Recorded(i)

\* The socket is bound by one start at most.
OneStart == \A i, j \in Bound : i = j

\* The file is as long as the PID of a daemon that was started, or empty.
PidFileSize ==
  \/ pidfile.size = 0
  \/ \E i \in Starts : pc[i]["intermediate"] # "none" /\ pidfile.size = Digits[i]

\* The inductive invariant of the processes.
ProcInv ==
  /\ ProcTypeOK
  /\ OneStart
  /\ PidFileSize
  /\ \A i \in Starts : StartInv(i)

\* A step of start i changes the counters of its own processes only.
Moves(i) ==
  /\ i \in Starts
  /\ pc'[i] \in [Roles -> PCs]
  /\ pc' = [pc EXCEPT ![i] = pc'[i]]

\* Setting the counter of one process.
LEMMA SetMoves ==
  ASSUME ProcTypeOK, NEW i \in Starts, NEW r \in Roles, NEW s \in PCs, Set(i, r, s)
  PROVE  /\ Moves(i) /\ pc'[i][r] = s
         /\ \A x \in Roles : x # r => pc'[i][x] = pc[i][x]
BY DEF ProcTypeOK, Set, Moves

\* The end of a daemon process, which in the foreground is the original one.
LEMMA EndDaemonMoves ==
  ASSUME ProcTypeOK, NEW i \in Starts, NEW s \in PCs, EndDaemon(i, s)
  PROVE  /\ Moves(i)
         /\ pc'[i]["daemon"] = "ended" /\ pc'[i]["intermediate"] = pc[i]["intermediate"]
         /\ pc'[i]["original"] = IF pc[i]["original"] = "foreground" THEN s
                                 ELSE pc[i]["original"]
<1>1. "ended" \in PCs /\ "daemon" \in Roles /\ "original" \in Roles
      /\ "intermediate" \in Roles
  BY DEF PCs, Ended, Roles
<1> QED
  BY <1>1, Zenon DEF ProcTypeOK, EndDaemon, Moves

\* While a start moves that has a process, the others have none and stay as they are.
LEMMA OthersKeep ==
  ASSUME ProcTypeOK, OneStart, NEW i \in Starts, Moves(i), i \in Bound,
         usr1' \ {i} = usr1 \ {i}
  PROVE  /\ OneStart'
         /\ \A j \in Starts : j # i /\ StartInv(j) => StartInv(j)'
<1>1. \A j \in Starts : j # i => pc'[j] = pc[j] /\ (j \in usr1' <=> j \in usr1)
  BY DEF Moves, ProcTypeOK
<1>2. \A j \in Starts : j # i => j \notin Bound
  BY DEF OneStart
<1>3. \A j \in Starts : j # i => \A r \in Roles : ~Alive(j, r) /\ ~Alive(j, r)'
  BY <1>1, <1>2, Zenon DEF Bound, Alive
<1>4. OneStart'
  BY <1>3, Zenon DEF OneStart, Bound
<1>5. ASSUME NEW j \in Starts, j # i, StartInv(j) PROVE StartInv(j)'
  BY <1>1, <1>3, <1>5, Zenon DEF StartInv, Roles
<1> QED
  BY <1>4, <1>5

\* A step of start i that keeps the types and what is known of i keeps the invariant.
LEMMA StartMoves ==
  ASSUME ProcInv, NEW i \in Starts, Moves(i), i \in Bound, usr1' \in {usr1, usr1 \cup {i}, usr1 \ {i}},
         lock' \subseteq Starts \X Roles, faults' \in 0 .. MaxFaults,
         pc[i]["intermediate"] # "none" => pc'[i]["intermediate"] # "none",
         pidfile' = pidfile, StartInv(i)'
  PROVE  ProcInv'
<1>1. ProcTypeOK'
  BY DEF ProcInv, ProcTypeOK, Moves
<1>2. usr1' \ {i} = usr1 \ {i}
  BY Zenon
<1>3. OneStart' /\ \A j \in Starts : StartInv(j)'
  BY <1>2, OthersKeep, Zenon DEF ProcInv
<1>4. PidFileSize'
  <2>1. \A j \in Starts : pc[j]["intermediate"] # "none" => pc'[j]["intermediate"] # "none"
    BY Zenon DEF ProcInv, ProcTypeOK, Moves
  <2> QED
    BY <2>1, Zenon DEF ProcInv, PidFileSize
<1> QED
  BY <1>1, <1>3, <1>4, Zenon DEF ProcInv

\* A process that can be at pc s is one that is alive.
LEMMA AliveBound ==
  ASSUME NEW i \in Starts, NEW r \in Roles, pc[i][r] \notin Ended
  PROVE  i \in Bound
BY DEF Bound, Alive

\* The socket is bound if no other start has it bound; otherwise this one fails.
LEMMA ConstructKeeps ==
  ASSUME ProcInv, NEW i \in Starts, Construct(i)
  PROVE  ProcInv'
<1> DEFINE s == IF Bound = {} THEN "constructed" ELSE "failed"
<1>0. pc[i]["original"] = "none"
  BY ProcAssumption, SMT, Z3 DEF Construct, NextStart
<1>1. /\ pc[i]["original"] = "none" /\ Set(i, "original", s) /\ s \in PCs
      /\ UNCHANGED <<lock, pidfile, usr1, faults>>
  BY <1>0, Zenon DEF Construct, PCs, Ended
<1>2. ProcTypeOK
  BY Zenon DEF ProcInv
<1>3. /\ Moves(i) /\ pc'[i]["original"] = s
      /\ pc'[i]["intermediate"] = pc[i]["intermediate"]
      /\ pc'[i]["daemon"] = pc[i]["daemon"]
  BY <1>1, <1>2, SetMoves, Zenon DEF Roles
<1>4. ProcTypeOK'
  BY <1>1, <1>2, <1>3, Zenon DEF ProcTypeOK, Moves
<1>5. /\ pc'[i]["original"] = s /\ pc'[i]["daemon"] = pc[i]["daemon"]
      /\ pc'[i]["intermediate"] = pc[i]["intermediate"]
      /\ \A j \in Starts : j # i => pc'[j] = pc[j]
  BY <1>2, <1>3, Zenon DEF ProcTypeOK, Moves, Roles
<1>6. ASSUME NEW j \in Starts PROVE StartInv(j)'
  <2>1. StartInv(j)
    BY Zenon DEF ProcInv
  <2> QED
    BY <1>1, <1>5, <2>1, Zenon DEF StartInv, Alive, Recorded, Ended
<1>7. OneStart'
  <2>1. CASE Bound = {}
    <3>1. \A j \in Starts : j # i => j \notin Bound'
      BY <1>5, <2>1, Zenon DEF Bound, Alive
    <3> QED
      BY <3>1, Zenon DEF OneStart, Bound
  <2>2. CASE Bound # {}
    <3>1. \A j \in Starts, r \in Roles : Alive(j, r)' => Alive(j, r)
      BY <1>1, <1>5, <2>2, Zenon DEF Alive, Ended, Roles
    <3> QED
      BY <3>1, Zenon DEF OneStart, Bound, ProcInv
  <2> QED
    BY <2>1, <2>2, Zenon
<1>8. PidFileSize'
  <2>1. \A j \in Starts : pc'[j]["intermediate"] = pc[j]["intermediate"]
    BY <1>5, Zenon
  <2> QED
    BY <1>1, <2>1, Zenon DEF ProcInv, PidFileSize
<1> QED
  BY <1>4, <1>6, <1>7, <1>8, Zenon DEF ProcInv

\* The steps of the original process.
LEMMA OriginalKeeps ==
  ASSUME ProcInv, NEW i \in Starts, OriginalStep(i)
  PROVE  ProcInv'
<1>1. ProcTypeOK /\ StartInv(i)
  BY Zenon DEF ProcInv
<1>2. pc[i] \in [Roles -> PCs] /\ lock \subseteq Starts \X Roles /\ faults \in 0 .. MaxFaults
  BY <1>1, Zenon DEF ProcTypeOK
<1>3. CASE LoadConfiguration(i)
  <2>1. PICK s \in {"configured", "failed"} : Set(i, "original", s)
    BY <1>3, Zenon DEF LoadConfiguration
  <2>2. /\ Moves(i) /\ pc'[i]["original"] = s
        /\ pc'[i]["intermediate"] = pc[i]["intermediate"]
        /\ pc'[i]["daemon"] = pc[i]["daemon"]
    BY <1>1, <2>1, SetMoves, Zenon DEF Roles, PCs, Ended
  <2>3. i \in Bound
    BY <1>3, AliveBound, Zenon DEF LoadConfiguration, Ended, Roles
  <2>4. StartInv(i)'
    BY <1>1, <1>3, <2>2, Zenon DEF LoadConfiguration, StartInv, Alive, Ended, Recorded
  <2> QED
    BY <1>2, <1>3, <2>2, <2>3, <2>4, StartMoves, Zenon DEF LoadConfiguration
<1>4. CASE RunForeground(i)
  <2>1. "foreground" \in PCs /\ "starting" \in PCs /\ "original" \in Roles
        /\ "daemon" \in Roles /\ "original" # "daemon"
    BY DEF PCs, Running, Roles
  <2>2. /\ Moves(i)
        /\ pc'[i]["original"] = "foreground" /\ pc'[i]["daemon"] = "starting"
        /\ pc'[i]["intermediate"] = pc[i]["intermediate"]
    BY <1>1, <1>4, <2>1, Zenon DEF RunForeground, ProcTypeOK, Moves, Roles
  <2>3. i \in Bound
    BY <1>4, AliveBound DEF RunForeground, Ended, Roles
  <2>4. StartInv(i)'
    BY <1>1, <1>4, <2>2, Zenon DEF RunForeground, StartInv, Alive, Ended, Recorded
  <2> QED
    BY <1>2, <1>4, <2>2, <2>3, <2>4, StartMoves, Zenon DEF RunForeground
<1>5. CASE ForkIntermediate(i)
  <2>1. CASE Set(i, "original", "failed")
    <3>2. /\ Moves(i) /\ pc'[i]["original"] = "failed"
          /\ pc'[i]["intermediate"] = pc[i]["intermediate"]
          /\ pc'[i]["daemon"] = pc[i]["daemon"]
      BY <1>1, <2>1, SetMoves, Zenon DEF Roles, PCs, Ended
    <3>3. i \in Bound
      BY <1>5, AliveBound, Zenon DEF ForkIntermediate, Ended, Roles
    <3>4. StartInv(i)'
      BY <1>1, <1>5, <3>2, Zenon DEF ForkIntermediate, StartInv, Alive, Ended, Recorded
    <3> QED
      BY <1>2, <1>5, <3>2, <3>3, <3>4, StartMoves, Zenon DEF ForkIntermediate
  <2>2. CASE pc' = [pc EXCEPT ![i]["original"] = "waiting", ![i]["intermediate"] = "forked"]
    <3>1. "waiting" \in PCs /\ "forked" \in PCs /\ "original" \in Roles
          /\ "intermediate" \in Roles /\ "original" # "intermediate"
      BY DEF PCs, Roles
    <3>2. /\ Moves(i)
          /\ pc'[i]["original"] = "waiting" /\ pc'[i]["intermediate"] = "forked"
          /\ pc'[i]["daemon"] = pc[i]["daemon"]
      BY <1>1, <2>2, <3>1, Zenon DEF ProcTypeOK, Moves, Roles
    <3>3. i \in Bound
      BY <1>5, AliveBound DEF ForkIntermediate, Ended, Roles
    <3>4. StartInv(i)'
      BY <1>1, <1>5, <3>2, Zenon DEF ForkIntermediate, StartInv, Alive, Ended, Recorded
    <3> QED
      BY <1>2, <1>5, <3>2, <3>3, <3>4, StartMoves, Zenon DEF ForkIntermediate
  <2> QED
    BY <1>5, <2>1, <2>2, Zenon DEF ForkIntermediate
<1>6. CASE TakeSignal(i)
  <2>2. /\ Moves(i) /\ pc'[i]["original"] = "reaping"
        /\ pc'[i]["intermediate"] = pc[i]["intermediate"]
        /\ pc'[i]["daemon"] = pc[i]["daemon"]
    BY <1>1, <1>6, SetMoves, Zenon DEF TakeSignal, Roles, PCs, Ended
  <2>3. i \in Bound
    BY <1>6, AliveBound, Zenon DEF TakeSignal, Ended, Roles
  <2>4. StartInv(i)'
    BY <1>1, <1>6, <2>2, Zenon DEF TakeSignal, StartInv, Alive, Ended, Recorded
  <2> QED
    BY <1>2, <1>6, <2>2, <2>3, <2>4, StartMoves, Zenon DEF TakeSignal
<1>7. CASE Timeout(i)
  <2>2. /\ Moves(i) /\ pc'[i]["original"] = "failed"
        /\ pc'[i]["intermediate"] = pc[i]["intermediate"]
        /\ pc'[i]["daemon"] = pc[i]["daemon"]
    BY <1>1, <1>7, SetMoves, Zenon DEF Timeout, Roles, PCs, Ended
  <2>3. i \in Bound
    BY <1>7, AliveBound, Zenon DEF Timeout, Ended, Roles
  <2>4. StartInv(i)'
    BY <1>1, <1>7, <2>2, Zenon DEF Timeout, StartInv, Alive, Ended, Recorded
  <2> QED
    BY <1>2, <1>7, <2>2, <2>3, <2>4, StartMoves, Zenon DEF Timeout
<1>8. CASE Reap(i)
  <2>2. /\ Moves(i) /\ pc'[i]["original"] = "done"
        /\ pc'[i]["intermediate"] = pc[i]["intermediate"]
        /\ pc'[i]["daemon"] = pc[i]["daemon"]
    BY <1>1, <1>8, SetMoves, Zenon DEF Reap, Roles, PCs, Ended
  <2>3. i \in Bound
    BY <1>8, AliveBound, Zenon DEF Reap, Ended, Roles
  <2>4. StartInv(i)'
    BY <1>1, <1>8, <2>2, Zenon DEF Reap, StartInv, Alive, Ended, Recorded
  <2> QED
    BY <1>2, <1>8, <2>2, <2>3, <2>4, StartMoves, Zenon DEF Reap
<1> QED
  BY <1>3, <1>4, <1>5, <1>6, <1>7, <1>8, Zenon DEF OriginalStep

\* The wait of the original process is interrupted too late.
LEMMA InterruptedKeeps ==
  ASSUME ProcInv, NEW i \in Starts, Interrupted(i)
  PROVE  ProcInv'
<1>1. ProcTypeOK /\ StartInv(i)
  BY Zenon DEF ProcInv
<1>2. pc[i] \in [Roles -> PCs] /\ lock \subseteq Starts \X Roles /\ faults \in 0 .. MaxFaults
  BY <1>1, Zenon DEF ProcTypeOK
<1>3. /\ Moves(i) /\ pc'[i]["original"] = "spinning"
      /\ pc'[i]["intermediate"] = pc[i]["intermediate"]
      /\ pc'[i]["daemon"] = pc[i]["daemon"]
  BY <1>1, SetMoves, Zenon DEF Interrupted, Roles, PCs, Ended
<1>4. i \in Bound
  BY AliveBound, Zenon DEF Interrupted, Ended, Roles
<1>5. StartInv(i)'
  BY <1>1, <1>3, Zenon DEF Interrupted, StartInv, Alive, Ended, Recorded
<1> QED
  BY <1>2, <1>3, <1>4, <1>5, StartMoves, Zenon DEF Interrupted

\* The end of an intermediate process that has not been heard of yet, or is done.
LEMMA IntermediateEnds ==
  ASSUME ProcInv, NEW i \in Starts, EndIntermediate(i), Alive(i, "intermediate"),
         UNCHANGED <<pidfile, usr1>>, faults' \in 0 .. MaxFaults
  PROVE  ProcInv'
<1>1. ProcTypeOK /\ StartInv(i)
  BY Zenon DEF ProcInv
<1>2. pc[i] \in [Roles -> PCs] /\ lock' \subseteq Starts \X Roles
  BY <1>1, Zenon DEF ProcTypeOK, EndIntermediate
<1>3. /\ Moves(i) /\ pc'[i]["intermediate"] = "ended"
      /\ pc'[i]["original"] = pc[i]["original"]
      /\ pc'[i]["daemon"] = pc[i]["daemon"]
  BY <1>1, SetMoves, Zenon DEF EndIntermediate, Roles, PCs, Ended
<1>4. i \in Bound
  BY Zenon DEF Bound, Roles
<1>5. StartInv(i)'
  BY <1>1, <1>3, Zenon DEF StartInv, Alive, Ended, Recorded
<1> QED
  BY <1>2, <1>3, <1>4, <1>5, StartMoves, Zenon

\* The end of a daemon process.
LEMMA DaemonEnds ==
  ASSUME ProcInv, NEW i \in Starts, NEW s \in {"failed", "done"}, EndDaemon(i, s),
         Alive(i, "daemon"), UNCHANGED <<pidfile, usr1>>, faults' \in 0 .. MaxFaults
  PROVE  ProcInv'
<1>1. ProcTypeOK /\ StartInv(i)
  BY Zenon DEF ProcInv
<1>2. pc[i] \in [Roles -> PCs] /\ lock' \subseteq Starts \X Roles
  BY <1>1, Zenon DEF ProcTypeOK, EndDaemon
<1>3. Moves(i)
  BY <1>1, EndDaemonMoves, Zenon DEF PCs, Ended
<1>4. /\ pc'[i]["daemon"] = "ended" /\ pc'[i]["intermediate"] = pc[i]["intermediate"]
      /\ pc'[i]["original"] = IF pc[i]["original"] = "foreground" THEN s
                              ELSE pc[i]["original"]
  BY <1>1, EndDaemonMoves, Zenon DEF PCs, Ended
<1>5. StartInv(i)'
  BY <1>1, <1>4, Zenon DEF StartInv, Alive, Ended
<1>6. i \in Bound
  BY Zenon DEF Bound, Roles
<1> QED
  BY <1>2, <1>3, <1>4, <1>5, <1>6, StartMoves, Zenon

\* The PID of the daemon is written over what the file holds.
LEMMA WritePidKeeps ==
  ASSUME ProcInv, NEW i \in Starts, WritePid(i)
  PROVE  ProcInv'
<1>1. ProcTypeOK /\ StartInv(i) /\ OneStart /\ PidFileSize
  BY Zenon DEF ProcInv
<1>2. pc[i] \in [Roles -> PCs] /\ lock \subseteq Starts \X Roles /\ faults \in 0 .. MaxFaults
  BY <1>1, Zenon DEF ProcTypeOK
<1>3. i \in Bound
  BY AliveBound, Zenon DEF WritePid, Ended, Roles
<1>4. CASE /\ pidfile' = [pid |-> i, size |-> IF pidfile.size > Digits[i] THEN pidfile.size
                                              ELSE Digits[i]]
           /\ Set(i, "intermediate", "written")
           /\ UNCHANGED lock
  <2>1. Digits[i] \in Nat /\ pidfile.size \in Nat
    BY <1>1, ProcAssumption, SMT, Z3 DEF ProcTypeOK
  <2>2. Recorded(i)'
    BY <1>4, <2>1, SMT, Z3 DEF Recorded
  <2>3. /\ Moves(i) /\ pc'[i]["intermediate"] = "written"
        /\ pc'[i]["original"] = pc[i]["original"]
        /\ pc'[i]["daemon"] = pc[i]["daemon"]
    BY <1>1, <1>4, SetMoves, Zenon DEF Roles, PCs, Ended
  <2>4. StartInv(i)'
    BY <1>1, <1>2, <2>2, <2>3, Zenon DEF WritePid, StartInv, Alive, Ended, Roles
  <2>5. OneStart' /\ \A j \in Starts : j # i /\ StartInv(j) => StartInv(j)'
    BY <1>1, <1>3, <2>3, OthersKeep, Zenon DEF WritePid
  <2>6. ProcTypeOK'
    BY <1>1, <1>4, <2>1, <2>3, Zenon DEF WritePid, ProcTypeOK, Moves
  <2>7. PidFileSize'
    <3>1. pidfile'.size = Digits[i] \/ pidfile'.size = pidfile.size
      BY <1>4, SMT, Z3
    <3>2. \A j \in Starts : pc[j]["intermediate"] # "none" => pc'[j]["intermediate"] # "none"
      BY <1>1, <2>3, Zenon DEF ProcTypeOK, Moves
    <3> QED
      BY <1>1, <2>3, <3>1, <3>2, Zenon DEF PidFileSize
  <2> QED
    BY <2>4, <2>5, <2>6, <2>7, Zenon DEF ProcInv
<1>5. CASE /\ pc' = [pc EXCEPT ![i]["intermediate"] = "ended", ![i]["daemon"] = "ended"]
           /\ lock' = lock \ {<<i, "intermediate">>, <<i, "daemon">>}
           /\ UNCHANGED pidfile
  <2>1. "ended" \in PCs /\ "intermediate" \in Roles /\ "daemon" \in Roles
    BY DEF PCs, Ended, Roles
  <2>2. /\ Moves(i)
        /\ pc'[i]["intermediate"] = "ended" /\ pc'[i]["daemon"] = "ended"
        /\ pc'[i]["original"] = pc[i]["original"]
    BY <1>1, <1>5, <2>1, Zenon DEF ProcTypeOK, Moves, Roles
  <2>3. StartInv(i)'
    BY <1>1, <1>5, <2>2, Zenon DEF WritePid, StartInv, Alive, Ended, Recorded
  <2> QED
    BY <1>2, <1>3, <1>5, <2>2, <2>3, StartMoves, Zenon DEF WritePid
<1> QED
  BY <1>4, <1>5, Zenon DEF WritePid

\* The other steps of the intermediate process.
LEMMA IntermediateKeeps ==
  ASSUME ProcInv, NEW i \in Starts, IntermediateStep(i)
  PROVE  ProcInv'
<1>1. ProcTypeOK /\ StartInv(i)
  BY DEF ProcInv
<1>2. pc[i] \in [Roles -> PCs] /\ lock \subseteq Starts \X Roles /\ faults \in 0 .. MaxFaults
  BY <1>1 DEF ProcTypeOK
<1>3. CASE LockPidFile(i)
  <2>1. i \in Bound /\ Alive(i, "intermediate")
    BY <1>3, AliveBound, Zenon DEF LockPidFile, Ended, Roles, Alive
  <2>2. CASE EndIntermediate(i)
    BY <1>2, <1>3, <2>1, <2>2, IntermediateEnds, Zenon DEF LockPidFile
  <2>3. CASE lock' = {<<i, "intermediate">>} /\ Set(i, "intermediate", "locked")
    <3>1. /\ Moves(i) /\ pc'[i]["intermediate"] = "locked"
          /\ pc'[i]["original"] = pc[i]["original"]
          /\ pc'[i]["daemon"] = pc[i]["daemon"]
      BY <1>1, <2>3, SetMoves, Zenon DEF Roles, PCs, Ended
    <3>2. StartInv(i)'
      BY <1>1, <1>3, <3>1, Zenon DEF LockPidFile, StartInv, Alive, Ended, Recorded
    <3>3. lock' \subseteq Starts \X Roles
      BY <2>3, SMT, Z3 DEF Roles
    <3> QED
      BY <1>2, <1>3, <2>1, <3>1, <3>2, <3>3, StartMoves, Zenon DEF LockPidFile
  <2> QED
    BY <1>3, <2>2, <2>3, Zenon DEF LockPidFile
<1>4. CASE ForkDaemon(i)
  <2>1. i \in Bound /\ Alive(i, "intermediate")
    BY <1>4, AliveBound, Zenon DEF ForkDaemon, Ended, Roles, Alive
  <2>2. CASE EndIntermediate(i)
    BY <1>2, <1>4, <2>1, <2>2, IntermediateEnds, Zenon DEF ForkDaemon
  <2>3. CASE /\ pc' = [pc EXCEPT ![i]["intermediate"] = "writing", ![i]["daemon"] = "forked"]
             /\ UNCHANGED lock
    <3>1. "writing" \in PCs /\ "forked" \in PCs /\ "intermediate" \in Roles
          /\ "daemon" \in Roles /\ "daemon" # "intermediate"
      BY DEF PCs, Roles
    <3>2. /\ Moves(i)
          /\ pc'[i]["intermediate"] = "writing" /\ pc'[i]["daemon"] = "forked"
          /\ pc'[i]["original"] = pc[i]["original"]
      BY <1>1, <2>3, <3>1, Zenon DEF ProcTypeOK, Moves, Roles
    <3>3. StartInv(i)'
      BY <1>1, <1>4, <3>2, Zenon DEF ForkDaemon, StartInv, Alive, Ended, Recorded
    <3> QED
      BY <1>2, <1>4, <2>1, <2>3, <3>2, <3>3, StartMoves, Zenon DEF ForkDaemon
  <2> QED
    BY <1>4, <2>2, <2>3, Zenon DEF ForkDaemon
<1>5. CASE WritePid(i)
  BY <1>5, WritePidKeeps, Zenon
<1>6. CASE SignalOriginal(i)
  <2>1. /\ Moves(i) /\ pc'[i]["intermediate"] = "signalled"
        /\ pc'[i]["original"] = pc[i]["original"]
        /\ pc'[i]["daemon"] = pc[i]["daemon"]
    BY <1>1, <1>6, SetMoves, Zenon DEF SignalOriginal, Roles, PCs, Ended, Running
  <2>2. i \in Bound
    BY <1>6, AliveBound, Zenon DEF SignalOriginal, Ended, Roles
  <2>3. usr1' \in {usr1, usr1 \cup {i}}
    BY <1>6, SMT, Z3 DEF SignalOriginal
  <2>4. StartInv(i)'
    BY <1>1, <1>6, <2>1, Zenon DEF SignalOriginal, StartInv, Alive, Ended, Recorded
  <2> QED
    BY <1>2, <1>6, <2>1, <2>2, <2>3, <2>4, StartMoves, Zenon DEF SignalOriginal
<1>7. CASE ExitIntermediate(i)
  <2>1. Alive(i, "intermediate")
    BY <1>7, Zenon DEF ExitIntermediate, Ended, Alive
  <2> QED
    BY <1>2, <1>7, <2>1, IntermediateEnds, Zenon DEF ExitIntermediate
<1> QED
  BY <1>3, <1>4, <1>5, <1>6, <1>7, Zenon DEF IntermediateStep

\* The steps of the daemon process.
LEMMA DaemonKeeps ==
  ASSUME ProcInv, NEW i \in Starts, DaemonStep(i) \/ Terminate(i)
  PROVE  ProcInv'
<1>1. ProcTypeOK /\ StartInv(i)
  BY DEF ProcInv
<1>2. pc[i] \in [Roles -> PCs] /\ lock \subseteq Starts \X Roles /\ faults \in 0 .. MaxFaults
  BY <1>1, Zenon DEF ProcTypeOK
<1>3. CASE Redirect(i) /\ Set(i, "daemon", "locking") /\ UNCHANGED lock
  <2>1. /\ Moves(i) /\ pc'[i]["daemon"] = "locking"
        /\ pc'[i]["original"] = pc[i]["original"]
        /\ pc'[i]["intermediate"] = pc[i]["intermediate"]
    BY <1>1, <1>3, SetMoves, Zenon DEF Roles, PCs, Ended, Running
  <2>2. i \in Bound
    BY <1>3, AliveBound, Zenon DEF Redirect, Ended, Roles
  <2>3. StartInv(i)'
    BY <1>1, <1>3, <2>1, Zenon DEF Redirect, StartInv, Alive, Ended, Recorded
  <2> QED
    BY <1>2, <1>3, <2>1, <2>2, <2>3, StartMoves, Zenon DEF Redirect
<1>4. CASE Redirect(i) /\ EndDaemon(i, "failed")
  <2>1. Alive(i, "daemon")
    BY <1>4, Zenon DEF Redirect, Alive, Ended
  <2> QED
    BY <1>4, <2>1, DaemonEnds, ProcAssumption, Zenon DEF Redirect, ProcInv, ProcTypeOK
<1>5. CASE LockAgain(i)
  <2>1. /\ Moves(i) /\ pc'[i]["daemon"] = "starting"
        /\ pc'[i]["original"] = pc[i]["original"]
        /\ pc'[i]["intermediate"] = pc[i]["intermediate"]
    BY <1>1, <1>5, SetMoves, Zenon DEF LockAgain, Roles, PCs, Ended, Running
  <2>2. i \in Bound
    BY <1>5, AliveBound, Zenon DEF LockAgain, Ended, Roles
  <2>3. StartInv(i)'
    BY <1>1, <1>5, <2>1, Zenon DEF LockAgain, StartInv, Alive, Ended, Recorded
  <2> QED
    BY <1>2, <1>5, <2>1, <2>2, <2>3, StartMoves, SMT, Z3 DEF LockAgain, Roles
<1>6. CASE StartDevices(i) /\ Set(i, "daemon", "scanned") /\ UNCHANGED lock
  <2>1. /\ Moves(i) /\ pc'[i]["daemon"] = "scanned"
        /\ pc'[i]["original"] = pc[i]["original"]
        /\ pc'[i]["intermediate"] = pc[i]["intermediate"]
    BY <1>1, <1>6, SetMoves, Zenon DEF Roles, PCs, Ended, Running
  <2>2. i \in Bound
    BY <1>6, AliveBound, Zenon DEF StartDevices, Ended, Roles
  <2>3. StartInv(i)'
    BY <1>1, <1>6, <2>1, Zenon DEF StartDevices, StartInv, Alive, Ended, Recorded
  <2> QED
    BY <1>2, <1>6, <2>1, <2>2, <2>3, StartMoves, Zenon DEF StartDevices
<1>7. CASE StartDevices(i) /\ EndDaemon(i, "failed")
  <2>1. Alive(i, "daemon")
    BY <1>7, Zenon DEF StartDevices, Alive, Ended
  <2> QED
    BY <1>7, <2>1, DaemonEnds, ProcAssumption, Zenon DEF StartDevices, ProcInv, ProcTypeOK
<1>8. CASE StartIPC(i)
  <2>1. /\ Moves(i) /\ pc'[i]["daemon"] = "serving"
        /\ pc'[i]["original"] = pc[i]["original"]
        /\ pc'[i]["intermediate"] = pc[i]["intermediate"]
    BY <1>1, <1>8, SetMoves, Zenon DEF StartIPC, Roles, PCs, Ended, Running
  <2>2. i \in Bound
    BY <1>8, AliveBound, Zenon DEF StartIPC, Ended, Roles
  <2>3. StartInv(i)'
    BY <1>1, <1>8, <2>1, Zenon DEF StartIPC, StartInv, Alive, Ended, Recorded
  <2> QED
    BY <1>2, <1>8, <2>1, <2>2, <2>3, StartMoves, Zenon DEF StartIPC
<1>9. CASE StopIPC(i)
  <2>1. /\ Moves(i) /\ pc'[i]["daemon"] = "ipcStopped"
        /\ pc'[i]["original"] = pc[i]["original"]
        /\ pc'[i]["intermediate"] = pc[i]["intermediate"]
    BY <1>1, <1>9, SetMoves, Zenon DEF StopIPC, Roles, PCs, Ended, Running
  <2>2. i \in Bound
    BY <1>9, AliveBound, Zenon DEF StopIPC, Ended, Roles
  <2>3. StartInv(i)'
    BY <1>1, <1>9, <2>1, Zenon DEF StopIPC, StartInv, Alive, Ended, Recorded
  <2> QED
    BY <1>2, <1>9, <2>1, <2>2, <2>3, StartMoves, Zenon DEF StopIPC
<1>10. CASE StopDevices(i) /\ EndDaemon(i, "done")
  <2>1. Alive(i, "daemon")
    BY <1>10, Zenon DEF StopDevices, Alive, Ended
  <2> QED
    BY <1>10, <2>1, DaemonEnds, ProcAssumption, Zenon DEF StopDevices, ProcInv, ProcTypeOK
<1>11. CASE Terminate(i)
  <2>1. /\ Moves(i) /\ pc'[i]["daemon"] = "unlocked"
        /\ pc'[i]["original"] = pc[i]["original"]
        /\ pc'[i]["intermediate"] = pc[i]["intermediate"]
    BY <1>1, <1>11, SetMoves, Zenon DEF Terminate, Roles, PCs, Ended, Running
  <2>2. i \in Bound
    BY <1>11, AliveBound, Zenon DEF Terminate, Ended, Roles
  <2>3. StartInv(i)'
    BY <1>1, <1>11, <2>1, Zenon DEF Terminate, StartInv, Alive, Ended, Recorded
  <2> QED
    BY <1>2, <1>11, <2>1, <2>2, <2>3, StartMoves, Zenon DEF Terminate
<1> QED
  BY <1>3, <1>4, <1>5, <1>6, <1>7, <1>8, <1>9, <1>10, <1>11, Zenon
     DEF DaemonStep, Redirect, StartDevices, StopDevices

\* A process is killed.
LEMMA KillKeeps ==
  ASSUME ProcInv, NEW i \in Starts, NEW r \in Roles, Kill(i, r)
  PROVE  ProcInv'
<1>1. ProcTypeOK /\ StartInv(i)
  BY Zenon DEF ProcInv
<1>2. pc[i] \in [Roles -> PCs] /\ lock \subseteq Starts \X Roles /\ faults' \in 0 .. MaxFaults
  BY <1>1, ProcAssumption, SMT, Z3 DEF ProcTypeOK, Kill
<1>3. CASE r = "original"
  <2>1. /\ pc[i]["original"] # "foreground" /\ Alive(i, "original")
        /\ Set(i, "original", "failed")
        /\ UNCHANGED lock /\ usr1' = usr1 \ {i} /\ UNCHANGED pidfile
    BY <1>3, Zenon DEF Kill
  <2>2. /\ Moves(i) /\ pc'[i]["original"] = "failed"
        /\ pc'[i]["intermediate"] = pc[i]["intermediate"]
        /\ pc'[i]["daemon"] = pc[i]["daemon"]
    BY <1>1, <2>1, SetMoves, Zenon DEF Roles, PCs, Ended
  <2>3. StartInv(i)'
    BY <1>1, <2>1, <2>2, Zenon DEF StartInv, Alive, Ended, Recorded
  <2>4. i \in Bound
    BY <2>1, Zenon DEF Bound, Roles
  <2> QED
    BY <1>2, <2>1, <2>2, <2>3, <2>4, StartMoves, Zenon
<1>4. CASE r = "intermediate"
  <2>1. EndIntermediate(i) /\ Alive(i, "intermediate") /\ usr1' = usr1 /\ UNCHANGED pidfile
    BY <1>4, Zenon DEF Kill
  <2> QED
    BY <1>2, <2>1, IntermediateEnds, Zenon
<1>5. CASE r = "daemon"
  <2>1. EndDaemon(i, "failed") /\ Alive(i, "daemon") /\ usr1' = usr1 /\ UNCHANGED pidfile
    BY <1>5, Zenon DEF Kill
  <2> QED
    BY <1>2, <2>1, DaemonEnds, Zenon
<1> QED
  BY <1>3, <1>4, <1>5, Zenon DEF Roles

\* Only the number of faults changes.
LEMMA FaultKeeps ==
  ASSUME ProcInv, UNCHANGED <<pc, lock, pidfile, usr1>>, faults' \in 0 .. MaxFaults
  PROVE  ProcInv'
<1>1. ProcTypeOK' /\ PidFileSize' /\ Bound' = Bound
  BY Zenon DEF ProcInv, ProcTypeOK, PidFileSize, Bound, Alive
<1>2. \A i \in Starts : StartInv(i)'
  BY Zenon DEF ProcInv, StartInv, Alive, Recorded
<1> QED
  BY <1>1, <1>2, Zenon DEF ProcInv, OneStart

-----------------------------------------------------------------------------
(* usbguard-dbus and "usbguard watch" leave the processes of the daemon alone. *)

\* Every step of the services keeps the invariant of the processes.
LEMMA NextKeepsProc ==
  ASSUME ProcInv, [Next]_vars
  PROVE  ProcInv'
<1>1. ASSUME ProcNext PROVE ProcInv'
  BY <1>1, ConstructKeeps, OriginalKeeps, IntermediateKeeps, DaemonKeeps, KillKeeps,
     InterruptedKeeps, Zenon DEF ProcNext
<1>2. ASSUME NEW c \in Clients, Lose(c) PROVE ProcInv'
  <2>1. faults' \in 0 .. MaxFaults
    BY <1>2, ProcAssumption, SMT, Z3 DEF Lose, ProcInv, ProcTypeOK
  <2> QED
    BY <1>2, <2>1, FaultKeeps, Zenon DEF Lose
<1>3. ASSUME UNCHANGED procVars PROVE ProcInv'
  BY <1>3, FaultKeeps, Zenon DEF procVars, ProcInv, ProcTypeOK
<1>4. BusAcquired \/ NameAcquired \/ NameLost \/ LoopEnds \/ TryConnect \/ ConnectReturns
        => UNCHANGED procVars
  BY Zenon DEF BusAcquired, NameAcquired, NameLost, LoopEnds, TryConnect, ConnectReturns
<1>5. \A k \in Calls : Arrive(k) \/ CallStep(k) => UNCHANGED procVars
  BY Zenon DEF Arrive, CallStep, Dispatch, Authorize, Forward
<1>6. WatchStep => UNCHANGED procVars
  BY Zenon DEF WatchStep, WatchConnect, WatchReturn, WatchSleep
<1>7. UNCHANGED vars => UNCHANGED procVars
  BY Zenon DEF vars
<1> QED
  BY <1>1, <1>2, <1>3, <1>4, <1>5, <1>6, <1>7, Zenon DEF Next

\* Nothing runs at first.
LEMMA InitProc == Init => ProcInv
<1> SUFFICES ASSUME Init PROVE ProcInv
  BY Zenon
<1>1. ProcTypeOK
  BY ProcAssumption, SMT, Z3 DEF Init, ProcInit, ProcTypeOK, PCs, Ended
<1>2. \A i \in Starts, r \in Roles : pc[i][r] = "none"
  BY Zenon DEF Init, ProcInit
<1>3. usr1 = {} /\ PidFileSize
  BY DEF Init, ProcInit, PidFileSize
<1>4. Bound = {}
  BY <1>2, Zenon DEF Bound, Alive, Ended
<1>5. \A i \in Starts : StartInv(i)
  BY <1>2, <1>3, Zenon DEF StartInv, Roles
<1> QED
  BY <1>1, <1>3, <1>4, <1>5, Zenon DEF ProcInv, OneStart

\* Facts about cardinalities
INSTANCE FiniteSetTheorems

\* A daemon that runs has the socket bound.
LEMMA OneStartOneDaemon == OneStart /\ ProcTypeOK => OneDaemon
<1> SUFFICES ASSUME OneStart, ProcTypeOK PROVE OneDaemon
  BY Zenon
<1> DEFINE D == {i \in Starts : pc[i]["daemon"] \in Running}
<1>1. D \subseteq Bound
  BY Zenon DEF Bound, Alive, Ended, Running, Roles
<1>2. CASE D = {}
  BY <1>2, FS_EmptySet, SMT, Z3 DEF OneDaemon
<1>3. CASE D # {}
  <2>1. PICK i \in D : TRUE
    BY <1>3, Zenon
  <2>2. D = {i}
    BY <1>1, <2>1, Zenon DEF OneStart
  <2> QED
    BY <2>2, FS_Singleton, SMT, Z3 DEF OneDaemon
<1> QED
  BY <1>2, <1>3, Zenon

\* usbguard-dbus has the status of success only after it owned its name.
StatusInv ==
  /\ DOMAIN bus = {"loop", "bridge", "timer", "blocked", "ret"}
  /\ bus.ret = "SUCCESS" => owned = TRUE

\* The status becomes success where the name was acquired, and in no other place.
LEMMA NextKeepsStatus ==
  ASSUME StatusInv, [Next]_vars
  PROVE  StatusInv'
<1> USE DEF StatusInv
<1>1. ASSUME BusAcquired PROVE StatusInv'
  BY <1>1, Zenon DEF BusAcquired, Quit
<1>2. ASSUME NameAcquired PROVE StatusInv'
  BY <1>2, Zenon DEF NameAcquired, Quit
<1>3. ASSUME NameLost \/ LoopEnds PROVE StatusInv'
  BY <1>3, Zenon DEF NameLost, LoopEnds
<1>4. ASSUME TryConnect \/ ConnectReturns PROVE StatusInv'
  <2>1. ASSUME Connects PROVE StatusInv'
    BY <1>4, <2>1, Zenon DEF Connects, TryConnect, ConnectReturns
  <2> QED
    BY <1>4, <2>1, Zenon DEF TryConnect, ConnectReturns
<1>5. ASSUME NEW k \in Calls, Arrive(k) \/ CallStep(k) PROVE StatusInv'
  BY <1>5, Zenon DEF Arrive, CallStep, Dispatch, Authorize, Forward
<1>6. ASSUME UNCHANGED busVars PROVE StatusInv'
  BY <1>6, Zenon DEF busVars
<1>7. WatchStep => UNCHANGED busVars
  BY Zenon DEF WatchStep, WatchConnect, WatchReturn, WatchSleep
<1>8. \A c \in Clients : Lose(c) => UNCHANGED busVars
  BY Zenon DEF Lose
<1>9. UNCHANGED vars => UNCHANGED busVars
  BY Zenon DEF vars
<1> QED
  BY <1>1, <1>2, <1>3, <1>4, <1>5, <1>6, <1>7, <1>8, <1>9, Zenon DEF Next

\* There is one daemon at a time, for any number of starts and of processes killed
\* (OneDaemon of module DaemonProcess), because the socket can be bound by one start
\* and is bound as long as one of its processes is alive.
THEOREM OneDaemonAtATime == Spec => []OneDaemon
<1>1. Init => ProcInv
  BY InitProc, Zenon
<1>2. ProcInv /\ [Next]_vars => ProcInv'
  BY NextKeepsProc, Zenon
<1>3. ProcInv => OneDaemon
  BY OneStartOneDaemon, Zenon DEF ProcInv
<1> QED
  BY <1>1, <1>2, <1>3, PTL DEF Spec

\* The original process has been told that the daemon runs only when the PID file begins
\* with its PID, and what follows is left of a longer PID written earlier
\* (Daemon::daemonize); usbguard-dbus ends with success only if it owned its bus name:
\* SuccessTrue, for any number of starts, PIDs of any length, any kills, interrupted
\* waits and lost connections.
THEOREM SuccessIsTrue == Spec => []SuccessTrue
<1>1. Init => ProcInv /\ StatusInv
  <2>1. Init => \E l \in LoopStates :
                  bus = [loop |-> l, bridge |-> FALSE, timer |-> FALSE,
                         blocked |-> FALSE, ret |-> "FAILURE"]
    BY Zenon DEF Init, ServiceStart, ServiceOff, LoopStates
  <2>2. Init => StatusInv
    BY <2>1, SMT, Z3 DEF StatusInv
  <2> QED
    BY <2>2, InitProc, Zenon
<1>2. ProcInv /\ StatusInv /\ [Next]_vars => ProcInv' /\ StatusInv'
  BY NextKeepsProc, NextKeepsStatus, Zenon
<1>3. ProcInv /\ StatusInv => SuccessTrue
  <2>1. StatusInv => ExitStatusTrue
    BY Zenon DEF StatusInv, ExitStatusTrue
  <2>2. ProcInv => PidFileTrue
    <3> SUFFICES ASSUME ProcInv, NEW i \in Starts, Alive(i, "daemon"),
                        pc[i]["original"] \in {"reaping", "done"}
                 PROVE  /\ pidfile.pid = i
                        /\ \E j \in Starts : /\ pc[j]["intermediate"] # "none"
                                             /\ pidfile.size = Digits[j]
                                             /\ Digits[j] >= Digits[i]
      BY Zenon DEF PidFileTrue
    <3>1. Recorded(i)
      BY Zenon DEF ProcInv, StartInv
    <3>2. pidfile.size # 0
      BY <3>1, ProcAssumption, SMT, Z3 DEF Recorded
    <3> QED
      BY <3>1, <3>2, Zenon DEF Recorded, ProcInv, PidFileSize
  <2> QED
    BY <2>1, <2>2, Zenon DEF SuccessTrue
<1> QED
  BY <1>1, <1>2, <1>3, PTL DEF Spec
=============================================================================
