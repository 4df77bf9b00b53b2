---------------------------- MODULE PersistentProofs ----------------------------
(***************************************************************************)
(* Proofs about the persistent session: the agent (PersistentAgent), for   *)
(* any sets of helpers and requests and any number of launches, and on top *)
(* of its inductive invariant the client (PersistentClient), for any       *)
(* number of clients among the helpers.                                    *)
(***************************************************************************)
EXTENDS PersistentClient, TLAPS

---------------------------------------------------------------------------
(* The agent                                                                *)

\* The initial state, an empty state directory and no unit, is well typed.
LEMMA TypeInit == Init => TypeOK
<1> SUFFICES ASSUME Init PROVE TypeOK
    OBVIOUS
<1> USE MaxTokenAssumption DEF Init, Tokens, NoToken, NoHolder
<1>1. lock \in Agents \cup Tokens \cup {NoHolder} /\ root \in BOOLEAN
  OBVIOUS
<1>11. record \in Records \cup {NoRecord}
  OBVIOUS
<1>12. issued \in 0 .. MaxToken
  OBVIOUS
<1>2. unit \in Units \cup {NoUnit}
  OBVIOUS
<1>3. job \in [Tokens -> JobStates] /\ worker \in [Tokens -> WorkerStates]
  BY DEF JobStates, WorkerStates
<1>4. mem \in [Tokens -> Records \cup {NoRecord}]
  OBVIOUS
<1>5. xpra \in [Tokens -> {"none", "running", "silent", "exited"}] /\ leftover \in [Tokens -> BOOLEAN]
  OBVIOUS
<1>6. stopping \in [Tokens -> BOOLEAN]
  OBVIOUS
<1>7. pc \in [Agents -> AgentStates] /\ op \in [Agents -> {"none", "ensure", "status", "fallback"}]
  BY DEF AgentStates
<1>8. asked \in [Agents -> Requests \cup {NoRequest}] /\  token \in [Agents -> Tokens \cup {NoToken}]
  OBVIOUS
<1>9. rec \in [Agents -> Records \cup {NoRecord}] /\ seen \in [Agents -> Units \cup {NoUnit}]
  OBVIOUS
<1>10. known \subseteq Tokens /\ ended \subseteq Tokens
  OBVIOUS
<1> QED BY <1>1, <1>11, <1>12, <1>2, <1>3, <1>4, <1>5, <1>6, <1>7, <1>8, <1>9, <1>10 DEF TypeOK

\* What a step of a helper process leaves alone: workers, Xpra and the unit, and
\* the record unless the step writes one.
LEMMA AgentFrame ==
  ASSUME NEW a \in Agents, AgentNext(a), TypeOK
  PROVE  /\ UNCHANGED <<workerVars, sessionVars, unit>>
         /\ UNCHANGED <<record, issued>> \/ EnsureWrite(a)
         /\ UNCHANGED job \/ EnsureSubmit(a)
         /\ root => root'
         /\ pc[a] = "idle" /\ pc'[a] # "idle" => root'
         /\ UNCHANGED known \/ EnsureResume(a) \/ EnsureCreated(a)
         /\ UNCHANGED ended \/ StatusGone(a) \/ StatusEnded(a)
         /\ lock' = lock \/ (lock = NoHolder /\ lock' = a) \/ (lock = a /\ lock' = NoHolder)
         /\ \A b \in Agents \ {a} :
              /\ pc'[b] = pc[b] /\ op'[b] = op[b] /\ asked'[b] = asked[b]
              /\ token'[b] = token[b] /\ rec'[b] = rec[b] /\ seen'[b] = seen[b]
BY DEF AgentNext, StartEnsure, StartStatus, StartFallback, FallbackWithoutRoot, Acquire,
   LockTimeout, FallbackAllowed, FallbackRefused, EnsureRead, StatusGone, StatusRead,
   Inspect, InspectFails, EnsureMismatch, EnsureRefused, EnsureResume, EnsureBusy,
   EnsureAbsent, EnsureWrite, EnsureWriteFails, EnsureSubmit, EnsureCreated,
   EnsureStartFails, EnsureStartTimeout, StatusEnded, StatusRunning, StatusMismatch,
   AgentKilled, files, systemdVars, workerVars, sessionVars, clientVars, Finish, StartOp,
   Goto, TypeOK

\* What a step of one worker leaves alone: helpers, the manager and the other
\* launches.
LEMMA WorkerFrame ==
  ASSUME NEW t \in Tokens, WorkerNext(t), TypeOK
  PROVE  /\ UNCHANGED <<agentVars, systemdVars, clientVars, root, issued>>
         /\ \A u \in Tokens \ {t} :
              /\ worker'[u] = worker[u] /\ mem'[u] = mem[u]
              /\ xpra'[u] = xpra[u] /\ leftover'[u] = leftover[u]
         /\ UNCHANGED record \/ WorkerRecords(t) \/ WorkerPublishes(t) \/ WorkerUnlinks(t)
         /\ \/ UNCHANGED mem
            \/ mem' = [mem EXCEPT ![t] = NoRecord]
            \/ WorkerClaims(t)
            \/ WorkerPublishes(t)
BY DEF WorkerNext, WorkerBoots, WorkerAcquire, WorkerClaims, WorkerIsStale, WorkerSpawns,
   WorkerSpawnFails, WorkerRecords, WorkerRecordFails, WorkerReadsDisplay,
   WorkerPublishLock, WorkerPublishes, WorkerPublishFails, WorkerLeavesLoop,
   WorkerTerminatesXpra, WorkerFinalLock, WorkerLockTimeout, WorkerUnlinks, WorkerDies,
   files, sessionVars, Step, Forget, TypeOK

\* Helper steps keep every variable in its type.
LEMMA TypeAgent ==
  ASSUME IInv, NEW a \in Agents, AgentNext(a)
  PROVE  TypeOK'
<1>1. UNCHANGED <<workerVars, sessionVars, unit>>
  BY AgentFrame DEF IInv
<1>2. lock' \in Agents \cup Tokens \cup {NoHolder}
  BY AgentFrame DEF IInv, TypeOK
<1>8. issued' \in 0 .. MaxToken /\ record' \in Records \cup {NoRecord}
  <2>1. CASE EnsureWrite(a)
    <3>1. asked[a] \in Requests
      BY <2>1 DEF EnsureWrite, IInv, AgentInv, HelperInv
    <3>2. issued + 1 \in Tokens
      BY <2>1, MaxTokenAssumption DEF EnsureWrite, IInv, TypeOK, Tokens
    <3> QED BY <2>1, <3>1, <3>2, MaxTokenAssumption DEF EnsureWrite, Records, Tokens
  <2>2. CASE ~EnsureWrite(a)
    BY <2>2, AgentFrame DEF IInv, TypeOK
  <2> QED BY <2>1, <2>2
<1>9. known' \subseteq Tokens
  <2>1. CASE EnsureResume(a)
    BY <2>1 DEF EnsureResume, Verified, IInv, TypeOK, Records
  <2>2. CASE EnsureCreated(a)
    BY <2>2 DEF EnsureCreated, IInv, TypeOK, AgentInv, HelperInv, Records
  <2> QED BY <2>1, <2>2, AgentFrame DEF IInv, TypeOK
<1>11. ended' \subseteq Tokens
  BY AgentFrame DEF StatusGone, StatusEnded, IInv, TypeOK, AgentInv, HelperInv
<1> USE DEF AgentNext, StartEnsure, StartStatus, StartFallback, FallbackWithoutRoot, Acquire,
   LockTimeout, FallbackAllowed, FallbackRefused, EnsureRead, StatusGone, StatusRead,
   Inspect, InspectFails, EnsureMismatch, EnsureRefused, EnsureResume, EnsureBusy,
   EnsureAbsent, EnsureWrite, EnsureWriteFails, EnsureSubmit, EnsureCreated,
   EnsureStartFails, EnsureStartTimeout, StatusEnded, StatusRunning, StatusMismatch,
   AgentKilled, files, systemdVars, clientVars, Finish, StartOp, Goto
<1>3. pc' \in [Agents -> AgentStates] /\ op' \in [Agents -> {"none", "ensure", "status", "fallback"}]
  BY DEF IInv, TypeOK, AgentStates
<1>4. asked' \in [Agents -> Requests \cup {NoRequest}]
  BY DEF IInv, TypeOK
<1>5. token' \in [Agents -> Tokens \cup {NoToken}]
  <2>1. \/ UNCHANGED token
        \/ \E t \in Tokens \cup {NoToken} : token' = [token EXCEPT ![a] = t]
    <3>1. CASE EnsureWrite(a)
      <4>1. issued + 1 \in Tokens
        BY <3>1, MaxTokenAssumption DEF EnsureWrite, IInv, TypeOK, Tokens
      <4> QED BY <3>1, <4>1
    <3>2. CASE ~EnsureWrite(a)
      BY <3>2 DEF IInv, TypeOK
    <3> QED BY <3>1, <3>2
  <2> QED BY <2>1 DEF IInv, TypeOK
<1>6. rec' \in [Agents -> Records \cup {NoRecord}]
  BY DEF IInv, TypeOK
<1>7. seen' \in [Agents -> Units \cup {NoUnit}]
  BY DEF IInv, TypeOK
<1>12. root' \in BOOLEAN
  BY DEF IInv, TypeOK
<1>10. job' \in [Tokens -> JobStates]
  BY DEF IInv, TypeOK, JobStates
<1> QED BY <1>1, <1>2, <1>3, <1>4, <1>5, <1>6, <1>7, <1>8, <1>9, <1>10, <1>11, <1>12
        DEF IInv, TypeOK, workerVars, sessionVars

\* Worker steps keep every variable in its type.
LEMMA TypeWorker ==
  ASSUME IInv, NEW t \in Tokens, WorkerNext(t)
  PROVE  TypeOK'
<1>1. UNCHANGED <<agentVars, systemdVars, clientVars, root, issued>>
  BY WorkerFrame DEF IInv
<1>7. mem' \in [Tokens -> Records \cup {NoRecord}]
  <2>1. CASE WorkerClaims(t)
    <3>1. record \in Records
      BY <2>1 DEF WorkerClaims, IInv, TypeOK, NoRecord, Tokens, NoToken
    <3>2. [record EXCEPT !.worker = TRUE] \in Records
      BY <3>1 DEF Records
    <3> QED BY <2>1, <3>2 DEF WorkerClaims, IInv, TypeOK
  <2>2. CASE WorkerPublishes(t)
    <3>1. mem[t] \in Records
      BY <2>2 DEF WorkerPublishes, IInv, MemInv
    <3>2. [mem[t] EXCEPT !.display = TRUE] \in Records
      BY <3>1 DEF Records
    <3> QED BY <2>2, <3>2 DEF WorkerPublishes, IInv, TypeOK
  <2> QED BY <2>1, <2>2, WorkerFrame DEF IInv, TypeOK
<1> USE DEF WorkerNext, WorkerBoots, WorkerAcquire, WorkerClaims, WorkerIsStale, WorkerSpawns,
   WorkerSpawnFails, WorkerRecords, WorkerRecordFails, WorkerReadsDisplay,
   WorkerPublishLock, WorkerPublishes, WorkerPublishFails, WorkerLeavesLoop,
   WorkerTerminatesXpra, WorkerFinalLock, WorkerLockTimeout, WorkerUnlinks, WorkerDies,
   files, systemdVars, workerVars, sessionVars, Step, Forget
<1>2. lock' \in Agents \cup Tokens \cup {NoHolder}
  BY DEF IInv, TypeOK
<1>3. worker' \in [Tokens -> WorkerStates]
  BY DEF IInv, TypeOK, WorkerStates
<1>4. xpra' \in [Tokens -> {"none", "running", "silent", "exited"}]
  BY DEF IInv, TypeOK
<1>5. leftover' \in [Tokens -> BOOLEAN]
  BY DEF IInv, TypeOK
<1>6. stopping' \in [Tokens -> BOOLEAN]
  BY DEF IInv, TypeOK
<1>8. record' \in Records \cup {NoRecord}
  <2>1. record' \in {record, NoRecord, mem[t], mem'[t]}
    OBVIOUS
  <2> QED BY <2>1, <1>7 DEF IInv, TypeOK
<1> QED BY <1>1, <1>2, <1>3, <1>4, <1>5, <1>6, <1>7, <1>8
        DEF IInv, TypeOK, agentVars, clientVars

\* Steps of Xpra and its application keep every variable in its type.
LEMMA TypeSession ==
  ASSUME IInv, NEW t \in Tokens, SessionNext(t)
  PROVE  TypeOK'
<1> USE DEF SessionNext, XpraExits, XpraClosesPipes, LeftoverExits, files, systemdVars,
        workerVars, agentVars, clientVars
<1>1. xpra' \in [Tokens -> {"none", "running", "silent", "exited"}]
  BY DEF IInv, TypeOK
<1>2. leftover' \in [Tokens -> BOOLEAN]
  BY DEF IInv, TypeOK
<1> QED BY <1>1, <1>2 DEF IInv, TypeOK

\* The systemd manager touches no file, helper or client.
LEMMA ManagerFrame ==
  ASSUME NEW t \in Tokens, ManagerNext(t)
  PROVE  UNCHANGED <<files, agentVars, clientVars>>
BY DEF ManagerNext, ManagerAccepts, ManagerRefuses, ManagerExecs, ManagerExecFails,
   ManagerStops, ManagerReaps, ManagerKills, ManagerCollects, JobIs, Step, Forget,
   systemdVars, workerVars, sessionVars

\* Steps of the systemd manager keep every variable in its type.
LEMMA TypeManager ==
  ASSUME IInv, NEW t \in Tokens, ManagerNext(t)
  PROVE  TypeOK'
<1>1. UNCHANGED <<files, agentVars, clientVars>>
  BY ManagerFrame
<1>8. unit' \in Units \cup {NoUnit}
  <2> USE DEF IInv, TypeOK, Units, NoUnit, NoToken, Tokens
  <2>1. CASE ManagerAccepts(t) BY <2>1 DEF ManagerAccepts
  <2>2. CASE ManagerRefuses(t) BY <2>2 DEF ManagerRefuses
  <2>3. CASE ManagerExecs(t) BY <2>3 DEF ManagerExecs
  <2>4. CASE ManagerExecFails(t) BY <2>4 DEF ManagerExecFails
  <2>5. CASE ManagerStops(t) BY <2>5 DEF ManagerStops
  <2>6. CASE ManagerReaps(t) BY <2>6 DEF ManagerReaps
  <2>7. CASE ManagerKills(t) BY <2>7 DEF ManagerKills, systemdVars
  <2>8. CASE ManagerCollects(t) BY <2>8 DEF ManagerCollects
  <2> QED BY <2>1, <2>2, <2>3, <2>4, <2>5, <2>6, <2>7, <2>8 DEF ManagerNext
<1> USE DEF ManagerNext, ManagerAccepts, ManagerRefuses, ManagerExecs, ManagerExecFails,
   ManagerStops, ManagerReaps, ManagerKills, ManagerCollects, JobIs, Step, Forget,
   systemdVars, workerVars, sessionVars
<1>2. lock' \in Agents \cup Tokens \cup {NoHolder}
  BY DEF IInv, TypeOK
<1>3. worker' \in [Tokens -> WorkerStates]
  BY DEF IInv, TypeOK, WorkerStates
<1>4. xpra' \in [Tokens -> {"none", "running", "silent", "exited"}]
  BY DEF IInv, TypeOK
<1>5. leftover' \in [Tokens -> BOOLEAN] /\ stopping' \in [Tokens -> BOOLEAN]
  BY DEF IInv, TypeOK, WorkerAlive
<1>6. mem' \in [Tokens -> Records \cup {NoRecord}]
  BY DEF IInv, TypeOK
<1>7. job' \in [Tokens -> JobStates]
  BY DEF IInv, TypeOK, JobStates
<1> QED BY <1>1, <1>2, <1>3, <1>4, <1>5, <1>6, <1>7, <1>8
        DEF IInv, TypeOK, files, agentVars, clientVars

---------------------------------------------------------------------------
(* The other conjuncts of the invariant, one lemma each.                    *)

\* A helper is never mistaken for a worker as the holder of the flock.
LEMMA HoldersAreDistinct ==
  /\ NoHolder \notin Agents \cup Tokens
  /\ Agents \cap Tokens = {}
BY MaxTokenAssumption, AgentsAssumption DEF NoHolder, Tokens

\* Helper steps keep the flock with the one process inside its critical section.
LEMMA LockAgent ==
  ASSUME IInv, NEW a \in Agents, AgentNext(a)
  PROVE  LockInv'
<1>1. UNCHANGED worker
  BY AgentFrame DEF IInv, workerVars
<1>2. lock' = a <=> pc'[a] \notin {"idle", "lock"}
  BY HoldersAreDistinct DEF AgentNext, StartEnsure, StartStatus, StartFallback, FallbackWithoutRoot, Acquire,
          LockTimeout, FallbackAllowed, FallbackRefused, EnsureRead, StatusGone, StatusRead,
          Inspect, InspectFails, EnsureMismatch, EnsureRefused, EnsureResume, EnsureBusy,
          EnsureAbsent, EnsureWrite, EnsureWriteFails, EnsureSubmit, EnsureCreated,
          EnsureStartFails, EnsureStartTimeout, StatusEnded, StatusRunning, StatusMismatch,
          AgentKilled, Finish, StartOp, Goto, IInv, TypeOK, LockInv,
          files, systemdVars, workerVars, sessionVars, agentVars, clientVars
<1>3. \A b \in Agents \ {a} : lock' = b <=> lock = b
  BY AgentFrame, HoldersAreDistinct DEF IInv
<1>4. \A t \in Tokens : lock' = t <=> lock = t
  BY AgentFrame, HoldersAreDistinct DEF IInv
<1> QED BY <1>1, <1>2, <1>3, <1>4, AgentFrame DEF IInv, LockInv

\* Worker steps keep the flock with the one process inside its critical section.
LEMMA LockWorker ==
  ASSUME IInv, NEW t \in Tokens, WorkerNext(t)
  PROVE  LockInv'
<1>1. UNCHANGED pc
  BY WorkerFrame DEF IInv, agentVars
<1>2. lock' = t <=> worker'[t] \in {"check", "spawn", "record", "publish", "unlink"}
  BY HoldersAreDistinct DEF WorkerNext, WorkerBoots, WorkerAcquire, WorkerClaims, WorkerIsStale, WorkerSpawns,
          WorkerSpawnFails, WorkerRecords, WorkerRecordFails, WorkerReadsDisplay,
          WorkerPublishLock, WorkerPublishes, WorkerPublishFails, WorkerLeavesLoop,
          WorkerTerminatesXpra, WorkerFinalLock, WorkerLockTimeout, WorkerUnlinks,
          WorkerDies, Step, Forget, WorkerAlive,
          IInv, TypeOK, LockInv, files, systemdVars, workerVars, sessionVars, agentVars, clientVars
<1>3. lock' = lock \/ (lock = NoHolder /\ lock' = t) \/ (lock = t /\ lock' = NoHolder)
  BY DEF WorkerNext, WorkerBoots, WorkerAcquire, WorkerClaims, WorkerIsStale, WorkerSpawns,
          WorkerSpawnFails, WorkerRecords, WorkerRecordFails, WorkerReadsDisplay,
          WorkerPublishLock, WorkerPublishes, WorkerPublishFails, WorkerLeavesLoop,
          WorkerTerminatesXpra, WorkerFinalLock, WorkerLockTimeout, WorkerUnlinks,
          WorkerDies, Step, Forget,
          IInv, LockInv, files, systemdVars, workerVars, sessionVars, agentVars, clientVars
<1>4. \A a \in Agents : lock' = a <=> lock = a
  BY <1>3, HoldersAreDistinct
<1>5. \A u \in Tokens \ {t} : lock' = u <=> lock = u
  BY <1>3, HoldersAreDistinct
<1> QED BY <1>1, <1>2, <1>4, <1>5, WorkerFrame DEF IInv, LockInv

\* A killed or stopped worker releases the flock it held.
LEMMA LockManager ==
  ASSUME IInv, NEW t \in Tokens, ManagerNext(t)
  PROVE  LockInv'
<1>1. UNCHANGED pc
  BY ManagerFrame DEF agentVars
<1>2. \/ UNCHANGED lock /\ UNCHANGED worker
      \/ worker[t] \in {"none", "boot"} /\ UNCHANGED lock /\
         worker' \in {[worker EXCEPT ![t] = "boot"], [worker EXCEPT ![t] = "dead"]}
      \/ worker' = [worker EXCEPT ![t] = "dead"] /\ lock' = IF lock = t THEN NoHolder ELSE lock
  BY DEF ManagerNext, ManagerAccepts, ManagerRefuses, ManagerExecs, ManagerExecFails,
          ManagerStops, ManagerReaps, ManagerKills, ManagerCollects, JobIs, Step, Forget, IInv, JobInv,
          files, systemdVars, workerVars, sessionVars, agentVars, clientVars
<1> QED BY <1>1, <1>2, HoldersAreDistinct DEF IInv, TypeOK, LockInv

\* Helper steps keep the parts of the invariant about records, jobs and owners.
LEMMA RestAgent ==
  ASSUME IInv, NEW a \in Agents, AgentNext(a)
  PROVE  RecordInv' /\ JobInv' /\ CgroupInv' /\ MemInv' /\ OwnerInv' /\ ReplaceInv' /\ AgentInv'
<1>1. UNCHANGED <<worker, mem, stopping, xpra, leftover, unit>>
  BY AgentFrame DEF IInv, workerVars, sessionVars
<1>2. RecordInv'
  BY AgentFrame DEF EnsureWrite, IInv, RecordInv, AgentInv, HelperInv
<1>3. JobInv'
  <2>1. CASE EnsureWrite(a)
    BY <2>1, <1>1 DEF EnsureWrite, systemdVars, IInv, TypeOK, JobInv, XpraAlive, Tokens
  <2>2. CASE EnsureSubmit(a)
    BY <2>2, <1>1 DEF EnsureSubmit, files, IInv, TypeOK, JobInv, XpraAlive, AgentInv, HelperInv, RecordInv, Tokens
  <2>3. CASE ~EnsureWrite(a) /\ ~EnsureSubmit(a)
    BY <2>3, <1>1, AgentFrame DEF IInv, JobInv, XpraAlive
  <2> QED BY <2>1, <2>2, <2>3
<1>4. CgroupInv' /\ MemInv'
  BY <1>1 DEF IInv, CgroupInv, MemInv, WorkerAlive, DescendantAlive, XpraAlive
<1>5. \A t \in Tokens : Owner(t)' <=> Owner(t)
  BY <1>1 DEF Owner, XpraAlive
<1>6. OwnerInv'
  <2>1. CASE EnsureWrite(a)
    BY <2>1, <1>5 DEF EnsureWrite, IInv, ReplaceInv, OwnerInv
  <2>2. CASE ~EnsureWrite(a)
    BY <2>2, <1>5, AgentFrame DEF IInv, OwnerInv
  <2> QED BY <2>1, <2>2
<1>7. ReplaceInv'
  <2>1. pc'[a] = "write" \/ (pc'[a] = "decide" /\ seen'[a] = NoUnit)
          => \A t \in Tokens : ~Owner(t)
    <3>1. pc'[a] = "write" => EnsureAbsent(a)
      BY DEF AgentNext, StartEnsure, StartStatus, StartFallback, FallbackWithoutRoot, Acquire,
          LockTimeout, FallbackAllowed, FallbackRefused, EnsureRead, StatusGone, StatusRead,
          Inspect, InspectFails, EnsureMismatch, EnsureRefused, EnsureResume, EnsureBusy,
          EnsureAbsent, EnsureWrite, EnsureWriteFails, EnsureSubmit, EnsureCreated,
          EnsureStartFails, EnsureStartTimeout, StatusEnded, StatusRunning, StatusMismatch,
          AgentKilled, Finish, StartOp, Goto, files, systemdVars, workerVars, sessionVars, agentVars, clientVars, IInv, TypeOK
    <3>2. pc'[a] = "decide" => Inspect(a)
      BY DEF AgentNext, StartEnsure, StartStatus, StartFallback, FallbackWithoutRoot, Acquire,
          LockTimeout, FallbackAllowed, FallbackRefused, EnsureRead, StatusGone, StatusRead,
          Inspect, InspectFails, EnsureMismatch, EnsureRefused, EnsureResume, EnsureBusy,
          EnsureAbsent, EnsureWrite, EnsureWriteFails, EnsureSubmit, EnsureCreated,
          EnsureStartFails, EnsureStartTimeout, StatusEnded, StatusRunning, StatusMismatch,
          AgentKilled, Finish, StartOp, Goto, files, systemdVars, workerVars, sessionVars, agentVars, clientVars, IInv, TypeOK
    <3> QED BY <3>1, <3>2 DEF EnsureAbsent, Inspect, IInv, TypeOK, ReplaceInv, CgroupInv, LockInv, JobInv, Owner, WorkerAlive, DescendantAlive
  <2> QED BY <2>1, <1>5, AgentFrame DEF IInv, ReplaceInv
<1>8. AgentInv'
  <2>1. ASSUME NEW b \in Agents \ {a} PROVE HelperInv(b)'
    <3>1. lock = b => UNCHANGED <<record, job>>
      BY <2>1, HoldersAreDistinct, AgentFrame DEF EnsureWrite, EnsureSubmit, IInv, LockInv
    <3>2. pc[b] \notin {"idle", "lock"} => lock = b
      BY <2>1 DEF IInv, LockInv
    <3>3. known \subseteq known'
      BY AgentFrame DEF EnsureResume, EnsureCreated, IInv
    <3> QED BY <2>1, <3>1, <3>2, <3>3, AgentFrame DEF IInv, AgentInv, HelperInv
  <2>2. HelperInv(a)'
    <3>1. pc'[a] \in {"inspect", "decide"} => rec'[a] = record'
      BY DEF AgentNext, StartEnsure, StartStatus, StartFallback, FallbackWithoutRoot, Acquire,
          LockTimeout, FallbackAllowed, FallbackRefused, EnsureRead, StatusGone, StatusRead,
          Inspect, InspectFails, EnsureMismatch, EnsureRefused, EnsureResume, EnsureBusy,
          EnsureAbsent, EnsureWrite, EnsureWriteFails, EnsureSubmit, EnsureCreated,
          EnsureStartFails, EnsureStartTimeout, StatusEnded, StatusRunning, StatusMismatch,
          AgentKilled, Finish, StartOp, Goto, files, systemdVars, workerVars, sessionVars, agentVars, clientVars, IInv, TypeOK, AgentInv, HelperInv
    <3>2. pc'[a] \in {"write", "submit", "starting"} => op'[a] = "ensure"
      BY DEF AgentNext, StartEnsure, StartStatus, StartFallback, FallbackWithoutRoot, Acquire,
          LockTimeout, FallbackAllowed, FallbackRefused, EnsureRead, StatusGone, StatusRead,
          Inspect, InspectFails, EnsureMismatch, EnsureRefused, EnsureResume, EnsureBusy,
          EnsureAbsent, EnsureWrite, EnsureWriteFails, EnsureSubmit, EnsureCreated,
          EnsureStartFails, EnsureStartTimeout, StatusEnded, StatusRunning, StatusMismatch,
          AgentKilled, Finish, StartOp, Goto, files, systemdVars, workerVars, sessionVars, agentVars, clientVars, IInv, TypeOK, AgentInv, HelperInv
    <3>3. pc'[a] # "idle" /\ op'[a] = "ensure" => asked'[a] \in Requests
      BY DEF AgentNext, StartEnsure, StartStatus, StartFallback, FallbackWithoutRoot, Acquire,
          LockTimeout, FallbackAllowed, FallbackRefused, EnsureRead, StatusGone, StatusRead,
          Inspect, InspectFails, EnsureMismatch, EnsureRefused, EnsureResume, EnsureBusy,
          EnsureAbsent, EnsureWrite, EnsureWriteFails, EnsureSubmit, EnsureCreated,
          EnsureStartFails, EnsureStartTimeout, StatusEnded, StatusRunning, StatusMismatch,
          AgentKilled, Finish, StartOp, Goto, files, systemdVars, workerVars, sessionVars, agentVars, clientVars, IInv, TypeOK, AgentInv, HelperInv
    <3>4. pc'[a] # "idle" /\ op'[a] = "status" => token'[a] \in known'
      BY DEF AgentNext, StartEnsure, StartStatus, StartFallback, FallbackWithoutRoot, Acquire,
          LockTimeout, FallbackAllowed, FallbackRefused, EnsureRead, StatusGone, StatusRead,
          Inspect, InspectFails, EnsureMismatch, EnsureRefused, EnsureResume, EnsureBusy,
          EnsureAbsent, EnsureWrite, EnsureWriteFails, EnsureSubmit, EnsureCreated,
          EnsureStartFails, EnsureStartTimeout, StatusEnded, StatusRunning, StatusMismatch,
          AgentKilled, Finish, StartOp, Goto, files, systemdVars, workerVars, sessionVars, agentVars, clientVars, IInv, TypeOK, AgentInv, HelperInv
    <3>5. pc'[a] = "submit" => EnsureWrite(a)
      BY DEF AgentNext, StartEnsure, StartStatus, StartFallback, FallbackWithoutRoot, Acquire,
          LockTimeout, FallbackAllowed, FallbackRefused, EnsureRead, StatusGone, StatusRead,
          Inspect, InspectFails, EnsureMismatch, EnsureRefused, EnsureResume, EnsureBusy,
          EnsureAbsent, EnsureWrite, EnsureWriteFails, EnsureSubmit, EnsureCreated,
          EnsureStartFails, EnsureStartTimeout, StatusEnded, StatusRunning, StatusMismatch,
          AgentKilled, Finish, StartOp, Goto, files, systemdVars, workerVars, sessionVars, agentVars, clientVars, IInv, TypeOK
    <3>6. pc'[a] = "starting" => EnsureSubmit(a)
      BY DEF AgentNext, StartEnsure, StartStatus, StartFallback, FallbackWithoutRoot, Acquire,
          LockTimeout, FallbackAllowed, FallbackRefused, EnsureRead, StatusGone, StatusRead,
          Inspect, InspectFails, EnsureMismatch, EnsureRefused, EnsureResume, EnsureBusy,
          EnsureAbsent, EnsureWrite, EnsureWriteFails, EnsureSubmit, EnsureCreated,
          EnsureStartFails, EnsureStartTimeout, StatusEnded, StatusRunning, StatusMismatch,
          AgentKilled, Finish, StartOp, Goto, files, systemdVars, workerVars, sessionVars, agentVars, clientVars, IInv, TypeOK
    <3>7. pc'[a] \in {"submit", "starting"}
            => record' # NoRecord /\ record'.token = token'[a] /\ record'.request = asked'[a]
      <4>1. CASE EnsureWrite(a)
        <5>1. record'.token = issued + 1 /\ record'.request = asked[a] /\ token'[a] = issued + 1
          BY <4>1 DEF EnsureWrite, IInv, TypeOK
        <5>2. NoRecord.token = 0 /\ issued + 1 # 0
          BY DEF NoRecord, NoToken, IInv, TypeOK
        <5> QED BY <4>1, <5>1, <5>2 DEF EnsureWrite
      <4>2. CASE EnsureSubmit(a)
        <5>1. pc[a] = "submit"
          BY <4>2 DEF EnsureSubmit
        <5>2. UNCHANGED <<record, token, asked>>
          BY <4>2 DEF EnsureSubmit, files
        <5> QED BY <5>1, <5>2 DEF IInv, AgentInv, HelperInv
      <4> QED BY <3>5, <3>6, <4>1, <4>2
    <3>8. pc'[a] = "submit" => job'[token'[a]] = "none"
      <4>1. SUFFICES ASSUME EnsureWrite(a) PROVE job'[token'[a]] = "none"
        BY <3>5
      <4>2. token'[a] = issued + 1 /\ issued + 1 \in Tokens /\ UNCHANGED job
        BY <4>1, MaxTokenAssumption DEF EnsureWrite, systemdVars, IInv, TypeOK, Tokens
      <4> QED BY <4>2 DEF IInv, TypeOK, JobInv
    <3>9. pc'[a] # "idle" => root'
      BY AgentFrame DEF IInv, AgentInv, HelperInv
    <3> QED BY <3>1, <3>2, <3>3, <3>4, <3>7, <3>8, <3>9 DEF HelperInv
  <2> QED BY <2>1, <2>2 DEF AgentInv
<1> QED BY <1>2, <1>3, <1>4, <1>6, <1>7, <1>8

\* Worker steps keep the parts of the invariant about records, jobs and owners.
LEMMA RestWorker ==
  ASSUME IInv, NEW t \in Tokens, WorkerNext(t)
  PROVE  RecordInv' /\ JobInv' /\ CgroupInv' /\ MemInv' /\ OwnerInv' /\ ReplaceInv' /\ AgentInv'
<1>1. UNCHANGED <<agentVars, systemdVars, clientVars, root, issued>>
  BY WorkerFrame DEF IInv
<1>2. record' # record =>
        \/ Owner(t) /\ lock = t /\ record'.token = t /\ record' # NoRecord
        \/ lock = t /\ record.token = t /\ record' = NoRecord /\ worker[t] = "unlink"
  <2>1. CASE WorkerRecords(t)
    BY <2>1 DEF WorkerRecords, Owner, IInv, LockInv, MemInv, NoRecord, Records, Tokens, NoToken
  <2>2. CASE WorkerPublishes(t)
    <3>1. mem[t] \in Records /\ mem[t].token = t /\ lock = t /\ Owner(t)
      BY <2>2 DEF WorkerPublishes, Owner, IInv, LockInv, MemInv
    <3>2. record' = [mem[t] EXCEPT !.display = TRUE]
      BY <2>2 DEF WorkerPublishes, IInv, TypeOK
    <3> QED BY <3>1, <3>2 DEF Records, NoRecord, Tokens, NoToken
  <2>3. CASE WorkerUnlinks(t)
    BY <2>3 DEF WorkerUnlinks, IInv, LockInv
  <2> QED BY <2>1, <2>2, <2>3, WorkerFrame DEF IInv
<1>3. RecordInv'
  BY <1>1, <1>2 DEF IInv, RecordInv, OwnerInv
<1>4. JobInv'
  BY DEF WorkerNext, WorkerBoots, WorkerAcquire, WorkerClaims, WorkerIsStale, WorkerSpawns,
          WorkerSpawnFails, WorkerRecords, WorkerRecordFails, WorkerReadsDisplay,
          WorkerPublishLock, WorkerPublishes, WorkerPublishFails, WorkerLeavesLoop,
          WorkerTerminatesXpra, WorkerFinalLock, WorkerLockTimeout, WorkerUnlinks,
          WorkerDies, Step, Forget,
          files, systemdVars, workerVars, sessionVars, agentVars, clientVars, IInv, TypeOK, JobInv, XpraAlive, WorkerAlive
<1>5. CgroupInv'
  BY DEF WorkerNext, WorkerBoots, WorkerAcquire, WorkerClaims, WorkerIsStale, WorkerSpawns,
          WorkerSpawnFails, WorkerRecords, WorkerRecordFails, WorkerReadsDisplay,
          WorkerPublishLock, WorkerPublishes, WorkerPublishFails, WorkerLeavesLoop,
          WorkerTerminatesXpra, WorkerFinalLock, WorkerLockTimeout, WorkerUnlinks,
          WorkerDies, Step, Forget,
          files, systemdVars, workerVars, sessionVars, agentVars, clientVars, IInv, TypeOK, JobInv, CgroupInv, XpraAlive, WorkerAlive, DescendantAlive
<1>6. MemInv'
  <2>1. ASSUME worker'[t] \in {"spawn", "record", "watch", "publishWait", "publish"}
        PROVE  mem'[t] \in Records /\ mem'[t].token = t
    <3>1. CASE WorkerClaims(t)
      <4>1. record \in Records
        BY <3>1 DEF WorkerClaims, IInv, TypeOK, NoRecord, Tokens, NoToken
      <4>2. mem'[t] = [record EXCEPT !.worker = TRUE]
        BY <3>1 DEF WorkerClaims, IInv, TypeOK
      <4>3. record.token = t
        BY <3>1 DEF WorkerClaims
      <4> QED BY <4>1, <4>2, <4>3 DEF Records
    <3>2. CASE WorkerPublishes(t)
      <4>1. mem[t] \in Records /\ mem[t].token = t
        BY <3>2 DEF WorkerPublishes, IInv, MemInv
      <4>2. mem'[t] = [mem[t] EXCEPT !.display = TRUE]
        BY <3>2 DEF WorkerPublishes, IInv, TypeOK
      <4> QED BY <4>1, <4>2 DEF Records
    <3>3. CASE ~WorkerClaims(t) /\ ~WorkerPublishes(t)
      <4>1. worker[t] \in {"spawn", "record", "watch", "publishWait", "publish"} /\ UNCHANGED mem
        BY <2>1, <3>3 DEF WorkerNext, WorkerBoots, WorkerAcquire, WorkerClaims, WorkerIsStale, WorkerSpawns,
          WorkerSpawnFails, WorkerRecords, WorkerRecordFails, WorkerReadsDisplay,
          WorkerPublishLock, WorkerPublishes, WorkerPublishFails, WorkerLeavesLoop,
          WorkerTerminatesXpra, WorkerFinalLock, WorkerLockTimeout, WorkerUnlinks,
          WorkerDies, Step, Forget,
            files, systemdVars, workerVars, sessionVars, agentVars, clientVars, IInv, TypeOK, WorkerAlive
      <4> QED BY <4>1 DEF IInv, MemInv
    <3> QED BY <3>1, <3>2, <3>3
  <2> QED BY <2>1, WorkerFrame DEF IInv, MemInv
<1>7. Owner(t)' => Owner(t) \/ WorkerClaims(t)
  BY DEF WorkerNext, WorkerBoots, WorkerAcquire, WorkerClaims, WorkerIsStale, WorkerSpawns,
          WorkerSpawnFails, WorkerRecords, WorkerRecordFails, WorkerReadsDisplay,
          WorkerPublishLock, WorkerPublishes, WorkerPublishFails, WorkerLeavesLoop,
          WorkerTerminatesXpra, WorkerFinalLock, WorkerLockTimeout, WorkerUnlinks,
          WorkerDies, Step, Forget,
          files, systemdVars, workerVars, sessionVars, agentVars, clientVars, IInv, TypeOK, Owner, XpraAlive, WorkerAlive
<1>8. \A u \in Tokens \ {t} : Owner(u)' <=> Owner(u)
  BY WorkerFrame DEF Owner, XpraAlive, IInv
<1>9. OwnerInv'
  <2>1. Owner(t)' => t = issued' /\ record' # NoRecord /\ record'.token = t
    <3>1. CASE WorkerClaims(t)
      BY <3>1 DEF WorkerClaims, files, systemdVars, IInv, RecordInv, NoRecord, NoToken, Tokens
    <3>2. CASE Owner(t)
      <4>1. worker[t] # "unlink"
        BY <3>2 DEF Owner, IInv, JobInv
      <4> QED BY <1>1, <1>2, <3>2, <4>1 DEF IInv, OwnerInv
    <3> QED BY <1>7, <3>1, <3>2
  <2>2. ASSUME NEW u \in Tokens \ {t}, Owner(u)'
        PROVE  u = issued' /\ record' # NoRecord /\ record'.token = u
    <3>1. Owner(u)
      BY <1>8, <2>2
    <3>2. u = issued /\ record # NoRecord /\ record.token = u
      BY <3>1 DEF IInv, OwnerInv
    <3>3. ~Owner(t) /\ record.token # t
      BY <3>2, <2>2 DEF IInv, OwnerInv
    <3> QED BY <1>1, <1>2, <3>2, <3>3
  <2> QED BY <2>1, <2>2 DEF OwnerInv
<1>10. ReplaceInv'
  BY <1>1, <1>7, <1>8, HoldersAreDistinct DEF WorkerClaims, IInv, ReplaceInv, LockInv, agentVars
<1>11. AgentInv'
  BY <1>1, <1>2, HoldersAreDistinct DEF IInv, LockInv, AgentInv, HelperInv, agentVars, systemdVars, clientVars
<1> QED BY <1>3, <1>4, <1>5, <1>6, <1>9, <1>10, <1>11

\* Xpra and its application only ever leave; the whole invariant survives.
LEMMA RestSession ==
  ASSUME IInv, NEW t \in Tokens, SessionNext(t)
  PROVE  IInv'
<1>1. UNCHANGED <<lock, files, systemdVars, workerVars, agentVars, clientVars>>
  BY DEF SessionNext, XpraExits, XpraClosesPipes, LeftoverExits, files, systemdVars, workerVars, sessionVars, agentVars, clientVars
<1>2. \A u \in Tokens : DescendantAlive(u)' => DescendantAlive(u)
  BY DEF SessionNext, XpraExits, XpraClosesPipes, LeftoverExits, DescendantAlive, XpraAlive, IInv, TypeOK
<1>3. \A u \in Tokens : XpraAlive(u)' => XpraAlive(u)
  BY DEF SessionNext, XpraExits, XpraClosesPipes, LeftoverExits, XpraAlive, IInv, TypeOK
<1>4. \A u \in Tokens : xpra[u] = "none" <=> xpra'[u] = "none"
  BY DEF SessionNext, XpraExits, XpraClosesPipes, LeftoverExits, XpraAlive, IInv, TypeOK
<1>5. \A u \in Tokens : job[u] # "done" => ~leftover'[u]
  BY DEF SessionNext, XpraExits, XpraClosesPipes, LeftoverExits, XpraAlive, IInv, TypeOK, JobInv
<1>6. \A u \in Tokens : Owner(u)' => Owner(u)
  BY <1>1, <1>3 DEF Owner, workerVars
<1>7. LockInv' /\ RecordInv' /\ MemInv' /\ AgentInv'
  BY <1>1 DEF IInv, LockInv, RecordInv, MemInv, AgentInv, HelperInv, files, systemdVars,
          workerVars, agentVars, clientVars
<1>8. JobInv' /\ CgroupInv'
  BY <1>1, <1>2, <1>3, <1>4, <1>5 DEF IInv, JobInv, CgroupInv, WorkerAlive, files, systemdVars, workerVars
<1>9. OwnerInv' /\ ReplaceInv'
  BY <1>1, <1>6 DEF IInv, OwnerInv, ReplaceInv, files, agentVars
<1>10. ClientInv' /\ (\A a \in Agents : VerdictInv(a)')
  BY <1>1 DEF IInv, ClientInv, VerdictInv, UnitRuns, files, systemdVars, agentVars, clientVars
<1> QED BY <1>7, <1>8, <1>9, <1>10, TypeSession DEF IInv

\* Manager steps keep the parts of the invariant about records, jobs and owners.
LEMMA RestManager ==
  ASSUME IInv, NEW t \in Tokens, ManagerNext(t)
  PROVE  RecordInv' /\ JobInv' /\ CgroupInv' /\ MemInv' /\ OwnerInv' /\ ReplaceInv' /\ AgentInv'
<1>1. UNCHANGED <<files, agentVars, clientVars>>
  BY ManagerFrame
<1>2. \A u \in Tokens : Owner(u)' => Owner(u)
  BY DEF ManagerNext, ManagerAccepts, ManagerRefuses, ManagerExecs, ManagerExecFails,
          ManagerStops, ManagerReaps, ManagerKills, ManagerCollects, JobIs, Step, Forget, files, systemdVars, workerVars, sessionVars, agentVars, clientVars, Owner, XpraAlive, IInv, TypeOK
<1>3. RecordInv' /\ OwnerInv' /\ ReplaceInv'
  BY <1>1, <1>2 DEF IInv, RecordInv, OwnerInv, ReplaceInv, files, agentVars
<1>4. MemInv'
  BY DEF ManagerNext, ManagerAccepts, ManagerRefuses, ManagerExecs, ManagerExecFails,
          ManagerStops, ManagerReaps, ManagerKills, ManagerCollects, JobIs, Step, Forget, files, systemdVars, workerVars, sessionVars, agentVars, clientVars, IInv, TypeOK, MemInv
<1>5. JobInv'
  <2>1. CASE ManagerAccepts(t)
    BY <2>1, <1>1 DEF ManagerAccepts, JobIs, Step, Forget, files, systemdVars, workerVars, sessionVars, IInv, TypeOK,
           JobInv, WorkerAlive, DescendantAlive, XpraAlive, NoUnit, NoToken, Tokens
  <2>2. CASE ManagerRefuses(t)
    BY <2>2, <1>1 DEF ManagerRefuses, JobIs, Step, Forget, files, systemdVars, workerVars, sessionVars, IInv, TypeOK,
           JobInv, WorkerAlive, DescendantAlive, XpraAlive, NoUnit, NoToken, Tokens
  <2>3. CASE ManagerExecs(t)
    BY <2>3, <1>1 DEF ManagerExecs, JobIs, Step, Forget, files, systemdVars, workerVars, sessionVars, IInv, TypeOK,
           JobInv, WorkerAlive, DescendantAlive, XpraAlive, NoUnit, NoToken, Tokens
  <2>4. CASE ManagerExecFails(t)
    BY <2>4, <1>1 DEF ManagerExecFails, JobIs, Step, Forget, files, systemdVars, workerVars, sessionVars, IInv, TypeOK,
           JobInv, WorkerAlive, DescendantAlive, XpraAlive, NoUnit, NoToken, Tokens
  <2>5. CASE ManagerStops(t)
    <3>1. UNCHANGED <<xpra, leftover, job, issued>>
      BY <2>5, <1>1 DEF ManagerStops, sessionVars, files
    <3>2. \A u \in Tokens : (worker'[u] = worker[u]) \/ (worker[u] = "boot" /\ worker'[u] = "dead")
      <4>1. worker \in [Tokens -> WorkerStates]
        BY DEF IInv, TypeOK
      <4>2. CASE worker[t] = "boot"
        <5>1. worker' = [worker EXCEPT ![t] = "dead"]
          BY <2>5, <4>2 DEF ManagerStops, Step
        <5> QED BY <4>1, <4>2, <5>1
      <4>3. CASE worker[t] # "boot"
        <5>1. worker' = worker
          BY <2>5, <4>3 DEF ManagerStops, Step
        <5> QED BY <5>1
      <4> QED BY <4>2, <4>3
    <3>3. unit'.token = unit.token /\ unit'.state = "deactivating"
      BY <2>5 DEF ManagerStops
    <3> QED BY <3>1, <3>2, <3>3 DEF IInv, JobInv, XpraAlive
  <2>6. CASE ManagerReaps(t)
    BY <2>6, <1>1 DEF ManagerReaps, JobIs, Step, Forget, files, systemdVars, workerVars, sessionVars, IInv, TypeOK,
           JobInv, WorkerAlive, DescendantAlive, XpraAlive, NoUnit, NoToken, Tokens
  <2>7. CASE ManagerKills(t)
    BY <2>7, <1>1 DEF ManagerKills, JobIs, Step, Forget, files, systemdVars, workerVars, sessionVars, IInv, TypeOK,
           JobInv, WorkerAlive, DescendantAlive, XpraAlive, NoUnit, NoToken, Tokens
  <2>8. CASE ManagerCollects(t)
    BY <2>8, <1>1 DEF ManagerCollects, JobIs, Step, Forget, files, systemdVars, workerVars, sessionVars, IInv, TypeOK,
           JobInv, WorkerAlive, DescendantAlive, XpraAlive, NoUnit, NoToken, Tokens
  <2> QED BY <2>1, <2>2, <2>3, <2>4, <2>5, <2>6, <2>7, <2>8 DEF ManagerNext
<1>6. CgroupInv'
  <2>1. CASE ManagerAccepts(t)
    BY <2>1, <1>1 DEF ManagerAccepts, JobIs, Step, Forget, files, systemdVars, workerVars, sessionVars, IInv, TypeOK,
           JobInv, CgroupInv, WorkerAlive, DescendantAlive, XpraAlive, NoUnit, NoToken, Tokens
  <2>2. CASE ManagerRefuses(t)
    BY <2>2, <1>1 DEF ManagerRefuses, JobIs, Step, Forget, files, systemdVars, workerVars, sessionVars, IInv, TypeOK,
           JobInv, CgroupInv, WorkerAlive, DescendantAlive, XpraAlive, NoUnit, NoToken, Tokens
  <2>3. CASE ManagerExecs(t)
    BY <2>3, <1>1 DEF ManagerExecs, JobIs, Step, Forget, files, systemdVars, workerVars, sessionVars, IInv, TypeOK,
           JobInv, CgroupInv, WorkerAlive, DescendantAlive, XpraAlive, NoUnit, NoToken, Tokens
  <2>4. CASE ManagerExecFails(t)
    BY <2>4, <1>1 DEF ManagerExecFails, JobIs, Step, Forget, files, systemdVars, workerVars, sessionVars, IInv, TypeOK,
           JobInv, CgroupInv, WorkerAlive, DescendantAlive, XpraAlive, NoUnit, NoToken, Tokens
  <2>5. CASE ManagerStops(t)
    <3>1. \A u \in Tokens : WorkerAlive(u)' => WorkerAlive(u)
      BY <2>5 DEF ManagerStops, Step, WorkerAlive, IInv, TypeOK
    <3>2. \A u \in Tokens : DescendantAlive(u)' => DescendantAlive(u)
      BY <2>5 DEF ManagerStops, sessionVars, DescendantAlive, XpraAlive
    <3>3. unit.token = t /\ unit' = [token |-> t, state |-> "deactivating", main |-> unit.main]
      BY <2>5 DEF ManagerStops
    <3>4. unit'.token = t /\ unit'.main = unit.main /\ unit' # NoUnit
      BY <3>3 DEF NoUnit, NoToken, Tokens
    <3> QED BY <3>1, <3>2, <3>3, <3>4 DEF IInv, CgroupInv
  <2>6. CASE ManagerReaps(t)
    BY <2>6, <1>1 DEF ManagerReaps, JobIs, Step, Forget, files, systemdVars, workerVars, sessionVars, IInv, TypeOK,
           JobInv, CgroupInv, WorkerAlive, DescendantAlive, XpraAlive, NoUnit, NoToken, Tokens
  <2>7. CASE ManagerKills(t)
    BY <2>7, <1>1 DEF ManagerKills, JobIs, Step, Forget, files, systemdVars, workerVars, sessionVars, IInv, TypeOK,
           JobInv, CgroupInv, WorkerAlive, DescendantAlive, XpraAlive, NoUnit, NoToken, Tokens
  <2>8. CASE ManagerCollects(t)
    BY <2>8, <1>1 DEF ManagerCollects, JobIs, Step, Forget, files, systemdVars, workerVars, sessionVars, IInv, TypeOK,
           JobInv, CgroupInv, WorkerAlive, DescendantAlive, XpraAlive, NoUnit, NoToken, Tokens
  <2> QED BY <2>1, <2>2, <2>3, <2>4, <2>5, <2>6, <2>7, <2>8 DEF ManagerNext
<1>7. \A u \in Tokens : job[u] = "none" => job'[u] = "none"
  <2>1. CASE ManagerAccepts(t)
    BY <2>1, <1>1 DEF ManagerAccepts, JobIs, Step, Forget, systemdVars, workerVars, IInv, TypeOK, JobInv, NoUnit, NoToken, Tokens
  <2>2. CASE ManagerRefuses(t)
    BY <2>2, <1>1 DEF ManagerRefuses, JobIs, Step, Forget, systemdVars, workerVars, IInv, TypeOK, JobInv, NoUnit, NoToken, Tokens
  <2>3. CASE ManagerExecs(t)
    BY <2>3, <1>1 DEF ManagerExecs, JobIs, Step, Forget, systemdVars, workerVars, IInv, TypeOK, JobInv, NoUnit, NoToken, Tokens
  <2>4. CASE ManagerExecFails(t)
    BY <2>4, <1>1 DEF ManagerExecFails, JobIs, Step, Forget, systemdVars, workerVars, IInv, TypeOK, JobInv, NoUnit, NoToken, Tokens
  <2>5. CASE ManagerStops(t)
    BY <2>5, <1>1 DEF ManagerStops, JobIs, Step, Forget, systemdVars, workerVars, IInv, TypeOK, JobInv, NoUnit, NoToken, Tokens
  <2>6. CASE ManagerReaps(t)
    BY <2>6, <1>1 DEF ManagerReaps, JobIs, Step, Forget, systemdVars, workerVars, IInv, TypeOK, JobInv, NoUnit, NoToken, Tokens
  <2>7. CASE ManagerKills(t)
    BY <2>7, <1>1 DEF ManagerKills, JobIs, Step, Forget, systemdVars, workerVars, IInv, TypeOK, JobInv, NoUnit, NoToken, Tokens
  <2>8. CASE ManagerCollects(t)
    BY <2>8, <1>1 DEF ManagerCollects, JobIs, Step, Forget, systemdVars, workerVars, IInv, TypeOK, JobInv, NoUnit, NoToken, Tokens
  <2> QED BY <2>1, <2>2, <2>3, <2>4, <2>5, <2>6, <2>7, <2>8 DEF ManagerNext
<1>8. AgentInv'
  <2>1. ASSUME NEW a \in Agents PROVE HelperInv(a)'
    <3>1. pc[a] = "submit" => token[a] \in Tokens
      BY DEF IInv, TypeOK, AgentInv, HelperInv, Records
    <3> QED BY <1>1, <1>7, <3>1 DEF IInv, AgentInv, HelperInv, files, agentVars, clientVars
  <2> QED BY <2>1 DEF AgentInv
<1> QED BY <1>3, <1>4, <1>5, <1>6, <1>8

\* Helper steps keep what clients know consistent with records and units.
LEMMA ClientAgent ==
  ASSUME IInv, NEW a \in Agents, AgentNext(a)
  PROVE  ClientInv'
<1>1. UNCHANGED unit
  BY AgentFrame DEF IInv
<1>2. ended' \subseteq known'
  BY AgentFrame DEF EnsureResume, EnsureCreated, StatusGone, StatusEnded, IInv, AgentInv,
     HelperInv, ClientInv
<1>3. ASSUME NEW t \in known' PROVE t <= issued' /\ job'[t] \notin {"none", "sent"}
  <2>1. issued <= issued'
    BY AgentFrame DEF EnsureWrite, IInv, TypeOK
  <2>2. CASE t \in known
    <3>1. t <= issued /\ job[t] \notin {"none", "sent"} /\ t \in Tokens
      BY <2>2 DEF IInv, TypeOK, ClientInv
    <3>2. t <= issued'
      BY <2>1, <3>1, AgentFrame DEF EnsureWrite, IInv, TypeOK, Tokens
    <3>3. EnsureSubmit(a) => job'[t] = job[t]
      BY <3>1 DEF EnsureSubmit, IInv, TypeOK, AgentInv, HelperInv
    <3> QED BY <3>1, <3>2, <3>3, AgentFrame DEF IInv
  <2>3. CASE EnsureResume(a) /\ t = rec[a].token
    BY <2>3 DEF EnsureResume, UnitRuns, files, systemdVars, Verified, IInv, TypeOK, AgentInv, HelperInv,
       RecordInv, VerdictInv, Records
  <2>4. CASE EnsureCreated(a) /\ t = token[a]
    BY <2>4 DEF EnsureCreated, files, systemdVars, IInv, TypeOK, AgentInv, HelperInv, RecordInv
  <2> QED BY <2>2, <2>3, <2>4, AgentFrame DEF EnsureResume, EnsureCreated, IInv
<1>4. ASSUME NEW t \in ended', record'.token = t
      PROVE  ~(UnitRuns(unit') /\ unit'.token = t)
  <2>1. CASE t \in ended
    <3>1. t <= issued /\ t \in Tokens
      BY <2>1 DEF IInv, TypeOK, ClientInv
    <3>2. ~EnsureWrite(a)
      BY <1>4, <3>1 DEF EnsureWrite, IInv, TypeOK, Tokens
    <3> QED BY <1>1, <1>4, <2>1, <3>2, AgentFrame DEF IInv, ClientInv
  <2>2. CASE StatusGone(a) /\ t = token[a]
    BY <1>4, <2>2 DEF StatusGone, files
  <2>3. CASE StatusEnded(a) /\ t = token[a]
    BY <1>1, <2>3 DEF StatusEnded, IInv, VerdictInv
  <2> QED BY <2>1, <2>2, <2>3, AgentFrame DEF StatusGone, StatusEnded, IInv
<1> QED BY <1>2, <1>3, <1>4 DEF ClientInv, UnitRuns

\* What systemctl showed one helper stays decisive across steps of the helpers.
LEMMA VerdictAgent ==
  ASSUME IInv, NEW a \in Agents, AgentNext(a), NEW b \in Agents
  PROVE  VerdictInv(b)'
<1>1. UNCHANGED unit
  BY AgentFrame DEF IInv
<1>2. CASE b # a
  <2>1. lock = b => UNCHANGED <<record, job, known, ended>>
    BY <1>2, HoldersAreDistinct, AgentFrame DEF EnsureWrite, EnsureSubmit, EnsureResume,
       EnsureCreated, StatusGone, StatusEnded, IInv, LockInv
  <2>2. pc[b] \notin {"idle", "lock"} => lock = b
    BY DEF IInv, LockInv
  <2> QED BY <1>1, <1>2, <2>1, <2>2, AgentFrame DEF IInv, VerdictInv, UnitRuns
<1>3. CASE b = a
  <2> USE <1>3
  <2>1. pc'[a] = "submit" => EnsureWrite(a)
    BY DEF AgentNext, StartEnsure, StartStatus, StartFallback, FallbackWithoutRoot, Acquire,
          LockTimeout, FallbackAllowed, FallbackRefused, EnsureRead, StatusGone, StatusRead,
          Inspect, InspectFails, EnsureMismatch, EnsureRefused, EnsureResume, EnsureBusy,
          EnsureAbsent, EnsureWrite, EnsureWriteFails, EnsureSubmit, EnsureCreated,
          EnsureStartFails, EnsureStartTimeout, StatusEnded, StatusRunning, StatusMismatch,
          AgentKilled, Finish, StartOp, Goto, files, systemdVars, workerVars, sessionVars, agentVars, clientVars, IInv, TypeOK
  <2>2. pc'[a] = "starting" => EnsureSubmit(a)
    BY DEF AgentNext, StartEnsure, StartStatus, StartFallback, FallbackWithoutRoot, Acquire,
          LockTimeout, FallbackAllowed, FallbackRefused, EnsureRead, StatusGone, StatusRead,
          Inspect, InspectFails, EnsureMismatch, EnsureRefused, EnsureResume, EnsureBusy,
          EnsureAbsent, EnsureWrite, EnsureWriteFails, EnsureSubmit, EnsureCreated,
          EnsureStartFails, EnsureStartTimeout, StatusEnded, StatusRunning, StatusMismatch,
          AgentKilled, Finish, StartOp, Goto, files, systemdVars, workerVars, sessionVars, agentVars, clientVars, IInv, TypeOK
  <2>3. pc'[a] = "decide" => Inspect(a)
    BY DEF AgentNext, StartEnsure, StartStatus, StartFallback, FallbackWithoutRoot, Acquire,
          LockTimeout, FallbackAllowed, FallbackRefused, EnsureRead, StatusGone, StatusRead,
          Inspect, InspectFails, EnsureMismatch, EnsureRefused, EnsureResume, EnsureBusy,
          EnsureAbsent, EnsureWrite, EnsureWriteFails, EnsureSubmit, EnsureCreated,
          EnsureStartFails, EnsureStartTimeout, StatusEnded, StatusRunning, StatusMismatch,
          AgentKilled, Finish, StartOp, Goto, files, systemdVars, workerVars, sessionVars, agentVars, clientVars, IInv, TypeOK
  <2>4. pc'[a] = "inspect" => EnsureRead(a) \/ StatusRead(a)
    BY DEF AgentNext, StartEnsure, StartStatus, StartFallback, FallbackWithoutRoot, Acquire,
          LockTimeout, FallbackAllowed, FallbackRefused, EnsureRead, StatusGone, StatusRead,
          Inspect, InspectFails, EnsureMismatch, EnsureRefused, EnsureResume, EnsureBusy,
          EnsureAbsent, EnsureWrite, EnsureWriteFails, EnsureSubmit, EnsureCreated,
          EnsureStartFails, EnsureStartTimeout, StatusEnded, StatusRunning, StatusMismatch,
          AgentKilled, Finish, StartOp, Goto, files, systemdVars, workerVars, sessionVars, agentVars, clientVars, IInv, TypeOK
  <2>5. CASE EnsureWrite(a)
    BY <2>5 DEF EnsureWrite, Goto, clientVars, IInv, TypeOK, ClientInv, VerdictInv, Tokens
  <2>6. CASE EnsureSubmit(a)
    BY <2>6 DEF EnsureSubmit, Goto, clientVars, IInv, TypeOK, VerdictInv
  <2>7. CASE Inspect(a)
    <3>1. seen'[a] = unit /\ pc'[a] = "decide"
      BY <2>7 DEF Inspect, Goto, IInv, TypeOK
    <3>2. UNCHANGED <<op, token, rec, record, job, known, ended>> /\ pc[a] = "inspect"
      BY <2>7 DEF Inspect, files, systemdVars, clientVars
    <3>3. unit # NoUnit => job[unit.token] \notin {"none", "sent"}
      BY DEF IInv, TypeOK, JobInv, Units
    <3>4. rec[a] = record
      BY <3>2 DEF IInv, AgentInv, HelperInv
    <3> QED BY <1>1, <3>1, <3>2, <3>3, <3>4 DEF IInv, VerdictInv, ClientInv, UnitRuns
  <2>8. CASE EnsureRead(a)
    BY <2>8 DEF EnsureRead, Goto, IInv, TypeOK, VerdictInv
  <2>9. CASE StatusRead(a)
    BY <2>9 DEF StatusRead, Goto, IInv, TypeOK, VerdictInv
  <2> QED BY <2>1, <2>2, <2>3, <2>4, <2>5, <2>6, <2>7, <2>8, <2>9 DEF VerdictInv
<1> QED BY <1>2, <1>3

\* Worker steps take no client or helper verdict back.
LEMMA ClientWorker ==
  ASSUME IInv, NEW t \in Tokens, WorkerNext(t)
  PROVE  ClientInv' /\ \A a \in Agents : VerdictInv(a)'
<1>1. UNCHANGED <<agentVars, systemdVars, clientVars, root, issued>>
  BY WorkerFrame DEF IInv
<1>2. record' = NoRecord \/ record'.token = record.token
  <2>1. CASE WorkerRecords(t)
    BY <2>1 DEF WorkerRecords, Owner, IInv, OwnerInv, MemInv
  <2>2. CASE WorkerPublishes(t)
    <3>1. mem[t] \in Records /\ mem[t].token = t /\ record.token = t
      BY <2>2 DEF WorkerPublishes, Owner, IInv, OwnerInv, MemInv
    <3>2. record' = [mem[t] EXCEPT !.display = TRUE]
      BY <2>2 DEF WorkerPublishes, IInv, TypeOK
    <3> QED BY <3>1, <3>2 DEF Records
  <2>3. CASE WorkerUnlinks(t)
    BY <2>3 DEF WorkerUnlinks
  <2> QED BY <2>1, <2>2, <2>3, WorkerFrame DEF IInv
<1>3. \A u \in ended : record'.token = u => record.token = u
  BY <1>2 DEF NoRecord, NoToken, Tokens, IInv, TypeOK
<1> QED BY <1>1, <1>3 DEF IInv, ClientInv, VerdictInv, UnitRuns, agentVars, systemdVars, clientVars

\* Manager steps take no client or helper verdict back: an ended launch never
\* gets a running unit again.
LEMMA ClientManager ==
  ASSUME IInv, NEW t \in Tokens, ManagerNext(t)
  PROVE  ClientInv' /\ \A a \in Agents : VerdictInv(a)'
<1>1. UNCHANGED <<files, agentVars, clientVars>>
  BY ManagerFrame
<1>2. \A u \in Tokens : job[u] \notin {"none", "sent"}
        => /\ job'[u] \notin {"none", "sent"}
           /\ UnitRuns(unit') /\ unit'.token = u => UnitRuns(unit) /\ unit.token = u
  <2>1. CASE ManagerAccepts(t)
    BY <2>1 DEF ManagerAccepts, JobIs, systemdVars, UnitRuns, IInv, TypeOK, JobInv, NoUnit, NoToken, Tokens
  <2>2. CASE ManagerRefuses(t)
    BY <2>2 DEF ManagerRefuses, JobIs, systemdVars, UnitRuns, IInv, TypeOK, JobInv, NoUnit, NoToken, Tokens
  <2>3. CASE ManagerExecs(t)
    BY <2>3 DEF ManagerExecs, JobIs, systemdVars, UnitRuns, IInv, TypeOK, JobInv, NoUnit, NoToken, Tokens
  <2>4. CASE ManagerExecFails(t)
    BY <2>4 DEF ManagerExecFails, JobIs, systemdVars, UnitRuns, IInv, TypeOK, JobInv, NoUnit, NoToken, Tokens
  <2>5. CASE ManagerStops(t)
    BY <2>5 DEF ManagerStops, JobIs, systemdVars, UnitRuns, IInv, TypeOK, JobInv, NoUnit, NoToken, Tokens
  <2>6. CASE ManagerReaps(t)
    BY <2>6 DEF ManagerReaps, JobIs, systemdVars, UnitRuns, IInv, TypeOK, JobInv, NoUnit, NoToken, Tokens
  <2>7. CASE ManagerKills(t)
    BY <2>7 DEF ManagerKills, JobIs, systemdVars, UnitRuns, IInv, TypeOK, JobInv, NoUnit, NoToken, Tokens
  <2>8. CASE ManagerCollects(t)
    BY <2>8 DEF ManagerCollects, JobIs, systemdVars, UnitRuns, IInv, TypeOK, JobInv, NoUnit, NoToken, Tokens
  <2> QED BY <2>1, <2>2, <2>3, <2>4, <2>5, <2>6, <2>7, <2>8 DEF ManagerNext
<1>3. ASSUME NEW a \in Agents PROVE VerdictInv(a)'
  <2>1. pc[a] = "decide" /\ seen[a] # NoUnit => seen[a].token \in Tokens
    BY DEF IInv, TypeOK, Units
  <2>2. pc[a] # "idle" /\ op[a] = "status" => token[a] \in Tokens /\ job[token[a]] \notin {"none", "sent"}
    BY DEF IInv, TypeOK, AgentInv, HelperInv, ClientInv
  <2> QED BY <1>1, <1>2, <2>1, <2>2 DEF IInv, VerdictInv, UnitRuns, agentVars, clientVars
<1>4. ClientInv'
  BY <1>1, <1>2 DEF IInv, TypeOK, ClientInv, UnitRuns, files, clientVars
<1> QED BY <1>3, <1>4

---------------------------------------------------------------------------
(* Theorems                                                                 *)

\* The inductive invariant holds initially.
LEMMA InvInit == Init => IInv
BY TypeInit, MaxTokenAssumption, HoldersAreDistinct
   DEF Init, IInv, LockInv, RecordInv, JobInv, CgroupInv, MemInv, OwnerInv, ReplaceInv,
       AgentInv, HelperInv, ClientInv, VerdictInv, UnitRuns, Owner, XpraAlive, WorkerAlive,
       DescendantAlive, NoUnit, NoToken,
       NoHolder, Tokens

\* Every step keeps the inductive invariant.
LEMMA InvStep == IInv /\ [Next]_vars => IInv'
<1> SUFFICES ASSUME IInv, [Next]_vars PROVE IInv'
  OBVIOUS
<1>1. ASSUME NEW a \in Agents, AgentNext(a) PROVE IInv'
  BY <1>1, TypeAgent, LockAgent, RestAgent, ClientAgent, VerdictAgent DEF IInv
<1>2. ASSUME NEW t \in Tokens, WorkerNext(t) PROVE IInv'
  BY <1>2, TypeWorker, LockWorker, RestWorker, ClientWorker DEF IInv
<1>3. ASSUME NEW t \in Tokens, SessionNext(t) PROVE IInv'
  BY <1>3, RestSession
<1>4. ASSUME NEW t \in Tokens, ManagerNext(t) PROVE IInv'
  BY <1>4, TypeManager, LockManager, RestManager, ClientManager DEF IInv
<1>5. CASE UNCHANGED vars
  BY <1>5 DEF vars, files, systemdVars, workerVars, sessionVars, agentVars, clientVars,
     IInv, TypeOK, LockInv, RecordInv, JobInv, CgroupInv, MemInv, OwnerInv, ReplaceInv,
     AgentInv, HelperInv, ClientInv, VerdictInv, UnitRuns, Owner, XpraAlive, WorkerAlive,
       DescendantAlive
<1> QED BY <1>1, <1>2, <1>3, <1>4, <1>5 DEF Next

\* The inductive invariant holds in every reachable state.
THEOREM Invariance == Spec => []IInv
BY InvInit, InvStep, PTL DEF Spec

\* Every variable keeps its type.
THEOREM TypeCorrect == Spec => []TypeOK
BY Invariance, PTL DEF IInv

\* A launch whose worker claimed the session, or whose Xpra runs, is the one the
\* record file describes.
THEOREM OwnerRecorded == Spec => []OwnerIsRecorded
<1>1. IInv => OwnerIsRecorded
  BY DEF IInv, OwnerInv, OwnerIsRecorded
<1> QED BY <1>1, Invariance, PTL

\* ordinary_fallback never permits an ordinary session beside an owner.
THEOREM FallbackIsSafe == Spec => FallbackNeverDuplicates
<1>1. ASSUME IInv, NEW a \in Agents, FallbackAllowed(a) \/ FallbackWithoutRoot(a), NEW t \in Tokens
      PROVE  ~Owner(t)
  <2>1. record = NoRecord
    BY <1>1 DEF FallbackAllowed, FallbackWithoutRoot, IInv, RecordInv
  <2> QED BY <2>1, <1>1 DEF IInv, OwnerInv
<1>2. IInv => [\A a \in Agents :
                 FallbackAllowed(a) \/ FallbackWithoutRoot(a) => \A t \in Tokens : ~Owner(t)]_vars
  BY <1>1
<1> QED BY <1>2, Invariance, PTL DEF FallbackNeverDuplicates

\* An ensure hands out only the launch of the record, made from its settings.
THEOREM HandsOutRecorded == Spec => HandsOutRecordedLaunch
<1>1. ASSUME IInv, NEW a \in Agents
      PROVE  /\ EnsureResume(a) => record = rec[a] /\ record.request = asked[a]
             /\ EnsureCreated(a) => record.token = token[a] /\ record.request = asked[a]
  BY <1>1 DEF EnsureResume, EnsureCreated, IInv, AgentInv, HelperInv
<1>2. IInv => [\A a \in Agents :
                 /\ EnsureResume(a) => record = rec[a] /\ record.request = asked[a]
                 /\ EnsureCreated(a) => record.token = token[a] /\ record.request = asked[a]]_vars
  BY <1>1
<1> QED BY <1>2, Invariance, PTL DEF HandsOutRecordedLaunch

\* A launch reported as ended is never reported as alive again.
THEOREM EndedStaysEnded == Spec => EndedIsFinal
<1>1. ASSUME IInv, NEW a \in Agents
      PROVE  /\ EnsureResume(a) \/ StatusRunning(a) => rec[a].token \notin ended
             /\ EnsureCreated(a) => token[a] \notin ended
  <2>1. EnsureResume(a) \/ StatusRunning(a) => rec[a].token \notin ended
    BY <1>1 DEF EnsureResume, StatusRunning, Verified, IInv, VerdictInv
  <2>2. EnsureCreated(a) => token[a] \notin ended
    BY <1>1 DEF EnsureCreated, IInv, VerdictInv, ClientInv
  <2> QED BY <2>1, <2>2
<1>2. IInv => [\A a \in Agents :
                 /\ EnsureResume(a) \/ StatusRunning(a) => rec[a].token \notin ended
                 /\ EnsureCreated(a) => token[a] \notin ended]_vars
  BY <1>1
<1> QED BY <1>2, Invariance, PTL DEF EndedIsFinal

\* Late and dying workers leave a successor's record alone.
THEOREM OwnRecordOnly == Spec => WorkerTouchesOwnRecord
<1>1. ASSUME IInv, Next, NEW t \in Tokens, worker'[t] # worker[t], record' # record
      PROVE  record.token = t
  <2>1. ASSUME NEW a \in Agents, AgentNext(a) PROVE FALSE
    BY <1>1, <2>1, AgentFrame DEF IInv, workerVars
  <2>2. ASSUME NEW u \in Tokens, SessionNext(u) PROVE FALSE
    BY <1>1, <2>2 DEF SessionNext, XpraExits, XpraClosesPipes, LeftoverExits, workerVars
  <2>3. ASSUME NEW u \in Tokens, ManagerNext(u) PROVE FALSE
    BY <1>1, <2>3, ManagerFrame DEF files
  <2>4. ASSUME NEW u \in Tokens, WorkerNext(u) PROVE u = t
    BY <1>1, <2>4, WorkerFrame DEF IInv
  <2>5. ASSUME WorkerNext(t) PROVE record.token = t
    BY <1>1, <2>5, WorkerFrame
       DEF WorkerRecords, WorkerPublishes, WorkerUnlinks, Owner, IInv, OwnerInv
  <2> QED BY <1>1, <2>1, <2>2, <2>3, <2>4, <2>5 DEF Next
<1>2. IInv /\ [Next]_vars =>
        [\A t \in Tokens : worker'[t] # worker[t] /\ record' # record => record.token = t]_vars
  BY <1>1
<1> QED BY <1>2, Invariance, PTL DEF Spec, WorkerTouchesOwnRecord

\* The helpers, workers and manager implement the abstract service.
THEOREM Refinement == Spec => ImplementsService
<1> DEFINE live == {t \in Tokens : XpraAlive(t)}
           started == {t \in Tokens : xpra[t] # "none"}
<1>1. Init => Service!Init
  BY DEF Init, Service!Init, XpraAlive
<1>2. ASSUME IInv, Next PROVE [Service!Next]_<<live, started>>
  <2>1. ASSUME NEW a \in Agents, AgentNext(a) PROVE UNCHANGED <<live, started>>
    BY <1>2, <2>1, AgentFrame DEF IInv, sessionVars, XpraAlive
  <2>2. ASSUME NEW t \in Tokens, WorkerSpawns(t) PROVE Service!Start(t)
    <3>1. xpra[t] = "none" /\ t = issued /\ Owner(t)
      BY <1>2, <2>2 DEF WorkerSpawns, Owner, IInv, JobInv, OwnerInv
    <3>2. \A u \in Tokens : XpraAlive(u) => FALSE
      BY <1>2, <3>1 DEF IInv, OwnerInv, Owner, XpraAlive
    <3>3. \A u \in started : u < t
      BY <1>2, <3>1 DEF IInv, TypeOK, JobInv, Tokens
    <3>4. \A u \in Tokens : /\ XpraAlive(u)' <=> u = t
                            /\ xpra'[u] # "none" <=> xpra[u] # "none" \/ u = t
      BY <1>2, <2>2, <3>2 DEF WorkerSpawns, IInv, TypeOK, XpraAlive
    <3> QED BY <3>2, <3>3, <3>4 DEF Service!Start
  <2>3. ASSUME NEW t \in Tokens,
               \A u \in Tokens \ {t} : xpra'[u] = xpra[u],
               xpra[t] = "none" <=> xpra'[t] = "none",
               XpraAlive(t)' => XpraAlive(t)
        PROVE  UNCHANGED <<live, started>> \/ Service!End(t)
    <3>1. started' = started
      BY <2>3
    <3>2. live' = live \/ (t \in live /\ live' = live \ {t})
      BY <2>3 DEF XpraAlive
    <3> QED BY <3>1, <3>2 DEF Service!End
  <2>4. ASSUME NEW t \in Tokens, WorkerNext(t) \/ SessionNext(t) \/ ManagerNext(t), ~WorkerSpawns(t)
        PROVE  UNCHANGED <<live, started>> \/ Service!End(t)
    <3>1. CASE WorkerNext(t)
      <4>1. xpra' \in {xpra, [xpra EXCEPT ![t] = "exited"]} /\ (xpra' # xpra => worker[t] = "terminate")
        BY <2>4, <3>1 DEF WorkerNext, WorkerBoots, WorkerAcquire, WorkerClaims, WorkerIsStale, WorkerSpawns,
          WorkerSpawnFails, WorkerRecords, WorkerRecordFails, WorkerReadsDisplay,
          WorkerPublishLock, WorkerPublishes, WorkerPublishFails, WorkerLeavesLoop,
          WorkerTerminatesXpra, WorkerFinalLock, WorkerLockTimeout, WorkerUnlinks,
          WorkerDies, Step, Forget,
           files, systemdVars, workerVars, sessionVars, agentVars, clientVars
      <4>2. worker[t] = "terminate" => xpra[t] # "none"
        BY <1>2 DEF IInv, JobInv
      <4> QED BY <1>2, <2>3, <4>1, <4>2 DEF IInv, TypeOK, XpraAlive
    <3>2. CASE SessionNext(t)
      <4>1. xpra' \in {xpra, [xpra EXCEPT ![t] = "exited"], [xpra EXCEPT ![t] = "silent"]}
            /\ (xpra' # xpra => XpraAlive(t))
        BY <3>2 DEF SessionNext, XpraExits, XpraClosesPipes, LeftoverExits, XpraAlive
      <4> QED BY <1>2, <2>3, <4>1 DEF IInv, TypeOK, XpraAlive
    <3>3. CASE ManagerNext(t)
      <4>1. xpra' \in {xpra, [xpra EXCEPT ![t] = IF XpraAlive(t) THEN "exited" ELSE @]}
        BY <3>3 DEF ManagerNext, ManagerAccepts, ManagerRefuses, ManagerExecs, ManagerExecFails,
          ManagerStops, ManagerReaps, ManagerKills, ManagerCollects, JobIs, Step, Forget, files, systemdVars, workerVars, sessionVars, agentVars, clientVars
      <4> QED BY <1>2, <2>3, <4>1 DEF IInv, TypeOK, XpraAlive
    <3> QED BY <2>4, <3>1, <3>2, <3>3
  <2> QED BY <1>2, <2>1, <2>2, <2>4 DEF Next, Service!Next, Tokens
<1>3. UNCHANGED vars => UNCHANGED <<live, started>>
  BY DEF vars, sessionVars, XpraAlive
<1> QED BY <1>1, <1>2, <1>3, Invariance, PTL DEF Spec, ImplementsService, Service!Spec, Service!serviceVars

---------------------------------------------------------------------------
(* The client                                                               *)

WatchInv(c) ==
  phase[c] \in Watching =>
    /\ watched[c] \in known
    /\ record.token = watched[c] => record.request = settings[c]

\* A client's helper is one of the helpers, and takes their steps.
LEMMA ClientHelper ==
  ASSUME NEW c \in Clients, PhaseInv(c), IInv, ClientStep(c)
  PROVE  c \in Agents /\ (AgentNext(c) \/ UNCHANGED vars)
<1>1. c \in Agents
  BY ClientsAssumption
<1>2. ASSUME NEW r \in Requests, ClientRuns(c, r) PROVE UNCHANGED vars
  BY <1>2 DEF ClientRuns
<1>3. ASSUME PrepareStep(c) \/ Consents(c) \/ ClientGoes(c) PROVE UNCHANGED vars
  BY <1>3 DEF PrepareStep, Probes, Enables, Reprobes, Identifies, Consents, ClientGoes, Probed, Prepares
<1>4. ASSUME AskStep(c) PROVE AgentNext(c)
  <2>1. CASE AsksEnsure(c)
    BY <2>1 DEF AsksEnsure, AgentNext, PhaseInv, Preparing
  <2>2. CASE AsksStatus(c)
    <3>1. watched[c] \in Tokens
      BY <2>2 DEF AsksStatus, StartStatus, IInv, TypeOK
    <3> QED BY <2>2, <3>1 DEF AsksStatus, AgentNext
  <2>3. CASE AsksFallback(c)
    BY <2>3 DEF AsksFallback, AgentNext
  <2> QED BY <1>4, <2>1, <2>2, <2>3 DEF AskStep
<1>5. ASSUME AnswerStep(c) PROVE AgentNext(c)
  BY <1>5 DEF AnswerStep, FallbackAnswers, EnsureAnswers, StatusAnswers, HelperFails, HelperError,
              HelperSteps, AgentNext
<1> QED BY <1>1, <1>2, <1>3, <1>4, <1>5 DEF ClientStep

\* The composition takes only steps of the agent's specification.
LEMMA Composition ==
  ASSUME ClientIInv, [ClientNext]_compositeVars
  PROVE  [Next]_vars
<1>1. ASSUME NEW c \in Clients, ClientStep(c) PROVE [Next]_vars
  BY <1>1, ClientHelper DEF ClientIInv, Next
<1>2. ASSUME NEW c \in Clients, MachineChanges(c) PROVE UNCHANGED vars
  BY <1>2 DEF MachineChanges
<1> QED BY <1>1, <1>2 DEF ClientNext, compositeVars, Next

\* Whatever a worker or a helper does, a worker that owns the session copies the
\* request of the file.
LEMMA CopyStep ==
  ASSUME IInv, CopyInv, [Next]_vars
  PROVE  CopyInv'
<1> SUFFICES ASSUME NEW u \in Tokens,
                    worker'[u] \in {"spawn", "record", "watch", "publishWait", "publish"}
             PROVE  mem'[u].request = record'.request
  BY DEF CopyInv
<1>1. ASSUME UNCHANGED <<worker, mem>>, UNCHANGED record \/ \A t \in Tokens : ~Owner(t)
      PROVE  mem'[u].request = record'.request
  BY <1>1 DEF CopyInv, Owner
<1>2. ASSUME NEW a \in Agents, AgentNext(a) PROVE mem'[u].request = record'.request
  <2>1. UNCHANGED <<worker, mem>>
    BY <1>2, AgentFrame DEF IInv, workerVars
  <2>2. UNCHANGED record \/ \A t \in Tokens : ~Owner(t)
    BY <1>2, AgentFrame DEF EnsureWrite, IInv, ReplaceInv
  <2> QED BY <1>1, <2>1, <2>2
<1>3. ASSUME NEW t \in Tokens, WorkerNext(t), t # u PROVE mem'[u].request = record'.request
  <2>1. worker'[u] = worker[u] /\ mem'[u] = mem[u] /\ Owner(u) /\ record.token = u /\ u = issued
    BY <1>3, WorkerFrame DEF IInv, OwnerInv, Owner
  <2>2. UNCHANGED record
    BY <1>3, <2>1, WorkerFrame DEF WorkerRecords, WorkerPublishes, WorkerUnlinks, IInv, OwnerInv, Owner
  <2> QED BY <2>1, <2>2 DEF CopyInv
<1>4. ASSUME WorkerNext(u) PROVE mem'[u].request = record'.request
  <2>1. CASE WorkerClaims(u)
    <3>1. record \in Records
      BY <2>1 DEF WorkerClaims, IInv, TypeOK, NoRecord, NoToken, Tokens
    <3> QED BY <2>1, <3>1 DEF WorkerClaims, IInv, TypeOK, Records, files
  <2>2. CASE WorkerRecords(u)
    BY <2>2 DEF WorkerRecords
  <2>3. CASE WorkerPublishes(u)
    <3>1. mem[u] \in Records
      BY <2>3 DEF WorkerPublishes, IInv, MemInv
    <3> QED BY <2>3, <3>1 DEF WorkerPublishes, IInv, TypeOK
  <2>4. ASSUME ~WorkerClaims(u), ~WorkerRecords(u), ~WorkerPublishes(u)
        PROVE  mem'[u] = mem[u] /\ UNCHANGED record
               /\ worker[u] \in {"spawn", "record", "watch", "publishWait", "publish"}
    BY <1>4, <2>4 DEF WorkerNext, WorkerBoots, WorkerAcquire, WorkerIsStale, WorkerSpawns,
          WorkerSpawnFails, WorkerRecordFails, WorkerReadsDisplay,
          WorkerPublishLock, WorkerPublishFails, WorkerLeavesLoop,
          WorkerTerminatesXpra, WorkerFinalLock, WorkerLockTimeout, WorkerUnlinks,
          WorkerDies, Step, Forget, files, IInv, TypeOK
  <2> QED BY <2>1, <2>2, <2>3, <2>4 DEF CopyInv
<1>5. ASSUME NEW t \in Tokens, SessionNext(t) PROVE mem'[u].request = record'.request
  BY <1>1, <1>5 DEF SessionNext, XpraExits, XpraClosesPipes, LeftoverExits, workerVars, files
<1>6. ASSUME NEW t \in Tokens, ManagerNext(t) PROVE mem'[u].request = record'.request
  <2>1. UNCHANGED record
    BY <1>6, ManagerFrame DEF files
  <2>2. worker'[u] = worker[u] /\ mem'[u] = mem[u]
    BY <1>6 DEF ManagerNext, ManagerAccepts, ManagerRefuses, ManagerExecs, ManagerExecFails,
       ManagerStops, ManagerReaps, ManagerKills, ManagerCollects, JobIs, Step, Forget,
       systemdVars, workerVars, sessionVars, IInv, TypeOK
  <2> QED BY <2>1, <2>2 DEF CopyInv
<1>7. CASE UNCHANGED vars
  BY <1>1, <1>7 DEF vars, workerVars, files
<1> QED BY <1>2, <1>3, <1>4, <1>5, <1>6, <1>7 DEF Next

\* What clients were told stays told, and the file never ties a launch that somebody
\* knows to another request.
LEMMA KnownStep ==
  ASSUME IInv, CopyInv, [Next]_vars
  PROVE  /\ known \subseteq known'
         /\ ended \subseteq ended'
         /\ \A t \in known : record'.token = t => record.token = t /\ record'.request = record.request
<1>1. ASSUME UNCHANGED <<record, clientVars>>
      PROVE  /\ known \subseteq known'
             /\ ended \subseteq ended'
             /\ \A t \in known : record'.token = t => record.token = t /\ record'.request = record.request
  BY <1>1 DEF clientVars
<1>2. ASSUME NEW a \in Agents, AgentNext(a)
      PROVE  /\ known \subseteq known'
             /\ ended \subseteq ended'
             /\ \A t \in known : record'.token = t => record.token = t /\ record'.request = record.request
  <2>1. known \subseteq known' /\ ended \subseteq ended'
    BY <1>2 DEF AgentNext, StartEnsure, StartStatus, StartFallback, FallbackWithoutRoot, Acquire,
       LockTimeout, FallbackAllowed, FallbackRefused, EnsureRead, StatusGone, StatusRead, Inspect,
       InspectFails, EnsureMismatch, EnsureRefused, EnsureResume, EnsureBusy, EnsureAbsent,
       EnsureWrite, EnsureWriteFails, EnsureSubmit, EnsureCreated, EnsureStartFails,
       EnsureStartTimeout, StatusEnded, StatusRunning, StatusMismatch, AgentKilled, clientVars
  <2>2. CASE UNCHANGED record
    BY <2>1, <2>2
  <2>3. CASE EnsureWrite(a)
    <3>1. record'.token = issued + 1
      BY <2>3 DEF EnsureWrite
    <3>2. \A t \in known : t <= issued /\ t \in Nat /\ issued \in Nat
      BY MaxTokenAssumption DEF IInv, ClientInv, TypeOK, Tokens
    <3>3. \A t \in known : t # issued + 1
      BY <3>2
    <3> QED BY <2>1, <3>1, <3>3
  <2> QED BY <1>2, <2>2, <2>3, AgentFrame DEF IInv
<1>3. ASSUME NEW u \in Tokens, WorkerNext(u)
      PROVE  /\ known \subseteq known'
             /\ ended \subseteq ended'
             /\ \A t \in known : record'.token = t => record.token = t /\ record'.request = record.request
  <2>1. UNCHANGED clientVars
    BY <1>3, WorkerFrame DEF IInv
  <2>2. CASE UNCHANGED record
    BY <1>1, <2>1, <2>2
  <2>3. CASE WorkerRecords(u) \/ WorkerPublishes(u)
    <3>1. mem[u] \in Records /\ mem[u].token = u /\ mem[u].request = record.request /\ record.token = u
      BY <2>3 DEF WorkerRecords, WorkerPublishes, IInv, MemInv, CopyInv, OwnerInv, Owner
    <3>2. record'.token = u /\ record'.request = record.request
      BY <2>3, <3>1 DEF WorkerRecords, WorkerPublishes, Records, IInv, TypeOK
    <3> QED BY <2>1, <3>1, <3>2 DEF clientVars
  <2>4. CASE WorkerUnlinks(u) /\ record' # record
    <3>1. record'.token = NoToken /\ NoToken \notin known
      BY <2>4 DEF WorkerUnlinks, NoRecord, NoToken, IInv, TypeOK, Tokens
    <3> QED BY <2>1, <3>1 DEF clientVars
  <2> QED BY <1>3, <2>2, <2>3, <2>4, WorkerFrame DEF IInv
<1>4. ASSUME NEW t \in Tokens, SessionNext(t) \/ ManagerNext(t) PROVE UNCHANGED <<record, clientVars>>
  BY <1>4, ManagerFrame DEF SessionNext, XpraExits, XpraClosesPipes, LeftoverExits, files
<1>5. CASE UNCHANGED vars
  BY <1>1, <1>5 DEF vars, files
<1> QED BY <1>1, <1>2, <1>3, <1>4, <1>5 DEF Next

\* What holds of a client that nobody moved goes on to hold.
LEMMA StillClient ==
  ASSUME ClientIInv, [Next]_vars, NEW c \in Clients,
         phase'[c] = phase[c], settings'[c] = settings[c], watched'[c] = watched[c],
         machine'[c] \in {machine[c], "unknown"},
         pc'[c] = pc[c], op'[c] = op[c], asked'[c] = asked[c], token'[c] = token[c]
  PROVE  PhaseInv(c)' /\ WatchInv(c)'
<1>1. PhaseInv(c) /\ WatchInv(c)
  BY DEF ClientIInv, WatchesItsOwn, WatchInv
<1>2. PhaseInv(c)'
  BY <1>1, KnownStep DEF ClientIInv, PhaseInv
<1>3. WatchInv(c)'
  BY <1>1, KnownStep DEF ClientIInv, WatchInv
<1> QED BY <1>2, <1>3

\* A helper changes no other helper's variables.
LEMMA OtherHelpers ==
  ASSUME NEW a \in Agents, AgentNext(a), IInv, NEW b \in Agents \ {a}
  PROVE  pc'[b] = pc[b] /\ op'[b] = op[b] /\ asked'[b] = asked[b] /\ token'[b] = token[b]
BY DEF AgentNext, StartEnsure, StartStatus, StartFallback, FallbackWithoutRoot, Acquire,
   LockTimeout, FallbackAllowed, FallbackRefused, EnsureRead, StatusGone, StatusRead, Inspect,
   InspectFails, EnsureMismatch, EnsureRefused, EnsureResume, EnsureBusy, EnsureAbsent,
   EnsureWrite, EnsureWriteFails, EnsureSubmit, EnsureCreated, EnsureStartFails,
   EnsureStartTimeout, StatusEnded, StatusRunning, StatusMismatch, AgentKilled,
   StartOp, Goto, Finish, IInv, TypeOK

\* A client's own steps before it asks for anything.
LEMMA PrepareKeeps ==
  ASSUME ClientIInv, NEW c \in Clients,
         (\E r \in Requests : ClientRuns(c, r)) \/ PrepareStep(c) \/ Consents(c) \/ ClientGoes(c)
  PROVE  PhaseInv(c)' /\ WatchInv(c)' /\ ClientTypeOK'
<1> USE DEF Becomes, Sees, Preparing, Watching, Waiting, ClientTypeOK, Phases, Machines
<1>1. PhaseInv(c) /\ WatchInv(c) /\ ClientTypeOK
  BY DEF ClientIInv, WatchesItsOwn, WatchInv
<1>2. ASSUME UNCHANGED vars
      PROVE  pc' = pc /\ op' = op /\ asked' = asked /\ token' = token /\ known' = known
             /\ ended' = ended /\ record' = record
  BY <1>2 DEF vars, agentVars, clientVars, files
<1>3. ASSUME NEW r \in Requests, ClientRuns(c, r) PROVE PhaseInv(c)' /\ WatchInv(c)' /\ ClientTypeOK'
  BY <1>1, <1>2, <1>3 DEF ClientRuns, PhaseInv, WatchInv
<1>4. ASSUME NEW here \in {"probe", "reprobe"}, NEW lingerless \in {"consent", "fallback"},
             Probed(c, here, lingerless)
      PROVE  PhaseInv(c)' /\ WatchInv(c)' /\ ClientTypeOK'
  BY <1>1, <1>2, <1>4 DEF Probed, Prepares, Found, PhaseInv, WatchInv
<1>5. CASE Consents(c)
  BY <1>1, <1>2, <1>5 DEF Consents, Prepares, PhaseInv, WatchInv
<1>6. CASE Enables(c)
  BY <1>1, <1>2, <1>6 DEF Enables, Prepares, PhaseInv, WatchInv
<1>7. CASE Identifies(c)
  BY <1>1, <1>2, <1>7 DEF Identifies, Prepares, PhaseInv, WatchInv
<1>8. CASE ClientGoes(c)
  BY <1>1, <1>2, <1>8 DEF ClientGoes, PhaseInv, WatchInv
<1> QED BY <1>3, <1>4, <1>5, <1>6, <1>7, <1>8 DEF PrepareStep, Probes, Reprobes

\* A client that starts a helper waits for what it asked for.
LEMMA AskKeeps ==
  ASSUME ClientIInv, ClientInv', NEW c \in Clients, c \in Agents, AskStep(c)
  PROVE  PhaseInv(c)' /\ WatchInv(c)' /\ ClientTypeOK'
<1> USE DEF Becomes, Sees, Preparing, Watching, Waiting, ClientTypeOK, Phases, Machines
<1>1. PhaseInv(c) /\ WatchInv(c) /\ ClientTypeOK /\ TypeOK
  BY DEF ClientIInv, WatchesItsOwn, WatchInv, IInv
<1>2. CASE AsksFallback(c)
  BY <1>1, <1>2 DEF AsksFallback, StartFallback, StartOp, Goto, TypeOK, PhaseInv, WatchInv,
                    runVars, clientVars, files
<1>3. CASE AsksEnsure(c)
  BY <1>1, <1>3 DEF AsksEnsure, StartEnsure, StartOp, Goto, TypeOK, PhaseInv, WatchInv,
                    runVars, clientVars, files
<1>4. CASE AsksStatus(c)
  BY <1>1, <1>4 DEF AsksStatus, StartStatus, StartOp, Goto, TypeOK, PhaseInv, WatchInv,
                    runVars, clientVars, files
<1> QED BY <1>2, <1>3, <1>4 DEF AskStep

\* The end of a helper, told to a client that waits for it or to nobody.
LEMMA ToldKeeps ==
  ASSUME ClientIInv, NEW c \in Clients, c \in Agents, pc'[c] = "idle",
         NEW p \in Phases \ (Preparing \cup {"ensure"}), NEW t \in Tokens \cup {NoToken}, Told(c, p, t),
         UNCHANGED record, known \subseteq known', ended \subseteq ended',
         phase[c] \in Waiting /\ p \in Watching =>
           t \in known' /\ (record.token = t => record.request = settings[c]),
         phase[c] \in Waiting /\ p = "done" => t \in ended'
  PROVE  PhaseInv(c)' /\ WatchInv(c)' /\ ClientTypeOK'
<1> USE DEF Told, Preparing, Watching, Waiting, ClientTypeOK, Phases, Machines
<1>1. PhaseInv(c) /\ WatchInv(c) /\ ClientTypeOK
  BY DEF ClientIInv, WatchesItsOwn, WatchInv
<1>2. PhaseInv(c)'
  BY <1>1 DEF PhaseInv
<1>3. WatchInv(c)'
  BY <1>1 DEF WatchInv
<1>4. ClientTypeOK'
  BY <1>1
<1> QED BY <1>2, <1>3, <1>4

\* Answers, errors and the unseen steps of a client's helper.
LEMMA AnswerKeeps ==
  ASSUME ClientIInv, NEW c \in Clients, c \in Agents, AnswerStep(c), AgentNext(c), TypeOK'
  PROVE  PhaseInv(c)' /\ WatchInv(c)' /\ ClientTypeOK'
<1>1. PhaseInv(c) /\ WatchInv(c) /\ ClientTypeOK /\ TypeOK /\ HelperInv(c) /\ VerdictInv(c)
  BY DEF ClientIInv, WatchesItsOwn, WatchInv, IInv, AgentInv
<1>2. known \subseteq known' /\ ended \subseteq ended'
  BY KnownStep DEF ClientIInv, Next
<1>3. CASE FallbackAnswers(c)
  <2>1. UNCHANGED record /\ pc'[c] = "idle"
    BY <1>1, <1>3 DEF FallbackAnswers, FallbackAllowed, FallbackRefused, FallbackWithoutRoot, Finish, files, TypeOK
  <2>2. Told(c, "ordinary", NoToken) \/ Told(c, "out", NoToken)
    BY <1>3 DEF FallbackAnswers
  <2> QED BY <1>2, <2>1, <2>2, ToldKeeps DEF Phases, Preparing, Watching, Waiting
<1>4. ASSUME HelperFails(c) PROVE PhaseInv(c)' /\ WatchInv(c)' /\ ClientTypeOK'
  <2>1. UNCHANGED record /\ pc'[c] = "idle"
    BY <1>1, <1>4 DEF HelperFails, HelperError, LockTimeout, InspectFails, EnsureMismatch, EnsureRefused,
      EnsureBusy, EnsureWriteFails, EnsureStartFails, EnsureStartTimeout, StatusMismatch, AgentKilled,
      Finish, files, TypeOK
  <2>2. Told(c, "out", NoToken)
    BY <1>4 DEF HelperFails
  <2> QED BY <1>2, <2>1, <2>2, ToldKeeps DEF Phases, Preparing, Watching, Waiting
<1>5. ASSUME EnsureAnswers(c) PROVE PhaseInv(c)' /\ WatchInv(c)' /\ ClientTypeOK'
  <2>1. UNCHANGED record /\ pc'[c] = "idle" /\ pc[c] # "idle" /\ op[c] = "ensure"
    BY <1>1, <1>5 DEF EnsureAnswers, EnsureResume, EnsureCreated, HelperInv, Finish, files, TypeOK
  <2>2. PICK t \in known' : Told(c, "starting", t) /\ (record.token = t => record.request = asked[c])
    BY <1>1, <1>5 DEF EnsureAnswers, EnsureResume, EnsureCreated, HelperInv
  <2>3. t \in Tokens
    BY DEF TypeOK
  <2>4. phase[c] \in Waiting => asked[c] = settings[c]
    BY <1>1, <2>1 DEF PhaseInv, Waiting, Watching
  <2>5. /\ "starting" \in Phases \ (Preparing \cup {"ensure"})
        /\ t \in Tokens \cup {NoToken} /\ t \in known' /\ "starting" # "done"
        /\ phase[c] \in Waiting => (record.token = t => record.request = settings[c])
    BY <2>2, <2>3, <2>4 DEF Phases, Preparing, Watching, Waiting
  <2> QED BY <1>2, <2>1, <2>2, <2>5, ToldKeeps
<1>6. ASSUME StatusAnswers(c) PROVE PhaseInv(c)' /\ WatchInv(c)' /\ ClientTypeOK'
  <2>1. UNCHANGED record /\ pc'[c] = "idle" /\ pc[c] # "idle" /\ op[c] = "status"
    BY <1>1, <1>6 DEF StatusAnswers, StatusRunning, StatusGone, StatusEnded, Finish, files, TypeOK
  <2>2. phase[c] \in Phases \ (Preparing \cup {"ensure"})
    BY <1>1, <2>1 DEF PhaseInv, ClientTypeOK
  <2>3. phase[c] \in Waiting => phase[c] \in Watching /\ token[c] = watched[c]
    BY <1>1, <2>1 DEF PhaseInv, Waiting, Watching
  <2>4. CASE StatusRunning(c)
    <3>1. PICK p \in {phase[c], "attached", "out"}, t \in {watched[c], NoToken} :
            /\ Told(c, p, t)
            /\ p # "out" => t = watched[c]
            /\ p = phase[c] \/ p = "attached" \/ p = "out"
      BY <1>6, <2>4 DEF StatusAnswers, StatusRunning, StatusGone, StatusEnded
    <3>2. p \in Phases \ (Preparing \cup {"ensure"}) /\ t \in Tokens \cup {NoToken}
      BY <1>1, <2>2, <3>1 DEF ClientTypeOK, Phases, Preparing, Watching, Waiting
    <3>3. phase[c] \in Waiting /\ p \in Watching =>
            t \in known' /\ (record.token = t => record.request = settings[c])
      BY <1>1, <1>2, <2>3, <3>1 DEF WatchInv, Watching
    <3>4. phase[c] \in Waiting => p # "done"
      BY <2>3, <3>1 DEF Watching
    <3> QED BY <1>2, <2>1, <3>1, <3>2, <3>3, <3>4, ToldKeeps
  <2>5. CASE ~StatusRunning(c)
    <3>1. /\ ended' = ended \cup {token[c]}
          /\ Told(c, "out", NoToken) \/ (phase[c] = "attached" /\ Told(c, "done", watched[c]))
      BY <1>6, <2>5 DEF StatusAnswers, StatusGone, StatusEnded
    <3>2. watched[c] \in Tokens \cup {NoToken}
      BY <1>1 DEF ClientTypeOK
    <3> QED BY <1>2, <2>1, <2>3, <3>1, <3>2, ToldKeeps DEF Phases, Preparing, Watching, Waiting
  <2> QED BY <2>4, <2>5
<1>7. ASSUME HelperSteps(c) PROVE PhaseInv(c)' /\ WatchInv(c)' /\ ClientTypeOK'
  <2>1. /\ pc[c] # "idle" /\ pc'[c] # "idle" /\ op' = op /\ asked' = asked
        /\ UNCHANGED <<machine, phase, settings, watched>>
        /\ token'[c] = token[c] \/ op[c] = "ensure"
    BY <1>1, <1>7 DEF HelperSteps, Acquire, EnsureRead, StatusRead, Inspect, EnsureAbsent, EnsureWrite,
       EnsureSubmit, Goto, runVars, TypeOK, HelperInv
  <2>2. \A t \in known : record'.token = t => record.token = t /\ record'.request = record.request
    BY KnownStep DEF ClientIInv, Next
  <2>3. WatchInv(c)'
    BY <1>1, <1>2, <2>1, <2>2 DEF WatchInv
  <2>4. ClientTypeOK'
    BY <1>1, <2>1 DEF ClientTypeOK
  <2>5. PhaseInv(c)'
    BY <1>1, <1>2, <2>1 DEF PhaseInv
  <2> QED BY <2>3, <2>4, <2>5
<1> QED BY <1>3, <1>4, <1>5, <1>6, <1>7 DEF AnswerStep

\* A client's step leaves the other clients where they are.
LEMMA OtherClients ==
  ASSUME NEW c \in Clients, ClientStep(c) \/ MachineChanges(c), ClientTypeOK, NEW d \in Clients \ {c}
  PROVE  phase'[d] = phase[d] /\ settings'[d] = settings[d] /\ watched'[d] = watched[d]
         /\ machine'[d] = machine[d]
BY DEF ClientStep, ClientRuns, PrepareStep, Probes, Enables, Reprobes, Identifies, Consents, Probed,
   Prepares, Becomes, Sees, AskStep, AsksFallback, AsksEnsure, AsksStatus, AnswerStep,
   FallbackAnswers, EnsureAnswers, StatusAnswers, HelperFails, HelperSteps, Told, ClientGoes,
   MachineChanges, runVars, ClientTypeOK

\* Clients start without settings and watch nothing.
LEMMA ClientInvInit == ClientInit => ClientIInv
BY InvInit DEF ClientInit, ClientIInv, CopyInv, Init, ClientTypeOK, WatchesItsOwn, PhaseInv,
   Preparing, Watching, Waiting, Phases, Machines

\* The client's inductive invariant, on top of the agent's.
LEMMA ClientInvStep == ClientIInv /\ [ClientNext]_compositeVars => ClientIInv'
<1> SUFFICES ASSUME ClientIInv, [ClientNext]_compositeVars PROVE ClientIInv'
  OBVIOUS
<1>1. [Next]_vars
  BY Composition
<1>2. IInv' /\ CopyInv' /\ TypeOK' /\ ClientInv'
  BY <1>1, InvStep, CopyStep DEF ClientIInv, IInv
<1>3. SUFFICES ClientTypeOK' /\ \A d \in Clients : PhaseInv(d)' /\ WatchInv(d)'
  BY <1>2 DEF ClientIInv, WatchesItsOwn, WatchInv
<1>4. ASSUME NEW c \in Clients, ClientStep(c)
      PROVE  ClientTypeOK' /\ \A d \in Clients : PhaseInv(d)' /\ WatchInv(d)'
  <2>1. c \in Agents /\ (AgentNext(c) \/ UNCHANGED vars)
    BY <1>4, ClientHelper DEF ClientIInv
  <2>2. PhaseInv(c)' /\ WatchInv(c)' /\ ClientTypeOK'
    <3>1. CASE (\E r \in Requests : ClientRuns(c, r)) \/ PrepareStep(c) \/ Consents(c) \/ ClientGoes(c)
      BY <3>1, PrepareKeeps
    <3>2. CASE AskStep(c)
      BY <1>2, <2>1, <3>2, AskKeeps
    <3>3. CASE AnswerStep(c)
      <4>1. AgentNext(c)
        BY <3>3 DEF AnswerStep, FallbackAnswers, EnsureAnswers, StatusAnswers, HelperFails, HelperError,
              HelperSteps, AgentNext
      <4> QED BY <1>2, <2>1, <3>3, <4>1, AnswerKeeps
    <3> QED BY <1>4, <3>1, <3>2, <3>3 DEF ClientStep
  <2>3. ASSUME NEW d \in Clients \ {c} PROVE PhaseInv(d)' /\ WatchInv(d)'
    <3>1. phase'[d] = phase[d] /\ settings'[d] = settings[d] /\ watched'[d] = watched[d]
          /\ machine'[d] = machine[d]
      BY <1>4, OtherClients DEF ClientIInv
    <3>2. d \in Agents \ {c}
      BY ClientsAssumption
    <3>3. pc'[d] = pc[d] /\ op'[d] = op[d] /\ asked'[d] = asked[d] /\ token'[d] = token[d]
      BY <2>1, <3>2, OtherHelpers DEF ClientIInv, vars, agentVars
    <3> QED BY <1>1, <3>1, <3>3, StillClient
  <2> QED BY <2>2, <2>3
<1>5. ASSUME UNCHANGED <<machine, runVars>>,
             \A d \in Clients : pc'[d] = pc[d] /\ op'[d] = op[d] /\ asked'[d] = asked[d] /\ token'[d] = token[d]
      PROVE  ClientTypeOK' /\ \A d \in Clients : PhaseInv(d)' /\ WatchInv(d)'
  <2>1. ClientTypeOK'
    BY <1>5 DEF ClientIInv, ClientTypeOK, runVars
  <2> QED BY <1>1, <1>5, <2>1, StillClient DEF runVars
<1>6. ASSUME NEW a \in Agents \ Clients, AgentNext(a), UNCHANGED <<machine, runVars>>
      PROVE  ClientTypeOK' /\ \A d \in Clients : PhaseInv(d)' /\ WatchInv(d)'
  BY <1>5, <1>6, OtherHelpers, ClientsAssumption DEF ClientIInv
<1>7. ASSUME NEW t \in Tokens, WorkerNext(t) \/ SessionNext(t) \/ ManagerNext(t), UNCHANGED <<machine, runVars>>
      PROVE  ClientTypeOK' /\ \A d \in Clients : PhaseInv(d)' /\ WatchInv(d)'
  <2>1. UNCHANGED agentVars
    BY <1>7, WorkerFrame, ManagerFrame DEF SessionNext, XpraExits, XpraClosesPipes, LeftoverExits, ClientIInv, IInv
  <2> QED BY <1>5, <1>7, <2>1 DEF agentVars
<1>8. ASSUME NEW c \in Clients, MachineChanges(c)
      PROVE  ClientTypeOK' /\ \A d \in Clients : PhaseInv(d)' /\ WatchInv(d)'
  <2>1. ClientTypeOK' /\ \A d \in Clients : machine'[d] \in {machine[d], "unknown"}
    BY <1>8 DEF MachineChanges, ClientIInv, ClientTypeOK, runVars
  <2> QED BY <1>1, <1>8, <2>1, StillClient DEF MachineChanges, vars, agentVars, runVars
<1>9. CASE UNCHANGED compositeVars
  BY <1>5, <1>9 DEF compositeVars, vars, agentVars
<1> QED BY <1>4, <1>6, <1>7, <1>8, <1>9 DEF ClientNext

\* The client's invariant, the agent's included, holds in every reachable state.
THEOREM ClientInvariance == ClientSpec => []ClientIInv
BY ClientInvInit, ClientInvStep, PTL DEF ClientSpec

\* With its clients the agent still is the agent: everything proved of Spec holds.
THEOREM ClientImplementsAgent == ClientSpec => Spec
<1>1. ClientInit => Init
  BY DEF ClientInit
<1>2. ClientIInv /\ [ClientNext]_compositeVars => [Next]_vars
  BY Composition
<1> QED BY <1>1, <1>2, ClientInvariance, PTL DEF ClientSpec, Spec

\* With all that clients do, and with those that vanish, the machine serves at most one
\* launch of the session at a time, and never an older one after a newer.
THEOREM ClientImplementsService == ClientSpec => ImplementsService
BY ClientImplementsAgent, Refinement, PTL

\* Two clients that both watch a launch that owns the application watch the same launch,
\* and wanted the same settings: nobody is attached to what was started for another wish.
OneForAll ==
  \A c, d \in Clients :
    phase[c] \in Watching /\ phase[d] \in Watching /\ Owner(watched[c]) /\ Owner(watched[d])
      => watched[c] = watched[d] /\ settings[c] = settings[d]

\* The clients' settings and the agent's record agree on the one launch there is.
THEOREM ClientsShareOne == ClientSpec => []OneForAll
<1>1. ASSUME ClientIInv, NEW c \in Clients, phase[c] \in Watching, Owner(watched[c])
      PROVE  record.token = watched[c] /\ record.request = settings[c]
  <2>1. watched[c] \in Tokens
    BY <1>1 DEF ClientIInv, WatchesItsOwn, IInv, TypeOK
  <2>2. record.token = watched[c]
    BY <1>1, <2>1 DEF ClientIInv, IInv, OwnerInv
  <2> QED BY <1>1, <2>2 DEF ClientIInv, WatchesItsOwn
<1>2. ClientIInv => OneForAll
  BY <1>1 DEF OneForAll
<1> QED BY <1>2, ClientInvariance, PTL

\* The client's variables keep their types.
THEOREM ClientTypeCorrect == ClientSpec => []ClientTypeOK
BY ClientInvariance, PTL DEF ClientIInv

\* The launch a client watches was made from its own settings.
THEOREM ClientWatchesItsOwn == ClientSpec => []WatchesItsOwn
BY ClientInvariance, PTL DEF ClientIInv

\* A client that returned success saw the end of its session.
THEOREM ClientSeesTheEnd == ClientSpec => []SeenToTheEnd
<1>1. ASSUME ClientIInv, NEW c \in Clients, phase[c] = "done", Owner(watched[c])
      PROVE  unit.token = watched[c] /\ unit.state = "deactivating"
  <2> DEFINE w == watched[c]
  <2>1. w \in ended /\ w \in Tokens
    BY <1>1 DEF ClientIInv, PhaseInv, IInv, TypeOK
  <2>2. record.token = w
    BY <1>1, <2>1 DEF ClientIInv, IInv, OwnerInv
  <2>3. ~(UnitRuns(unit) /\ unit.token = w)
    BY <1>1, <2>1, <2>2 DEF ClientIInv, IInv, ClientInv
  <2>4. WorkerAlive(w) \/ DescendantAlive(w)
    BY <1>1 DEF Owner, WorkerAlive, DescendantAlive
  <2>5. unit # NoUnit /\ unit.token = w
    BY <1>1, <2>1, <2>4 DEF ClientIInv, IInv, CgroupInv
  <2>6. unit \in Units
    BY <1>1, <2>5 DEF ClientIInv, IInv, TypeOK
  <2> QED BY <2>3, <2>5, <2>6 DEF UnitRuns, Units
<1>2. ClientIInv => SeenToTheEnd
  BY <1>1 DEF SeenToTheEnd
<1> QED BY <1>2, ClientInvariance, PTL

\* The fallback to an ordinary session never doubles the application.
THEOREM OrdinaryStaysAlone == ClientSpec => OrdinaryIsAlone
<1>1. ASSUME ClientIInv, [ClientNext]_compositeVars, NEW c \in Clients,
             phase'[c] = "ordinary", phase[c] # "ordinary"
      PROVE  \A t \in Tokens : ~Owner(t)
  <2>1. PICK d \in Clients : ClientStep(d) \/ MachineChanges(d)
    BY <1>1 DEF ClientNext, compositeVars, runVars
  <2>2. d = c /\ ClientStep(c)
    BY <1>1, <2>1, OtherClients DEF ClientIInv, MachineChanges, runVars
  <2>3. FallbackAllowed(c) \/ FallbackWithoutRoot(c)
    <3>1. CASE (\E r \in Requests : ClientRuns(c, r)) \/ PrepareStep(c) \/ Consents(c) \/ ClientGoes(c)
      BY <1>1, <3>1 DEF ClientIInv, ClientTypeOK, ClientRuns, PrepareStep, Probes, Enables, Reprobes,
         Identifies, Consents, ClientGoes, Probed, Prepares, Becomes
    <3>2. CASE AskStep(c)
      BY <1>1, <3>2 DEF ClientIInv, ClientTypeOK, AskStep, AsksFallback, AsksEnsure, AsksStatus, Becomes, runVars
    <3>3. CASE AnswerStep(c) /\ ~FallbackAnswers(c)
      BY <1>1, <3>3 DEF ClientIInv, ClientTypeOK, AnswerStep, EnsureAnswers, StatusAnswers,
         HelperFails, HelperSteps, Told, runVars
    <3>4. CASE FallbackAnswers(c)
      BY <1>1, <3>4 DEF ClientIInv, ClientTypeOK, FallbackAnswers, Told
    <3> QED BY <2>2, <3>1, <3>2, <3>3, <3>4 DEF ClientStep
  <2>4. record = NoRecord
    BY <1>1, <2>3 DEF FallbackAllowed, FallbackWithoutRoot, ClientIInv, IInv, RecordInv
  <2> QED BY <1>1, <2>4 DEF ClientIInv, IInv, OwnerInv
<1>2. ClientIInv /\ [ClientNext]_compositeVars =>
        [\A c \in Clients : phase'[c] = "ordinary" /\ phase[c] # "ordinary" =>
            \A t \in Tokens : ~Owner(t)]_compositeVars
  BY <1>1
<1> QED BY <1>2, ClientInvariance, PTL DEF ClientSpec, OrdinaryIsAlone

\* No service is asked for on a machine that was last found unprepared.
THEOREM PreparedStart == ClientSpec => StartsPrepared
<1>1. ClientIInv => [\A c \in Clients : AsksEnsure(c) => machine[c] \in {"ready", "unknown"}]_compositeVars
  BY DEF ClientIInv, PhaseInv, AsksEnsure
<1> QED BY <1>1, ClientInvariance, PTL DEF StartsPrepared

===============================================================================
