---------------------------- MODULE PersistentAgent ----------------------------
(***************************************************************************)
(* The remote side of `elsewindow --persistent`: the helper processes that *)
(* SSH starts (ensure, status, ordinary-fallback), the worker that the     *)
(* user's systemd manager starts (serve), and the parts of the machine     *)
(* they share: one flock, one record file and one transient unit.  The     *)
(* module describes ONE session key; different keys share nothing.         *)
(*                                                                         *)
(* Source: elsewindow/_persistent_agent.py.  systemd and the Xpra process  *)
(* are external and are modelled from how that file uses them.             *)
(***************************************************************************)
EXTENDS Integers, FiniteSets

CONSTANTS
  Agents,         \* helper processes that run ensure, status or fallback
  Requests,       \* what an ensure compares with the record of a running service:
                  \* environment overrides, server command, log level and session
  NoRequest,      \* no ensure is under way
  MaxToken        \* bound: how many launch records are ever written

ASSUME MaxTokenAssumption == MaxToken \in Nat \ {0}
ASSUME AgentsAssumption == Agents \cap (0 .. MaxToken) = {}
ASSUME RequestsAssumption == NoRequest \notin Requests

Tokens == 1 .. MaxToken
NoToken == 0
NoHolder == 0

\* The record file <key>.json: the launch it describes (`token`, `request`),
\* whether a worker entered its pid, start time and invocation (`worker`),
\* and whether the X display is known (`display`).
Records == [token : Tokens, request : Requests, worker : BOOLEAN, display : BOOLEAN]
NoRecord == [token |-> NoToken]

\* What `systemctl show` says of the unit: whose Description it carries, its
\* ActiveState and whether it still has a MainPID.
Units == [token : Tokens, state : {"activating", "active", "deactivating"}, main : BOOLEAN]
NoUnit == [token |-> NoToken]

VARIABLES
  lock,      \* the process that holds the flock on <key>.lock
  root,      \* the state directory elsewindow-persistent exists
  record,    \* the record file
  issued,    \* how many tokens were drawn: the newest launch
  job,       \* per token: the systemd-run start request
  unit,      \* the transient unit of this key
  worker,    \* per token: where the serve process is
  mem,       \* per token: the worker's in-memory record
  xpra,      \* per token: its Xpra process
  leftover,  \* per token: application processes that outlived Xpra
  stopping,  \* per token: the worker's SIGTERM flag
  pc,        \* per agent: where the helper process is
  op,        \* per agent: the operation it runs
  asked,     \* per agent: the request of an ensure
  token,     \* per agent: the token a status asks about or an ensure drew
  rec,       \* per agent: the record as it read it
  seen,      \* per agent: the unit as systemctl showed it
  known,     \* tokens that some client was given by an ensure
  ended      \* tokens that some status reported as ended

files == <<root, record, issued>>
systemdVars == <<job, unit>>
workerVars == <<worker, mem, stopping>>
sessionVars == <<xpra, leftover>>
agentVars == <<pc, op, asked, token, rec, seen>>
clientVars == <<known, ended>>

vars == <<lock, files, systemdVars, workerVars, sessionVars, agentVars, clientVars>>

JobStates == {"none", "sent", "accepted", "done", "refused"}
WorkerStates == {"none", "boot", "wait", "check", "spawn", "record", "watch",
                 "publishWait", "publish", "terminate", "closing", "unlink",
                 "leaving", "dead"}
AgentStates == {"idle", "lock", "read", "inspect", "decide", "write", "submit", "starting"}

---------------------------------------------------------------------------
(* State formulae *)

XpraAlive(t) == xpra[t] \in {"running", "silent"}

\* The processes of the unit's cgroup besides the worker.
DescendantAlive(t) == XpraAlive(t) \/ leftover[t]

WorkerAlive(t) == worker[t] \notin {"none", "dead"}

\* A launch owns the session from the worker's check of the record until its
\* Xpra is gone, whatever became of the worker since.
Owner(t) ==
  \/ worker[t] \in {"spawn", "record", "watch", "publishWait", "publish"}
  \/ XpraAlive(t)

\* /proc/<pid>/stat still shows the recorded start time: the main process has
\* not been reaped by the manager.
MainUnreaped(t) == unit.token = t /\ unit.main

\* The ActiveStates in which ensure resumes and status reports a live session.
UnitRuns(u) == u # NoUnit /\ u.state \in {"active", "activating", "reloading"}

Init ==
  /\ lock = NoHolder
  /\ root = FALSE
  /\ record = NoRecord
  /\ issued = 0
  /\ job = [t \in Tokens |-> "none"]
  /\ unit = NoUnit
  /\ worker = [t \in Tokens |-> "none"]
  /\ mem = [t \in Tokens |-> NoRecord]
  /\ xpra = [t \in Tokens |-> "none"]
  /\ leftover = [t \in Tokens |-> FALSE]
  /\ stopping = [t \in Tokens |-> FALSE]
  /\ pc = [a \in Agents |-> "idle"]
  /\ op = [a \in Agents |-> "none"]
  /\ asked = [a \in Agents |-> NoRequest]
  /\ token = [a \in Agents |-> NoToken]
  /\ rec = [a \in Agents |-> NoRecord]
  /\ seen = [a \in Agents |-> NoUnit]
  /\ known = {}
  /\ ended = {}

---------------------------------------------------------------------------
(* Helper processes: main() decodes one request, runs one operation and    *)
(* prints one reply.                                                        *)

\* The reply is printed, the flock's descriptor closed and the process gone.
\* Which reply it is, the action that finishes says.
Finish(a) ==
  /\ lock' = IF lock = a THEN NoHolder ELSE lock
  /\ pc' = [pc EXCEPT ![a] = "idle"]
  /\ op' = [op EXCEPT ![a] = "none"]
  /\ asked' = [asked EXCEPT ![a] = NoRequest]
  /\ token' = [token EXCEPT ![a] = NoToken]
  /\ rec' = [rec EXCEPT ![a] = NoRecord]
  /\ seen' = [seen EXCEPT ![a] = NoUnit]

Goto(a, label) == pc' = [pc EXCEPT ![a] = label]

StartOp(a, operation) ==
  /\ pc[a] = "idle"
  /\ op' = [op EXCEPT ![a] = operation]
  /\ Goto(a, "lock")

\* ensure: SIGHUP is ignored, the request validated, the directory created.
StartEnsure(a, request) ==
  /\ StartOp(a, "ensure")
  /\ asked' = [asked EXCEPT ![a] = request]
  /\ root' = TRUE
  /\ UNCHANGED <<lock, record, issued, token, rec, seen, systemdVars, workerVars,
                 sessionVars, clientVars>>

\* status: only a client that was given the token asks about it.
StartStatus(a, t) ==
  /\ t \in known
  /\ StartOp(a, "status")
  /\ token' = [token EXCEPT ![a] = t]
  /\ root' = TRUE
  /\ UNCHANGED <<lock, record, issued, asked, rec, seen, systemdVars, workerVars,
                 sessionVars, clientVars>>

\* ordinary-fallback never creates the directory: without one there is nothing
\* to lock and the answer is immediate.
StartFallback(a) ==
  /\ root
  /\ StartOp(a, "fallback")
  /\ UNCHANGED <<lock, files, asked, token, rec, seen, systemdVars, workerVars,
                 sessionVars, clientVars>>

FallbackWithoutRoot(a) ==
  /\ pc[a] = "idle"
  /\ ~root
  /\ Finish(a)
  /\ UNCHANGED <<files, systemdVars, workerVars, sessionVars, clientVars>>

\* locked(): flock polled every 50 ms ...
Acquire(a) ==
  /\ pc[a] = "lock"
  /\ lock = NoHolder
  /\ lock' = a
  /\ Goto(a, "read")
  /\ UNCHANGED <<files, op, asked, token, rec, seen, systemdVars, workerVars,
                 sessionVars, clientVars>>

\* ... until the deadline passes on a poll that found it held: persistent_busy.
LockTimeout(a) ==
  /\ pc[a] = "lock"
  /\ lock # NoHolder
  /\ Finish(a)
  /\ UNCHANGED <<files, systemdVars, workerVars, sessionVars, clientVars>>

\* ordinary_fallback: allowed exactly when no record exists.
FallbackAllowed(a) ==
  /\ pc[a] = "read"
  /\ op[a] = "fallback"
  /\ record = NoRecord
  /\ Finish(a)
  /\ UNCHANGED <<files, systemdVars, workerVars, sessionVars, clientVars>>

FallbackRefused(a) ==
  /\ pc[a] = "read"
  /\ op[a] = "fallback"
  /\ record # NoRecord
  /\ Finish(a)
  /\ UNCHANGED <<files, systemdVars, workerVars, sessionVars, clientVars>>

EnsureRead(a) ==
  /\ pc[a] = "read"
  /\ op[a] = "ensure"
  /\ rec' = [rec EXCEPT ![a] = record]
  /\ Goto(a, "inspect")
  /\ UNCHANGED <<lock, files, op, asked, token, seen, systemdVars, workerVars,
                 sessionVars, clientVars>>

\* status: a missing or a newer record ends the session the client knew.
StatusGone(a) ==
  /\ pc[a] = "read"
  /\ op[a] = "status"
  /\ record.token # token[a]
  /\ Finish(a)
  /\ ended' = ended \cup {token[a]}
  /\ UNCHANGED <<files, systemdVars, workerVars, sessionVars, known>>

StatusRead(a) ==
  /\ pc[a] = "read"
  /\ op[a] = "status"
  /\ record.token = token[a]
  /\ rec' = [rec EXCEPT ![a] = record]
  /\ Goto(a, "inspect")
  /\ UNCHANGED <<lock, files, op, asked, token, seen, systemdVars, workerVars,
                 sessionVars, clientVars>>

\* unit_state(): one `systemctl show`; the manager moves on after it.
Inspect(a) ==
  /\ pc[a] = "inspect"
  /\ seen' = [seen EXCEPT ![a] = unit]
  /\ Goto(a, "decide")
  /\ UNCHANGED <<lock, files, op, asked, token, rec, systemdVars, workerVars,
                 sessionVars, clientVars>>

\* Mutant of InspectFails: an unanswered systemctl taken for a missing unit.
InspectFailsAsEnded(a) ==
  /\ pc[a] = "inspect"
  /\ Finish(a)
  /\ ended' = IF op[a] = "status" THEN ended \cup {token[a]} ELSE ended
  /\ UNCHANGED <<files, systemdVars, workerVars, sessionVars, known>>

\* It fails (persistent_systemd_unavailable) or runs into COMMAND_TIMEOUT.
InspectFails(a) ==
  /\ pc[a] = "inspect"
  /\ Finish(a)
  /\ UNCHANGED <<files, systemdVars, workerVars, sessionVars, clientVars>>

\* verify_unit(): the Description carries the record's token and, once a worker
\* entered itself, the unit's main process is still that worker.
Verified(a) ==
  /\ rec[a] # NoRecord
  /\ seen[a].token = rec[a].token
  /\ rec[a].worker => seen[a].main /\ MainUnreaped(rec[a].token)

\* persistent_identity_mismatch
EnsureMismatch(a) ==
  /\ pc[a] = "decide"
  /\ op[a] = "ensure"
  /\ seen[a] # NoUnit
  /\ ~Verified(a)
  /\ Finish(a)
  /\ UNCHANGED <<files, systemdVars, workerVars, sessionVars, clientVars>>

\* persistent_environment_mismatch or persistent_configuration_mismatch: the
\* running service was launched from other settings than the request's.
EnsureRefused(a) ==
  /\ pc[a] = "decide"
  /\ op[a] = "ensure"
  /\ UnitRuns(seen[a])
  /\ Verified(a)
  /\ rec[a].request # asked[a]
  /\ Finish(a)
  /\ UNCHANGED <<files, systemdVars, workerVars, sessionVars, clientVars>>

\* Mutant of EnsureResume: any live service of the key is handed out.
ResumeUnchecked(a) ==
  /\ pc[a] = "decide"
  /\ op[a] = "ensure"
  /\ UnitRuns(seen[a])
  /\ Verified(a)
  /\ Finish(a)
  /\ known' = known \cup {rec[a].token}
  /\ UNCHANGED <<files, systemdVars, workerVars, sessionVars, ended>>

\* Mutant of EnsureResume: the reply waits until the display is recorded.
ResumeAwaitsDisplay(a) ==
  /\ pc[a] = "decide"
  /\ op[a] = "ensure"
  /\ UnitRuns(seen[a])
  /\ Verified(a)
  /\ rec[a].request = asked[a]
  /\ \/ /\ rec[a].display
        /\ Finish(a)
        /\ known' = known \cup {rec[a].token}
     \/ /\ ~rec[a].display
        /\ Goto(a, "read")
        /\ UNCHANGED <<lock, op, asked, token, rec, seen, known>>
  /\ UNCHANGED <<files, systemdVars, workerVars, sessionVars, ended>>

EnsureResume(a) ==
  /\ pc[a] = "decide"
  /\ op[a] = "ensure"
  /\ UnitRuns(seen[a])
  /\ Verified(a)
  /\ rec[a].request = asked[a]
  /\ Finish(a)
  /\ known' = known \cup {rec[a].token}
  /\ UNCHANGED <<files, systemdVars, workerVars, sessionVars, ended>>

\* persistent_busy: the previous service is still stopping
EnsureBusy(a) ==
  /\ pc[a] = "decide"
  /\ op[a] = "ensure"
  /\ seen[a] # NoUnit
  /\ ~UnitRuns(seen[a])
  /\ Verified(a)
  /\ Finish(a)
  /\ UNCHANGED <<files, systemdVars, workerVars, sessionVars, clientVars>>

\* Mutant of EnsureAbsent: a service that is stopping counts as gone.
StoppingCountsAsAbsent(a) ==
  /\ pc[a] = "decide"
  /\ op[a] = "ensure"
  /\ ~UnitRuns(seen[a])
  /\ Goto(a, "write")
  /\ UNCHANGED <<lock, files, op, asked, token, rec, seen, systemdVars,
                 workerVars, sessionVars, clientVars>>

EnsureAbsent(a) ==
  /\ pc[a] = "decide"
  /\ op[a] = "ensure"
  /\ seen[a] = NoUnit
  /\ Goto(a, "write")
  /\ UNCHANGED <<lock, files, op, asked, token, rec, seen, systemdVars,
                 workerVars, sessionVars, clientVars>>

\* A fresh token and record replace whatever record was there.
EnsureWrite(a) ==
  /\ pc[a] = "write"
  /\ issued < MaxToken
  /\ issued' = issued + 1
  /\ record' = [token |-> issued + 1, request |-> asked[a],
                worker |-> FALSE, display |-> FALSE]
  /\ token' = [token EXCEPT ![a] = issued + 1]
  /\ Goto(a, "submit")
  /\ UNCHANGED <<lock, root, op, asked, rec, seen, systemdVars, workerVars,
                 sessionVars, clientVars>>

\* write_record: os.replace is atomic, so an OSError leaves the old record:
\* persistent_operation_failed.
EnsureWriteFails(a) ==
  /\ pc[a] = "write"
  /\ Finish(a)
  /\ UNCHANGED <<files, systemdVars, workerVars, sessionVars, clientVars>>

EnsureSubmit(a) ==
  /\ pc[a] = "submit"
  /\ job' = [job EXCEPT ![token[a]] = "sent"]
  /\ Goto(a, "starting")
  /\ UNCHANGED <<lock, files, unit, op, asked, token, rec, seen, workerVars,
                 sessionVars, clientVars>>

\* systemd-run returns 0 once the unit's exec succeeded.
EnsureCreated(a) ==
  /\ pc[a] = "starting"
  /\ job[token[a]] = "done"
  /\ Finish(a)
  /\ known' = known \cup {token[a]}
  /\ UNCHANGED <<files, systemdVars, workerVars, sessionVars, ended>>

\* persistent_start_failed.  The record stays: the service may have started although the reply was lost.
EnsureStartFails(a) ==
  /\ pc[a] = "starting"
  /\ job[token[a]] = "refused"
  /\ Finish(a)
  /\ UNCHANGED <<files, systemdVars, workerVars, sessionVars, clientVars>>

\* subprocess.run kills systemd-run after COMMAND_TIMEOUT; the start request
\* may be under way, and a finished start may go unreported:
\* persistent_operation_failed.
EnsureStartTimeout(a) ==
  /\ pc[a] = "starting"
  /\ Finish(a)
  /\ UNCHANGED <<files, systemdVars, workerVars, sessionVars, clientVars>>

StatusEnded(a) ==
  /\ pc[a] = "decide"
  /\ op[a] = "status"
  /\ ~UnitRuns(seen[a])
  /\ Finish(a)
  /\ ended' = ended \cup {token[a]}
  /\ UNCHANGED <<files, systemdVars, workerVars, sessionVars, known>>

StatusRunning(a) ==
  /\ pc[a] = "decide"
  /\ op[a] = "status"
  /\ UnitRuns(seen[a])
  /\ Verified(a)
  /\ Finish(a)
  /\ UNCHANGED <<files, systemdVars, workerVars, sessionVars, clientVars>>

\* persistent_identity_mismatch
StatusMismatch(a) ==
  /\ pc[a] = "decide"
  /\ op[a] = "status"
  /\ UnitRuns(seen[a])
  /\ ~Verified(a)
  /\ Finish(a)
  /\ UNCHANGED <<files, systemdVars, workerVars, sessionVars, clientVars>>

\* The helper is killed: the kernel closes its flock, no reply is printed.
AgentKilled(a) ==
  /\ pc[a] # "idle"
  /\ Finish(a)
  /\ UNCHANGED <<files, systemdVars, workerVars, sessionVars, clientVars>>

---------------------------------------------------------------------------
(* The worker: serve() under the user manager.                              *)

\* A dead worker has no memory.
Forget(t) ==
  /\ mem' = [mem EXCEPT ![t] = NoRecord]
  /\ stopping' = [stopping EXCEPT ![t] = FALSE]

Step(t, label) == worker' = [worker EXCEPT ![t] = label]

\* Signal handlers are installed; from here SIGTERM only sets a flag.
WorkerBoots(t) ==
  /\ worker[t] = "boot"
  /\ Step(t, "wait")
  /\ UNCHANGED <<lock, files, systemdVars, mem, stopping, sessionVars, agentVars, clientVars>>

WorkerAcquire(t) ==
  /\ worker[t] = "wait"
  /\ lock = NoHolder
  /\ lock' = t
  /\ Step(t, "check")
  /\ UNCHANGED <<files, systemdVars, mem, stopping, sessionVars, agentVars, clientVars>>

\* Mutant of WorkerClaims: any record will do.
ClaimsAnyRecord(t) ==
  /\ worker[t] = "check"
  /\ record # NoRecord
  /\ mem' = [mem EXCEPT ![t] = [record EXCEPT !.worker = TRUE]]
  /\ Step(t, "spawn")
  /\ UNCHANGED <<lock, files, systemdVars, stopping, sessionVars, agentVars, clientVars>>

\* The record must carry this worker's token; the in-memory copy names the
\* worker's pid, start time and invocation.
WorkerClaims(t) ==
  /\ worker[t] = "check"
  /\ record.token = t
  /\ mem' = [mem EXCEPT ![t] = [record EXCEPT !.worker = TRUE]]
  /\ Step(t, "spawn")
  /\ UNCHANGED <<lock, files, systemdVars, stopping, sessionVars, agentVars, clientVars>>

\* No record, or a later launch's: return, releasing the lock.
WorkerIsStale(t) ==
  /\ worker[t] = "check"
  /\ record.token # t
  /\ lock' = NoHolder
  /\ Step(t, "closing")
  /\ UNCHANGED <<files, systemdVars, mem, stopping, sessionVars, agentVars, clientVars>>

WorkerSpawns(t) ==
  /\ worker[t] = "spawn"
  /\ xpra' = [xpra EXCEPT ![t] = "running"]
  /\ Step(t, "record")
  /\ UNCHANGED <<lock, files, systemdVars, mem, stopping, leftover, agentVars, clientVars>>

\* chdir, the journal, the notification bus or Popen raises.
WorkerSpawnFails(t) ==
  /\ worker[t] = "spawn"
  /\ lock' = NoHolder
  /\ Step(t, "closing")
  /\ UNCHANGED <<files, systemdVars, mem, stopping, sessionVars, agentVars, clientVars>>

WorkerRecords(t) ==
  /\ worker[t] = "record"
  /\ record' = mem[t]
  /\ lock' = NoHolder
  /\ Step(t, "watch")
  /\ UNCHANGED <<root, issued, systemdVars, mem, stopping, sessionVars, agentVars, clientVars>>

\* write_record raises: the finally block terminates the Xpra just started.
WorkerRecordFails(t) ==
  /\ worker[t] = "record"
  /\ lock' = NoHolder
  /\ Step(t, "terminate")
  /\ UNCHANGED <<files, systemdVars, mem, stopping, sessionVars, agentVars, clientVars>>

\* Xpra printed its display; the line may be read after Xpra exited.
WorkerReadsDisplay(t) ==
  /\ worker[t] = "watch"
  /\ ~mem[t].display
  /\ Step(t, "publishWait")
  /\ UNCHANGED <<lock, files, systemdVars, mem, stopping, sessionVars, agentVars, clientVars>>

WorkerPublishLock(t) ==
  /\ worker[t] = "publishWait"
  /\ lock = NoHolder
  /\ lock' = t
  /\ Step(t, "publish")
  /\ UNCHANGED <<files, systemdVars, mem, stopping, sessionVars, agentVars, clientVars>>

\* The in-memory record is written without reading the file again.
WorkerPublishes(t) ==
  /\ worker[t] = "publish"
  /\ mem' = [mem EXCEPT ![t].display = TRUE]
  /\ record' = mem'[t]
  /\ lock' = NoHolder
  /\ Step(t, "watch")
  /\ UNCHANGED <<root, issued, systemdVars, stopping, sessionVars, agentVars, clientVars>>

\* The lock's deadline passes, or the write fails: Xpra is terminated.
WorkerPublishFails(t) ==
  /\ \/ worker[t] = "publishWait" /\ lock # NoHolder
     \/ worker[t] = "publish"
  /\ lock' = IF lock = t THEN NoHolder ELSE lock
  /\ Step(t, "terminate")
  /\ UNCHANGED <<files, systemdVars, mem, stopping, sessionVars, agentVars, clientVars>>

\* Mutant of WorkerLeavesLoop: only SIGTERM ends the loop.
LeavesOnlyWhenStopped(t) ==
  /\ worker[t] = "watch"
  /\ stopping[t]
  /\ Step(t, "terminate")
  /\ UNCHANGED <<lock, files, systemdVars, mem, stopping, sessionVars, agentVars, clientVars>>

\* The loop ends: SIGTERM, Xpra gone for a second, or both its pipes closed.
WorkerLeavesLoop(t) ==
  /\ worker[t] = "watch"
  /\ stopping[t] \/ xpra[t] # "running"
  /\ Step(t, "terminate")
  /\ UNCHANGED <<lock, files, systemdVars, mem, stopping, sessionVars, agentVars, clientVars>>

\* SIGTERM, five seconds, SIGKILL: Xpra is gone, its children may not be.
WorkerTerminatesXpra(t) ==
  /\ worker[t] = "terminate"
  /\ xpra' = [xpra EXCEPT ![t] = "exited"]
  /\ IF XpraAlive(t) THEN \E left \in BOOLEAN : leftover' = [leftover EXCEPT ![t] = left]
                     ELSE UNCHANGED leftover
  /\ Step(t, "closing")
  /\ UNCHANGED <<lock, files, systemdVars, mem, stopping, agentVars, clientVars>>

WorkerFinalLock(t) ==
  /\ worker[t] = "closing"
  /\ lock = NoHolder
  /\ lock' = t
  /\ Step(t, "unlink")
  /\ UNCHANGED <<files, systemdVars, mem, stopping, sessionVars, agentVars, clientVars>>

\* Either lock of the worker times out: the first leads to the finally block,
\* the last leaves the record where it is.
WorkerLockTimeout(t) ==
  /\ lock # NoHolder
  /\ \/ worker[t] = "wait" /\ Step(t, "closing")
     \/ worker[t] = "closing" /\ Step(t, "leaving")
  /\ UNCHANGED <<lock, files, systemdVars, mem, stopping, sessionVars, agentVars, clientVars>>

\* Mutant of WorkerUnlinks: the token is not compared.
UnlinksAnyRecord(t) ==
  /\ worker[t] = "unlink"
  /\ record' = NoRecord
  /\ lock' = NoHolder
  /\ Step(t, "leaving")
  /\ UNCHANGED <<root, issued, systemdVars, mem, stopping, sessionVars, agentVars, clientVars>>

\* The record is read again and removed only if it is still this launch's.
WorkerUnlinks(t) ==
  /\ worker[t] = "unlink"
  /\ record' = IF record.token = t THEN NoRecord ELSE record
  /\ lock' = NoHolder
  /\ Step(t, "leaving")
  /\ UNCHANGED <<root, issued, systemdVars, mem, stopping, sessionVars, agentVars, clientVars>>

\* The worker's process ends: it returns from main, or something kills it.
\* The kernel closes its flock; what it started lives on in the cgroup.
WorkerDies(t) ==
  /\ WorkerAlive(t)
  /\ lock' = IF lock = t THEN NoHolder ELSE lock
  /\ Step(t, "dead")
  /\ Forget(t)
  /\ UNCHANGED <<files, systemdVars, sessionVars, agentVars, clientVars>>

WorkerExits(t) == worker[t] = "leaving" /\ WorkerDies(t)

---------------------------------------------------------------------------
(* External: the Xpra server and the application it runs.                   *)

XpraExits(t) ==
  /\ XpraAlive(t)
  /\ xpra' = [xpra EXCEPT ![t] = "exited"]
  /\ \E left \in BOOLEAN : leftover' = [leftover EXCEPT ![t] = left]
  /\ UNCHANGED <<lock, files, systemdVars, workerVars, agentVars, clientVars>>

XpraClosesPipes(t) ==
  /\ xpra[t] = "running"
  /\ xpra' = [xpra EXCEPT ![t] = "silent"]
  /\ UNCHANGED <<lock, files, systemdVars, workerVars, leftover, agentVars, clientVars>>

LeftoverExits(t) ==
  /\ leftover[t]
  /\ leftover' = [leftover EXCEPT ![t] = FALSE]
  /\ UNCHANGED <<lock, files, systemdVars, workerVars, xpra, agentVars, clientVars>>

---------------------------------------------------------------------------
(* External: the user's systemd manager.  A unit name exists once; the unit *)
(* goes away only when its cgroup is empty (--collect, Restart=no).         *)

JobIs(t, state) == job' = [job EXCEPT ![t] = state]

ManagerAccepts(t) ==
  /\ job[t] = "sent"
  /\ unit = NoUnit
  /\ unit' = [token |-> t, state |-> "activating", main |-> TRUE]
  /\ JobIs(t, "accepted")
  /\ UNCHANGED <<lock, files, workerVars, sessionVars, agentVars, clientVars>>

\* The name is taken, or systemd-run fails before the manager hears of it.
ManagerRefuses(t) ==
  /\ job[t] = "sent"
  /\ JobIs(t, "refused")
  /\ UNCHANGED <<lock, files, unit, workerVars, sessionVars, agentVars, clientVars>>

ManagerExecs(t) ==
  /\ unit.token = t
  /\ unit.state = "activating"
  /\ unit' = [token |-> t, state |-> "active", main |-> TRUE]
  /\ JobIs(t, "done")
  /\ Step(t, "boot")
  /\ UNCHANGED <<lock, files, mem, stopping, sessionVars, agentVars, clientVars>>

ManagerExecFails(t) ==
  /\ unit.token = t
  /\ unit.state = "activating"
  /\ unit' = NoUnit
  /\ JobIs(t, "refused")
  /\ UNCHANGED <<lock, files, workerVars, sessionVars, agentVars, clientVars>>

\* An administrator or the end of the login stops the unit: SIGTERM to the
\* cgroup.  A worker without handlers dies of it.
ManagerStops(t) ==
  /\ unit.token = t
  /\ unit.state = "active"
  /\ unit' = [token |-> t, state |-> "deactivating", main |-> unit.main]
  /\ IF worker[t] = "boot"
       THEN Step(t, "dead") /\ UNCHANGED stopping
       ELSE stopping' = [stopping EXCEPT ![t] = WorkerAlive(t)] /\ UNCHANGED worker
  /\ UNCHANGED <<lock, files, job, mem, sessionVars, agentVars, clientVars>>

\* The main process is reaped; what is left of the cgroup gets SIGTERM.
ManagerReaps(t) ==
  /\ unit.token = t
  /\ unit.main
  /\ worker[t] = "dead"
  /\ unit' = [token |-> t, state |-> "deactivating", main |-> FALSE]
  /\ UNCHANGED <<lock, files, job, workerVars, sessionVars, agentVars, clientVars>>

\* TimeoutStopSec passes: SIGKILL to the whole cgroup.
ManagerKills(t) ==
  /\ unit.token = t
  /\ unit.state = "deactivating"
  /\ WorkerAlive(t) \/ DescendantAlive(t)
  /\ lock' = IF lock = t THEN NoHolder ELSE lock
  /\ worker' = [worker EXCEPT ![t] = "dead"]
  /\ xpra' = [xpra EXCEPT ![t] = IF XpraAlive(t) THEN "exited" ELSE @]
  /\ leftover' = [leftover EXCEPT ![t] = FALSE]
  /\ Forget(t)
  /\ UNCHANGED <<files, systemdVars, agentVars, clientVars>>

ManagerCollects(t) ==
  /\ unit.token = t
  /\ unit.state = "deactivating"
  /\ ~unit.main
  /\ ~DescendantAlive(t)
  /\ unit' = NoUnit
  /\ UNCHANGED <<lock, files, job, workerVars, sessionVars, agentVars, clientVars>>

---------------------------------------------------------------------------

AgentNext(a) ==
  \/ \E r \in Requests : StartEnsure(a, r)
  \/ \E t \in Tokens : StartStatus(a, t)
  \/ StartFallback(a) \/ FallbackWithoutRoot(a)
  \/ Acquire(a) \/ LockTimeout(a)
  \/ FallbackAllowed(a) \/ FallbackRefused(a)
  \/ EnsureRead(a) \/ StatusGone(a) \/ StatusRead(a)
  \/ Inspect(a) \/ InspectFails(a)
  \/ EnsureMismatch(a) \/ EnsureRefused(a) \/ EnsureResume(a) \/ EnsureBusy(a)
  \/ EnsureAbsent(a) \/ EnsureWrite(a) \/ EnsureWriteFails(a) \/ EnsureSubmit(a)
  \/ EnsureCreated(a) \/ EnsureStartFails(a) \/ EnsureStartTimeout(a)
  \/ StatusEnded(a) \/ StatusRunning(a) \/ StatusMismatch(a)
  \/ AgentKilled(a)

WorkerNext(t) ==
  \/ WorkerBoots(t) \/ WorkerAcquire(t) \/ WorkerClaims(t) \/ WorkerIsStale(t)
  \/ WorkerSpawns(t) \/ WorkerSpawnFails(t) \/ WorkerRecords(t) \/ WorkerRecordFails(t)
  \/ WorkerReadsDisplay(t) \/ WorkerPublishLock(t) \/ WorkerPublishes(t)
  \/ WorkerPublishFails(t) \/ WorkerLeavesLoop(t) \/ WorkerTerminatesXpra(t)
  \/ WorkerFinalLock(t) \/ WorkerLockTimeout(t) \/ WorkerUnlinks(t) \/ WorkerDies(t)

SessionNext(t) == XpraExits(t) \/ XpraClosesPipes(t) \/ LeftoverExits(t)

ManagerNext(t) ==
  \/ ManagerAccepts(t) \/ ManagerRefuses(t) \/ ManagerExecs(t) \/ ManagerExecFails(t)
  \/ ManagerStops(t) \/ ManagerReaps(t) \/ ManagerKills(t) \/ ManagerCollects(t)

Next ==
  \/ \E a \in Agents : AgentNext(a)
  \/ \E t \in Tokens : WorkerNext(t) \/ SessionNext(t) \/ ManagerNext(t)

Spec == Init /\ [][Next]_vars

---------------------------------------------------------------------------
(* Properties                                                               *)

\* Every variable stays within its type.
TypeOK ==
  /\ lock \in Agents \cup Tokens \cup {NoHolder}
  /\ root \in BOOLEAN
  /\ record \in Records \cup {NoRecord}
  /\ issued \in 0 .. MaxToken
  /\ job \in [Tokens -> JobStates]
  /\ unit \in Units \cup {NoUnit}
  /\ worker \in [Tokens -> WorkerStates]
  /\ mem \in [Tokens -> Records \cup {NoRecord}]
  /\ xpra \in [Tokens -> {"none", "running", "silent", "exited"}]
  /\ leftover \in [Tokens -> BOOLEAN]
  /\ stopping \in [Tokens -> BOOLEAN]
  /\ pc \in [Agents -> AgentStates]
  /\ op \in [Agents -> {"none", "ensure", "status", "fallback"}]
  /\ asked \in [Agents -> Requests \cup {NoRequest}]
  /\ token \in [Agents -> Tokens \cup {NoToken}]
  /\ rec \in [Agents -> Records \cup {NoRecord}]
  /\ seen \in [Agents -> Units \cup {NoUnit}]
  /\ known \subseteq Tokens
  /\ ended \subseteq Tokens

\* A launch that owns the session is the one the record file describes, so the
\* next ensure finds it and never starts a second application beside it.  No
\* late start request, dying worker, lost reply or killed helper breaks this.
OwnerIsRecorded == \A t \in Tokens : Owner(t) => record.token = t

\* ordinary_fallback never permits an ordinary session while this key's Xpra
\* runs or its worker is about to start it.
FallbackNeverDuplicates ==
  [][\A a \in Agents :
       FallbackAllowed(a) \/ FallbackWithoutRoot(a) => \A t \in Tokens : ~Owner(t)]_vars

\* A client is only handed the launch the record describes at that moment, and
\* only if that launch was made from the settings it asked for.
HandsOutRecordedLaunch ==
  [][\A a \in Agents :
       /\ EnsureResume(a) => record = rec[a] /\ record.request = asked[a]
       /\ EnsureCreated(a) => record.token = token[a] /\ record.request = asked[a]]_vars

\* Once a status reported a session as ended, no helper reports it as alive.
EndedIsFinal ==
  [][\A a \in Agents :
       /\ EnsureResume(a) \/ StatusRunning(a) => rec[a].token \notin ended
       /\ EnsureCreated(a) => token[a] \notin ended]_vars

\* A worker changes the record file only while it describes its own launch:
\* a late or dying worker never overwrites or removes a successor's record.
WorkerTouchesOwnRecord ==
  [][\A t \in Tokens :
       worker'[t] # worker[t] /\ record' # record => record.token = t]_vars

\* ordinary_fallback's promise taken literally: no process of the application
\* is left in the unit when an ordinary session is permitted.  It does not hold: the
\* record goes before the manager kills what outlived Xpra.
FallbackNeverBesideApplication ==
  [][\A a \in Agents : FallbackAllowed(a) => \A t \in Tokens : ~DescendantAlive(t)]_vars

---------------------------------------------------------------------------
(* Refinement                                                               *)

Service == INSTANCE PersistentService
             WITH live <- {t \in Tokens : XpraAlive(t)},
                  started <- {t \in Tokens : xpra[t] # "none"}

\* The helpers and workers implement the abstract service: at most one Xpra of
\* the key at a time, and no superseded launch ever starts one.
ImplementsService == Service!Spec

---------------------------------------------------------------------------
(* The inductive invariant                                                  *)

\* Who holds the flock is exactly who is inside a `with locked` block.
LockInv ==
  /\ \A a \in Agents : lock = a <=> pc[a] \notin {"idle", "lock"}
  /\ \A t \in Tokens : lock = t <=> worker[t] \in {"check", "spawn", "record",
                                                   "publish", "unlink"}

\* The file, if there is one, is of the newest launch.
RecordInv == record # NoRecord => root /\ record.token = issued

\* A worker and its Xpra exist only after the manager finished their start job.
JobInv ==
  \A t \in Tokens :
    /\ t > issued => job[t] = "none"
    /\ job[t] # "done" => worker[t] = "none" /\ xpra[t] = "none" /\ ~leftover[t]
    /\ worker[t] = "none" => xpra[t] = "none"
    /\ worker[t] \in {"boot", "wait", "check", "spawn"} => xpra[t] = "none"
    /\ worker[t] \in {"closing", "unlink", "leaving"} => ~XpraAlive(t)
    /\ worker[t] \in {"record", "watch", "publishWait", "publish", "terminate"} => xpra[t] # "none"
    /\ unit.token = t => job[t] \in {"accepted", "done"}
    /\ unit.token = t /\ unit.state = "activating" => job[t] = "accepted"

\* Everything a launch started lives in the cgroup of the unit of its name.
CgroupInv ==
  \A t \in Tokens :
    /\ WorkerAlive(t) => unit # NoUnit /\ unit.token = t /\ unit.main
    /\ DescendantAlive(t) => unit # NoUnit /\ unit.token = t

\* The in-memory record of a worker that owns the session is its own.
MemInv ==
  \A t \in Tokens :
    worker[t] \in {"spawn", "record", "watch", "publishWait", "publish"}
      => mem[t] \in Records /\ mem[t].token = t

OwnerInv == \A t \in Tokens : Owner(t) => t = issued /\ record # NoRecord /\ record.token = t

\* An ensure that is about to replace the record saw no unit while it held the
\* lock, so no launch owns the session and none can come to own it.
ReplaceInv ==
  \A a \in Agents :
    pc[a] = "write" \/ (pc[a] = "decide" /\ seen[a] = NoUnit)
      => \A t \in Tokens : ~Owner(t)

\* What a helper read or wrote under the lock is still what the file says.
HelperInv(a) ==
  /\ pc[a] \in {"inspect", "decide"} => rec[a] = record
  /\ pc[a] \in {"write", "submit", "starting"} => op[a] = "ensure"
  /\ pc[a] \in {"submit", "starting"} =>
       /\ record # NoRecord
       /\ record.token = token[a]
       /\ record.request = asked[a]
  /\ pc[a] = "submit" => job[token[a]] = "none"
  /\ pc[a] # "idle" => root
  /\ pc[a] # "idle" /\ op[a] = "ensure" => asked[a] \in Requests
  /\ pc[a] # "idle" /\ op[a] = "status" => token[a] \in known

AgentInv == \A a \in Agents : HelperInv(a)

\* Clients know only launches whose start request was handled; a launch that
\* some status reported as ended has lost its record or its unit for good.
ClientInv ==
  /\ ended \subseteq known
  /\ \A t \in known : t <= issued /\ job[t] \notin {"none", "sent"}
  /\ \A t \in ended : record.token = t => ~(UnitRuns(unit) /\ unit.token = t)

\* What systemctl showed a helper stays decisive while it holds the lock.
VerdictInv(a) ==
  /\ pc[a] \in {"submit", "starting"} => token[a] \notin known
  /\ pc[a] = "decide" /\ seen[a] # NoUnit => job[seen[a].token] \notin {"none", "sent"}
  /\ pc[a] = "decide" /\ UnitRuns(seen[a]) /\ seen[a].token = rec[a].token
       => rec[a].token \notin ended
  /\ pc[a] = "decide" /\ op[a] = "status" /\ ~UnitRuns(seen[a])
       => ~(UnitRuns(unit) /\ unit.token = token[a])
  /\ pc[a] \in {"inspect", "decide"} /\ op[a] = "status" => rec[a].token = token[a]

IInv ==
  /\ TypeOK
  /\ LockInv
  /\ RecordInv
  /\ JobInv
  /\ CgroupInv
  /\ MemInv
  /\ OwnerInv
  /\ ReplaceInv
  /\ AgentInv
  /\ ClientInv
  /\ \A a \in Agents : VerdictInv(a)

---------------------------------------------------------------------------
(* Fairness and liveness                                                    *)

\* Helpers and workers are running processes whose waits all have deadlines.
\* The manager handles requests, reaps, kills after TimeoutStopSec, collects.
\* Nobody has to be killed, to stop the unit, or to exit by itself.
Fairness ==
  /\ \A a \in Agents :
       WF_vars(\/ Acquire(a) \/ LockTimeout(a) \/ FallbackAllowed(a) \/ FallbackRefused(a) \/ EnsureRead(a)
               \/ StatusGone(a) \/ StatusRead(a) \/ Inspect(a) \/ EnsureMismatch(a)
               \/ EnsureRefused(a) \/ EnsureResume(a) \/ EnsureBusy(a) \/ EnsureAbsent(a)
               \/ EnsureWrite(a) \/ EnsureWriteFails(a) \/ EnsureSubmit(a)
               \/ EnsureCreated(a) \/ EnsureStartFails(a) \/ EnsureStartTimeout(a)
               \/ StatusEnded(a) \/ StatusRunning(a) \/ StatusMismatch(a))
  /\ \A t \in Tokens :
       /\ WF_vars(\/ WorkerBoots(t) \/ WorkerAcquire(t) \/ WorkerLockTimeout(t)
                  \/ WorkerClaims(t) \/ WorkerIsStale(t) \/ WorkerSpawns(t)
                  \/ WorkerRecords(t) \/ WorkerPublishLock(t) \/ WorkerPublishes(t)
                  \/ WorkerPublishFails(t) \/ WorkerLeavesLoop(t)
                  \/ WorkerTerminatesXpra(t) \/ WorkerFinalLock(t) \/ WorkerUnlinks(t)
                  \/ WorkerExits(t))
       /\ WF_vars(ManagerAccepts(t) \/ ManagerRefuses(t) \/ ManagerExecs(t)
                  \/ ManagerReaps(t) \/ ManagerKills(t) \/ ManagerCollects(t))

FairSpec == Spec /\ Fairness

\* No helper waits for ever: neither for the lock, held by another helper that
\* waits for systemd-run whose unit waits for the same lock, nor for a reply.
CallsAnswer == \A a \in Agents : pc[a] # "idle" ~> pc[a] = "idle"

\* When its Xpra is gone the service goes away, whoever holds the lock: the
\* name is free again and a stopped session cannot answer busy for ever.
ServiceDrains == \A t \in Tokens : xpra[t] = "exited" ~> unit.token # t

================================================================================
