---------------------------- MODULE SessionLifecycle ----------------------------
(***************************************************************************)
(* One `elsewindow` invocation on the local machine: the task of           *)
(* XpraSession.run(), which acquires processes and channels one after the  *)
(* other and releases them in its finally block, and the task of           *)
(* _run_with_signals(), which cancels it on the first signal.  Both run on *)
(* one event loop, so a step of the model is what happens between two      *)
(* suspensions; the processes they own end whenever they like.             *)
(*                                                                         *)
(* Source: elsewindow/session.py and elsewindow/cli.py.  ssh_wrapper's     *)
(* OpenSSHMaster and OwnedRemoteProcess and the Xpra processes are         *)
(* external and modelled from how those files use them.                    *)
(***************************************************************************)
VARIABLES
  pc,          \* the suspension run() is at
  persistent,  \* "no", "asked" until the prerequisites are met, then "yes"
  channels,    \* the RemoteLogChannels in _remote_logs
  master,      \* the SSH master process
  remote,      \* the ordinary remote Xpra: OwnedRemoteProcess
  service,     \* the persistent service this session observes
  client,      \* the local Xpra client
  drains,      \* the client's output drains are pending
  orphan,      \* a command was left behind while it was being stopped
  clash,       \* a channel's abandoned close still reads its output
  deferred,    \* the journal still holds back its startup records
  closed,      \* what the finally block has closed: "remote", "master", "journal"
  outcome,     \* what run() is about to return or raise
  cut,         \* a cancellation ended a clean-up, or the stop of a command, that had begun
  held,        \* a process that no stop reaches holds an output that run() reads to its end
  signal,      \* a signal handler resolved the `interrupted` future
  main,        \* _run_with_signals: "waiting", "joining" the task, "done"
  exit         \* the exit code: "zero", "one" or 128 + "signal"

runVars == <<pc, persistent, outcome, cut>>
ownedVars == <<channels, drains, orphan, clash, deferred, closed>>
processVars == <<master, remote, service, client>>
outsideVars == <<held, signal, main, exit>>   \* what run() itself never changes

vars == <<runVars, ownedVars, processVars, outsideVars>>

Channels == {"provisional", "stable"}

\* Awaits at which a command of run() is alive, here or over the mux.
LocalCommand == {"local"}
MuxCommand == {"prepare", "identify", "capabilities", "prerequisites", "ensure", "ready"}

\* Awaits of RemoteLogChannel.start, and of its close when no reply came.
Subscribing == {"subscribe", "resubscribe"}
StopsChannel == {"stopSubscribe", "stopResubscribe"}

\* Awaits that stop a command: SIGTERM, five seconds, SIGKILL.  The last one gathers the
\* observer of a service, whose status call is being stopped.
StopsCommand == {"stopLocal", "stopMux", "stopStatus"}

\* Awaits of the ends of a command's outputs, which have no deadline.
Drains == {"drainLocal", "diagnose", "drain"}

\* The awaits of the finally block, in its order.
Cleanup == {"stopClient", "drain", "closeRemote", "closeLogs", "closeMaster"}

Locations == LocalCommand \cup MuxCommand \cup Subscribing \cup StopsChannel
  \cup StopsCommand \cup Drains \cup Cleanup
  \cup {"master", "reattach", "launch", "attach", "wait", "unwait", "returned"}

Init ==
  /\ pc = "local"
  /\ persistent \in {"no", "asked"}
  /\ channels = {}
  /\ master = "none"
  /\ remote = "none"
  /\ service = "none"
  /\ client = "none"
  /\ drains = FALSE
  /\ orphan = FALSE
  /\ clash = FALSE
  /\ deferred = (persistent = "asked")
  /\ closed = {}
  /\ outcome = "none"
  /\ cut = FALSE
  /\ held = FALSE
  /\ signal = FALSE
  /\ main = "waiting"
  /\ exit = "none"

---------------------------------------------------------------------------
(* run(): start and attach                                                  *)

From(here, there) == pc = here /\ pc' = there

\* The command ended by itself; its outputs are read to their ends.
LocalEnded ==
  /\ From("local", "drainLocal")
  /\ UNCHANGED <<persistent, outcome, cut, ownedVars, processVars, outsideVars>>

\* The local capability checks passed, or did without the one that took too long; the
\* SSH master is started and owned.
LocalChecked ==
  /\ From("drainLocal", "master")
  /\ ~held /\ outcome = "none"
  /\ master' = "running"
  /\ UNCHANGED <<persistent, outcome, cut, ownedVars, remote, service, client, outsideVars>>

\* _subscribe_logs appends its channel before it starts it.
MasterStarted ==
  /\ From("master", "subscribe")
  /\ channels' = {"provisional"}
  /\ UNCHANGED <<persistent, outcome, cut, drains, orphan, clash, deferred, closed, processVars, outsideVars>>

\* Subscribed, or degraded at once: the failed channel is closed and forgotten.
Subscribed ==
  /\ From("subscribe", IF persistent = "asked" THEN "prepare" ELSE "capabilities")
  /\ channels' \in {{"provisional"}, {}}
  /\ UNCHANGED <<persistent, outcome, cut, drains, orphan, clash, deferred, closed, processVars, outsideVars>>

\* No reply within 15 s: start() closes the channel itself.
SubscriptionTimesOut ==
  /\ \/ From("subscribe", "stopSubscribe")
     \/ From("resubscribe", "stopResubscribe")
  /\ UNCHANGED <<persistent, outcome, cut, ownedVars, processVars, outsideVars>>

SubscriptionStopped ==
  /\ \/ From("stopSubscribe", IF persistent = "asked" THEN "prepare" ELSE "capabilities")
     \/ From("stopResubscribe", "capabilities")
  /\ channels' = {}
  /\ UNCHANGED <<persistent, outcome, cut, drains, orphan, clash, deferred, closed, processVars, outsideVars>>

Prepared ==
  /\ From("prepare", "identify")
  /\ persistent' = "yes"
  /\ UNCHANGED <<outcome, cut, ownedVars, processVars, outsideVars>>

\* No user manager or no consent, and no recorded session: an ordinary session.
FallsBack ==
  /\ From("prepare", "capabilities")
  /\ persistent' = "no"
  /\ deferred' = FALSE
  /\ UNCHANGED <<outcome, cut, channels, drains, orphan, clash, closed, processVars, outsideVars>>

Identified ==
  /\ From("identify", "reattach")
  /\ UNCHANGED <<persistent, outcome, cut, ownedVars, processVars, outsideVars>>

\* The provisional channel is closed, then dropped; records are released under
\* the stable identity and the next channel is appended.
Reattached ==
  /\ From("reattach", "resubscribe")
  /\ channels' = {"stable"}
  /\ deferred' = FALSE
  /\ UNCHANGED <<persistent, outcome, cut, drains, orphan, clash, closed, processVars, outsideVars>>

Resubscribed ==
  /\ From("resubscribe", "capabilities")
  /\ channels' \in {{"stable"}, {}}
  /\ UNCHANGED <<persistent, outcome, cut, drains, orphan, clash, deferred, closed, processVars, outsideVars>>

CapabilitiesChecked ==
  /\ From("capabilities", "prerequisites")
  /\ UNCHANGED <<persistent, outcome, cut, ownedVars, processVars, outsideVars>>

\* The remote desktop was probed, or the probe was given up and stopped: it is optional.
\* self.remote is assigned before it is started.
PrerequisitesChecked ==
  /\ pc = "prerequisites" \/ (pc = "stopMux" /\ outcome = "none")
  /\ pc' = IF persistent = "yes" THEN "ensure" ELSE "launch"
  /\ remote' = IF persistent = "yes" THEN remote ELSE "running"
  /\ UNCHANGED <<persistent, outcome, cut, ownedVars, master, service, client, outsideVars>>

Launched ==
  /\ From("launch", "ready")
  /\ UNCHANGED <<persistent, outcome, cut, ownedVars, processVars, outsideVars>>

Ensured ==
  /\ From("ensure", "ready")
  /\ service' = "running"
  /\ UNCHANGED <<persistent, outcome, cut, ownedVars, master, remote, client, outsideVars>>

ReadyToAttach ==
  /\ From("ready", "attach")
  /\ UNCHANGED <<persistent, outcome, cut, ownedVars, processVars, outsideVars>>

Attached ==
  /\ From("attach", "wait")
  /\ client' = "running"
  /\ drains' = TRUE
  /\ UNCHANGED <<persistent, outcome, cut, channels, orphan, clash, deferred, closed,
                 master, remote, service, outsideVars>>

---------------------------------------------------------------------------
(* run(): errors                                                            *)

\* The finally block is entered with an exception in flight.
Raise == outcome' = "error" /\ pc' = "stopClient"

\* Any step before the client is attached may raise an SSHError.
Fails ==
  /\ \/ pc \in LocalCommand \cup MuxCommand \cup Subscribing \cup {"master", "launch", "attach"}
     \/ pc = "drainLocal" /\ ~held /\ outcome = "none"
  /\ Raise
  /\ UNCHANGED <<persistent, cut, ownedVars, processVars, outsideVars>>

\* A command's time is up: it is stopped first.  A local probe may, and the remote
\* desktop's does, count as an answer then.
CommandTimesOut ==
  /\ \/ pc \in LocalCommand /\ pc' = "stopLocal" /\ outcome' \in {"none", "error"}
     \/ /\ pc \in MuxCommand /\ pc' = "stopMux"
        /\ outcome' = IF pc = "prerequisites" THEN "none" ELSE "error"
  /\ UNCHANGED <<persistent, cut, ownedVars, processVars, outsideVars>>

\* The command is gone.  What is in flight goes on to the finally block; the outputs of a
\* local one are read first.
CommandStopped ==
  /\ \/ From("stopLocal", "drainLocal")
     \/ From("stopMux", "stopClient") /\ outcome # "none"
  /\ UNCHANGED <<persistent, outcome, cut, ownedVars, processVars, outsideVars>>

LocalDrained ==
  /\ From("drainLocal", "stopClient")
  /\ ~held /\ outcome # "none"
  /\ UNCHANGED <<persistent, outcome, cut, ownedVars, processVars, outsideVars>>

---------------------------------------------------------------------------
(* run(): _wait_lifecycle                                                   *)

\* The three awaited ends, among those that have happened.
Ends == {who \in {"client", "remote", "master"} :
           \/ who = "client" /\ client \in {"ok", "failed"}
           \/ who = "remote" /\ (remote \in {"ok", "failed"} \/ service = "ended")
           \/ who = "master" /\ master = "lost"}

\* Mutant of WaitOutcome: any end of the client counts as a detach.
WaitOutcomeOfClient(done) ==
  IF "client" \in done THEN "ok"
  ELSE IF "master" \in done THEN "error"
  ELSE IF "remote" \in done THEN IF remote = "failed" THEN "error" ELSE "ok"
  ELSE "diagnose"

\* A detached client wins over a lost master, that over the remote's status, and
\* that over a failed client, whose diagnostics are still to be read.
WaitOutcome(done) ==
  IF "client" \in done /\ client = "ok" THEN "ok"
  ELSE IF "master" \in done THEN "error"
  ELSE IF "remote" \in done THEN IF remote = "failed" THEN "error" ELSE "ok"
  ELSE "diagnose"

\* The waits that are left are cancelled and gathered: the observer of a service may be
\* in a status call, which is stopped.
Unwait(done) ==
  \/ pc' = "unwait"
  \/ persistent = "yes" /\ "remote" \notin done /\ pc' = "stopStatus"

\* Mutant of WaitEnds: only the client is waited for.
WaitEndsOfClient ==
  /\ pc = "wait"
  /\ "client" \in Ends
  /\ pc' = "unwait"
  /\ outcome' = WaitOutcome({"client"})
  /\ UNCHANGED <<persistent, cut, ownedVars, processVars, outsideVars>>

\* The loop may see only some of the ends that happened together.
WaitEnds ==
  /\ pc = "wait"
  /\ \E done \in SUBSET Ends \ {{}} :
       LET result == WaitOutcome(done) IN
       /\ IF result = "diagnose" THEN pc' = "diagnose" ELSE Unwait(done)
       /\ outcome' = IF result = "diagnose" THEN outcome ELSE result
       /\ drains' = IF result = "diagnose" THEN FALSE ELSE drains
  /\ UNCHANGED <<persistent, cut, channels, orphan, clash, deferred, closed, processVars, outsideVars>>

\* A status call of the observed service fails.
ObservationFails ==
  /\ pc = "wait"
  /\ persistent = "yes"
  /\ pc' = "unwait"
  /\ outcome' = "error"
  /\ UNCHANGED <<persistent, cut, ownedVars, processVars, outsideVars>>

\* The client's output was read to its end; its failure is raised.
Diagnosed ==
  /\ pc = "diagnose" /\ ~held
  /\ Unwait({})
  /\ outcome' = "error"
  /\ UNCHANGED <<persistent, cut, ownedVars, processVars, outsideVars>>

Unwaited ==
  /\ pc \in {"unwait", "stopStatus"} /\ pc' = "stopClient"
  /\ UNCHANGED <<persistent, outcome, cut, ownedVars, processVars, outsideVars>>

---------------------------------------------------------------------------
(* run(): the finally block                                                 *)

\* _terminate_local: SIGTERM to the client's group, SIGKILL after five seconds.
ClientStopped ==
  /\ From("stopClient", "drain")
  /\ client' = IF client = "running" THEN "stopped" ELSE client
  /\ UNCHANGED <<persistent, outcome, cut, ownedVars, master, remote, service, outsideVars>>

\* Outputs end when nobody has them open any more.
Drained ==
  /\ From("drain", "closeRemote")
  /\ drains => ~held
  /\ drains' = FALSE
  /\ UNCHANGED <<persistent, outcome, cut, channels, orphan, clash, deferred, closed, processVars, outsideVars>>

\* Only an ordinary session's remote is closed: a service outlives the connection.
RemoteClosed ==
  /\ From("closeRemote", "closeLogs")
  /\ remote' = IF remote = "running" THEN "stopped" ELSE remote
  /\ closed' = IF remote = "none" THEN closed ELSE closed \cup {"remote"}
  /\ UNCHANGED <<persistent, outcome, cut, channels, drains, orphan, clash, deferred,
                 master, service, client, outsideVars>>

ChannelClosed ==
  /\ pc = "closeLogs"
  /\ \E c \in channels : channels' = channels \ {c}
  /\ UNCHANGED <<runVars, drains, orphan, clash, deferred, closed, processVars, outsideVars>>

\* A second close() of a channel whose first one is still reading: two readers
\* of one stream, so it raises and the rest of the finally block is skipped.
ChannelCloseRaises ==
  /\ pc = "closeLogs"
  /\ clash
  /\ channels' = {}
  /\ outcome' = "crashed"
  /\ pc' = "returned"
  /\ UNCHANGED <<persistent, cut, drains, orphan, clash, deferred, closed, processVars, outsideVars>>

\* Mutant of LogsClosed: the channels are left to the garbage collector.
LogsForgotten ==
  /\ From("closeLogs", "closeMaster")
  /\ UNCHANGED <<persistent, outcome, cut, ownedVars, processVars, outsideVars>>

LogsClosed ==
  /\ From("closeLogs", "closeMaster")
  /\ channels = {}
  /\ UNCHANGED <<persistent, outcome, cut, ownedVars, processVars, outsideVars>>

\* The master is closed; then, without another suspension, held-back records are
\* released, the journal is closed and run() returns or raises.
MasterClosed ==
  /\ From("closeMaster", "returned")
  /\ master' = IF master = "running" THEN "stopped" ELSE master
  /\ closed' = closed \cup {"master", "journal"}
  /\ deferred' = FALSE
  /\ UNCHANGED <<persistent, outcome, cut, channels, drains, orphan, clash, remote,
                 service, client, outsideVars>>

---------------------------------------------------------------------------
(* _run_with_signals()                                                      *)

\* A handler of SIGHUP, SIGINT or SIGTERM; later ones find the future resolved.
Signal ==
  /\ main # "done"
  /\ ~signal
  /\ signal' = TRUE
  /\ UNCHANGED <<runVars, ownedVars, processVars, held, main, exit>>

\* The steps of the finally block that have nothing to await do not suspend.
Suspended ==
  /\ pc = "stopClient" => client = "running"
  /\ pc = "drain" => drains
  /\ pc = "closeRemote" => remote # "none"
  /\ pc \in {"closeLogs", "reattach"} => channels # {}

\* Where a CancelledError thrown at the present suspension leads.  A running command is
\* stopped before it goes on, a wait gathers what it waited for, a stop is given up for
\* what follows it, and the finally block is left for good.
CancelTo ==
  CASE pc \in LocalCommand -> {"stopLocal"}
    [] pc = "stopLocal" -> {"drainLocal"}
    [] pc \in MuxCommand -> {"stopMux"}
    [] pc \in {"wait", "diagnose"} -> {"unwait"} \cup IF persistent = "yes" THEN {"stopStatus"} ELSE {}
    [] pc \in Cleanup -> {"returned"}
    [] OTHER -> {"stopClient"}

\* The first signal is noticed while run() is suspended: the task is cancelled.  The
\* local command whose stop is given up has had its SIGTERM and may keep its outputs.
CancelRun ==
  /\ main = "waiting"
  /\ signal
  /\ pc # "returned"
  /\ Suspended
  /\ main' = "joining"
  /\ pc' \in CancelTo
  /\ outcome' = "cancelled"
  /\ cut' = (pc \in Cleanup \cup StopsCommand)
  /\ orphan' = (pc \in StopsCommand)
  /\ \/ held' = held
     \/ pc = "stopLocal" /\ held' = TRUE
  /\ drains' = (drains /\ pc # "drain")
  /\ clash' = (pc \in StopsChannel)
  /\ UNCHANGED <<persistent, channels, deferred, closed, processVars, signal, exit>>

\* Both ended in one turn of the loop: the task is past cancelling.
SignalMeetsReturn ==
  /\ main = "waiting"
  /\ signal
  /\ pc = "returned"
  /\ main' = "joining"
  /\ UNCHANGED <<runVars, ownedVars, processVars, held, signal, exit>>

\* Mutant of Joined: only a cancelled run is joined.
JoinedCancelled ==
  /\ main = "joining"
  /\ pc = "returned"
  /\ outcome = "cancelled"
  /\ main' = "done"
  /\ exit' = "signal"
  /\ UNCHANGED <<runVars, ownedVars, processVars, held, signal>>

\* A cancelled or successful run ends with the signal's code; an error of its own
\* is reported instead.
Joined ==
  /\ main = "joining"
  /\ pc = "returned"
  /\ main' = "done"
  /\ exit' = IF outcome \in {"error", "crashed"} THEN "one" ELSE "signal"
  /\ UNCHANGED <<runVars, ownedVars, processVars, held, signal>>

RunReturned ==
  /\ main = "waiting"
  /\ ~signal
  /\ pc = "returned"
  /\ main' = "done"
  /\ exit' = IF outcome = "ok" THEN "zero" ELSE "one"
  /\ UNCHANGED <<runVars, ownedVars, processVars, held, signal>>

---------------------------------------------------------------------------
(* External: the processes end by themselves.                               *)

ClientExits ==
  /\ client = "running"
  /\ client' \in {"ok", "failed"}
  /\ UNCHANGED <<runVars, ownedVars, master, remote, service, outsideVars>>

RemoteExits ==
  /\ remote = "running"
  /\ remote' \in {"ok", "failed"}
  /\ UNCHANGED <<runVars, ownedVars, master, service, client, outsideVars>>

ServiceEnds ==
  /\ service = "running"
  /\ service' = "ended"
  /\ UNCHANGED <<runVars, ownedVars, master, remote, client, outsideVars>>

MasterLost ==
  /\ master = "running"
  /\ master' = "lost"
  /\ UNCHANGED <<runVars, ownedVars, remote, service, client, outsideVars>>

\* A process of a command leaves its group with an output of it, and ends some time.
Escapes ==
  /\ pc \in LocalCommand \cup {"stopLocal"} \/ client = "running"
  /\ ~held /\ held' = TRUE
  /\ UNCHANGED <<runVars, ownedVars, processVars, signal, main, exit>>

HolderEnds ==
  /\ held /\ held' = FALSE
  /\ UNCHANGED <<runVars, ownedVars, processVars, signal, main, exit>>

\* The process has ended; nothing more happens.
Ended ==
  /\ main = "done"
  /\ UNCHANGED vars

RunNext ==
  \/ LocalEnded \/ LocalChecked \/ MasterStarted \/ Subscribed \/ SubscriptionTimesOut
  \/ SubscriptionStopped \/ Prepared \/ FallsBack \/ Identified
  \/ Reattached \/ Resubscribed \/ CapabilitiesChecked \/ PrerequisitesChecked \/ Launched
  \/ Ensured \/ ReadyToAttach \/ Attached \/ Fails \/ CommandTimesOut \/ CommandStopped
  \/ LocalDrained
  \/ WaitEnds \/ ObservationFails \/ Diagnosed \/ Unwaited
  \/ ClientStopped \/ Drained \/ RemoteClosed \/ ChannelClosed \/ ChannelCloseRaises
  \/ LogsClosed \/ MasterClosed

MainNext == CancelRun \/ SignalMeetsReturn \/ Joined \/ RunReturned

Environment == ClientExits \/ RemoteExits \/ ServiceEnds \/ MasterLost \/ Escapes \/ HolderEnds

Next == RunNext \/ Signal \/ MainNext \/ Environment \/ Ended

Spec == Init /\ [][Next]_vars

---------------------------------------------------------------------------
(* Properties                                                               *)

\* Every variable stays within its type.
TypeOK ==
  /\ pc \in Locations
  /\ persistent \in {"no", "asked", "yes"}
  /\ channels \subseteq Channels
  /\ master \in {"none", "running", "lost", "stopped"}
  /\ remote \in {"none", "running", "ok", "failed", "stopped"}
  /\ service \in {"none", "running", "ended"}
  /\ client \in {"none", "running", "ok", "failed", "stopped"}
  /\ drains \in BOOLEAN /\ orphan \in BOOLEAN /\ clash \in BOOLEAN
  /\ deferred \in BOOLEAN /\ cut \in BOOLEAN /\ held \in BOOLEAN /\ signal \in BOOLEAN
  /\ closed \subseteq {"remote", "master", "journal"}
  /\ outcome \in {"none", "ok", "error", "cancelled", "crashed"}
  /\ main \in {"waiting", "joining", "done"}
  /\ exit \in {"none", "zero", "one", "signal"}

\* No process that run() started is left, here or behind a log channel.
ProcessesGone ==
  /\ client # "running" /\ remote # "running" /\ master # "running"
  /\ channels = {} /\ ~orphan

\* Besides, what was acquired was closed and the journal released its records.
Released ==
  /\ ProcessesGone
  /\ ~drains
  /\ remote # "none" => "remote" \in closed
  /\ {"master", "journal"} \subseteq closed
  /\ ~deferred

\* However far run() came and whichever step failed or was cancelled, it returns
\* only after it released everything, unless a cancellation met a clean-up or the
\* stop of a command that had begun, or a channel's close raised.
ReleasesOwned == pc = "returned" /\ ~cut /\ outcome # "crashed" => Released

\* Exit code 0 says that no signal came and that the client detached, the remote
\* server or the observed service ended by itself; 128 + n that a signal came.  An error
\* has been shown: the start-up records it was deferred with are released, even before
\* any identity is known.
ExitTellsTruth ==
  /\ exit = "zero" => ~signal /\ (client = "ok" \/ remote = "ok" \/ service = "ended")
  /\ exit = "signal" => signal /\ outcome \notin {"error", "crashed"}
  /\ exit = "one" /\ outcome = "error" => ~deferred /\ "journal" \in closed

\* run()'s docstring, "clean every owned process in order": nothing is left behind.  It
\* does not hold for a signal that comes when the clean-up has begun.
CleansEveryProcess == pc = "returned" /\ outcome # "crashed" => ProcessesGone

\* A signal that comes before a clean-up or a stop has begun is answered by a whole one.
SignalCleansUp == pc = "returned" /\ ~cut => ProcessesGone

---------------------------------------------------------------------------
(* Fairness and liveness                                                    *)

\* The event loop runs every task that can go on; starts, commands and stops have
\* deadlines, the reading of an output has none and waits for who holds it.  Nobody has
\* to answer the linger prompt, to detach, to exit or to close an output.
Fairness ==
  /\ WF_vars(MainNext)
  /\ WF_vars(RunNext /\ pc \notin {"prepare", "wait"})
  /\ WF_vars(WaitEnds)

FairSpec == Spec /\ Fairness

\* run() waits for an output that a process it does not reach has open (_run_local,
\* _finish_client_drains).
AwaitsHolder == held /\ pc \in Drains

\* A signal ends the invocation, unless from some moment on run() waits for an output
\* that is held open for ever: nothing else in it can keep it from its end.
SignalEnds == signal ~> (main = "done" \/ []AwaitsHolder)

\* So does the end of the client, of the remote side or of the SSH master, once
\* the client is attached.
EndIsNoticed == (pc = "wait" /\ Ends # {}) ~> (main = "done" \/ []AwaitsHolder)

================================================================================
