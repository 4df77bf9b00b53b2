--------------------------- MODULE ApplicationLaunch ---------------------------
(***************************************************************************)
(* The remote launch command of one owned scope.  Xpra runs it as its      *)
(* child and may run it more than once, at the same time or later; every   *)
(* run takes the scope's lock file, starts the private desktop portal      *)
(* services, starts the application and waits for it.  The scope is the    *)
(* directory of the private session bus, removed when its owner closes.    *)
(*                                                                         *)
(* Source: elsewindow/desktop.py and elsewindow/session_bus.py.  The       *)
(* portal services and the application are external processes.             *)
(***************************************************************************)
EXTENDS Integers, FiniteSets

CONSTANTS
  Launchers,  \* runs of application_main in this scope
  NoLauncher  \* nobody holds the flock

ASSUME LaunchersAssumption == NoLauncher \notin Launchers

\* Permission store, GTK backend and portal, in the order they are started.
Portals == 1 .. 3

VARIABLES
  scope,    \* the scope's directory exists
  holder,   \* the launcher that holds the flock on application.lock
  spent,    \* application.lock has its byte
  pc,       \* per launcher: where application_main is
  started,  \* per launcher: how many portal services are in `processes`
  live,     \* per launcher: the portal services that run
  app,      \* per launcher: its application process
  stop,     \* per launcher: `stopping` is set
  overdue,  \* per launcher: more than 5 s passed since then
  exit      \* per launcher: how it ended

lockVars == <<scope, holder, spent>>
serviceVars == <<started, live>>
endVars == <<stop, overdue, exit>>

vars == <<lockVars, pc, serviceVars, app, endVars>>

Locations == {"idle", "opened", "read", "write", "unarmed", "services", "ready", "abandon",
              "launch", "spawn", "assign", "run", "finally", "gone", "dead"}
Exits == {"none", "duplicate", "error", "stopped", "application"}

\* Locations at which the launcher's signal handlers are installed.
Armed == {"services", "ready", "abandon", "launch", "spawn", "assign", "run", "finally"}

Init ==
  /\ scope = TRUE
  /\ holder = NoLauncher
  /\ spent = FALSE
  /\ pc = [l \in Launchers |-> "idle"]
  /\ started = [l \in Launchers |-> 0]
  /\ live = [l \in Launchers |-> {}]
  /\ app = [l \in Launchers |-> "none"]
  /\ stop = [l \in Launchers |-> FALSE]
  /\ overdue = [l \in Launchers |-> FALSE]
  /\ exit = [l \in Launchers |-> "none"]

Goto(l, here, there) == pc[l] = here /\ pc' = [pc EXCEPT ![l] = there]

Running(l) == app[l] \in {"running", "asked"}

---------------------------------------------------------------------------
(* application_lock: the right to launch                                    *)

LockOpens(l) ==
  /\ Goto(l, "idle", "opened")
  /\ scope
  /\ UNCHANGED <<lockVars, serviceVars, app, endVars>>

\* An invalid payload, or a scope that is gone or not private.
LockRefuses(l) ==
  /\ Goto(l, "idle", "gone")
  /\ exit' = [exit EXCEPT ![l] = "error"]
  /\ UNCHANGED <<lockVars, serviceVars, app, stop, overdue>>

LockTaken(l) ==
  /\ Goto(l, "opened", "read")
  /\ holder = NoLauncher
  /\ holder' = l
  /\ UNCHANGED <<scope, spent, serviceVars, app, endVars>>

\* BlockingIOError: another launch is under way; exit 0.
LockBusy(l) ==
  /\ Goto(l, "opened", "gone")
  /\ holder # NoLauncher
  /\ exit' = [exit EXCEPT ![l] = "duplicate"]
  /\ UNCHANGED <<lockVars, serviceVars, app, stop, overdue>>

\* The byte is there: an earlier launch spent the scope.
LockSpent(l) ==
  /\ Goto(l, "read", "gone")
  /\ spent
  /\ holder' = NoLauncher
  /\ exit' = [exit EXCEPT ![l] = "duplicate"]
  /\ UNCHANGED <<scope, spent, serviceVars, app, stop, overdue>>

LockFresh(l) ==
  /\ Goto(l, "read", "write")
  /\ ~spent
  /\ UNCHANGED <<lockVars, serviceVars, app, endVars>>

\* Mutant of LockMarked: the flock alone is trusted.
LockUnmarked(l) ==
  /\ Goto(l, "write", "unarmed")
  /\ UNCHANGED <<lockVars, serviceVars, app, endVars>>

LockMarked(l) ==
  /\ Goto(l, "write", "unarmed")
  /\ spent' = TRUE
  /\ UNCHANGED <<scope, holder, serviceVars, app, endVars>>

\* The byte cannot be written: the descriptor is closed and the error shown.
LockWriteFails(l) ==
  /\ Goto(l, "write", "gone")
  /\ holder' = NoLauncher
  /\ exit' = [exit EXCEPT ![l] = "error"]
  /\ UNCHANGED <<scope, spent, serviceVars, app, stop, overdue>>

---------------------------------------------------------------------------
(* application_main and DesktopServices                                     *)

HandlersInstalled(l) ==
  /\ Goto(l, "unarmed", "services")
  /\ UNCHANGED <<lockVars, serviceVars, app, endVars>>

\* The portal packages are missing: a notice, and no portal.
PortalsMissing(l) ==
  /\ Goto(l, "services", "launch")
  /\ started[l] = 0
  /\ UNCHANGED <<lockVars, serviceVars, app, endVars>>

PortalStarts(l) ==
  /\ Goto(l, "services", "ready")
  /\ started' = [started EXCEPT ![l] = @ + 1]
  /\ live' = [live EXCEPT ![l] = @ \cup {started'[l]}]
  /\ UNCHANGED <<lockVars, app, endVars>>

\* Its name is owned; after the last service the portal's interfaces answer.
PortalReady(l) ==
  /\ Goto(l, "ready", IF started[l] = 3 THEN "launch" ELSE "services")
  /\ UNCHANGED <<lockVars, serviceVars, app, endVars>>

\* No private bus, a name already owned, an early exit, a timeout, no answer.
PortalsFail(l) ==
  /\ \/ Goto(l, "services", "abandon")
     \/ Goto(l, "ready", "abandon")
  /\ UNCHANGED <<lockVars, serviceVars, app, endVars>>

\* Mutant of PortalsClosed: only services that answered are reaped.
PortalsClosedButLast(l) ==
  /\ started' = [started EXCEPT ![l] = 0]
  /\ live' = [live EXCEPT ![l] = @ \cap {started[l]}]

\* DesktopServices.close: terminate, kill after 2 s, reap.
PortalsClosed(l) ==
  /\ started' = [started EXCEPT ![l] = 0]
  /\ live' = [live EXCEPT ![l] = {}]

PortalsAbandoned(l) ==
  /\ Goto(l, "abandon", "launch")
  /\ PortalsClosed(l)
  /\ UNCHANGED <<lockVars, app, endVars>>

\* A signal came while the services were starting: exit 143.
LaunchStopped(l) ==
  /\ Goto(l, "launch", "finally")
  /\ stop[l]
  /\ exit' = [exit EXCEPT ![l] = "stopped"]
  /\ UNCHANGED <<lockVars, serviceVars, app, stop, overdue>>

LaunchAllowed(l) ==
  /\ Goto(l, "launch", "spawn")
  /\ ~stop[l]
  /\ UNCHANGED <<lockVars, serviceVars, app, endVars>>

\* The child exists before `process` is assigned.
ApplicationSpawned(l) ==
  /\ Goto(l, "spawn", "assign")
  /\ app' = [app EXCEPT ![l] = "running"]
  /\ UNCHANGED <<lockVars, serviceVars, endVars>>

SpawnFails(l) ==
  /\ Goto(l, "spawn", "finally")
  /\ exit' = [exit EXCEPT ![l] = "error"]
  /\ UNCHANGED <<lockVars, serviceVars, app, stop, overdue>>

ApplicationAssigned(l) ==
  /\ Goto(l, "assign", "run")
  /\ UNCHANGED <<lockVars, serviceVars, app, endVars>>

\* A portal service exited: all of them are closed, the application runs on.
ServicesChecked(l) ==
  /\ pc[l] = "run"
  /\ Running(l)
  /\ live[l] # 1 .. started[l]
  /\ PortalsClosed(l)
  /\ UNCHANGED <<lockVars, pc, app, endVars>>

\* Mutant of OverdueKilled: only an application that was asked is killed.
OverdueKilledIfAsked(l) ==
  /\ pc[l] = "run"
  /\ app[l] = "asked"
  /\ overdue[l]
  /\ app' = [app EXCEPT ![l] = "ended"]
  /\ UNCHANGED <<lockVars, pc, serviceVars, endVars>>

\* Still running 5 s after the first signal.
OverdueKilled(l) ==
  /\ pc[l] = "run"
  /\ Running(l)
  /\ overdue[l]
  /\ app' = [app EXCEPT ![l] = "ended"]
  /\ UNCHANGED <<lockVars, pc, serviceVars, endVars>>

ApplicationReaped(l) ==
  /\ Goto(l, "run", "finally")
  /\ app[l] = "ended"
  /\ exit' = [exit EXCEPT ![l] = "application"]
  /\ UNCHANGED <<lockVars, serviceVars, app, stop, overdue>>

\* finally: the services are closed before the lock's descriptor.
LauncherLeaves(l) ==
  /\ Goto(l, "finally", "gone")
  /\ PortalsClosed(l)
  /\ holder' = NoLauncher
  /\ UNCHANGED <<scope, spent, app, endVars>>

---------------------------------------------------------------------------
(* Signals, time and other processes                                        *)

\* stop(): the first signal starts the clock, and each terminates the
\* application when `process` is assigned.
Signal(l) ==
  /\ pc[l] \in Armed
  /\ stop' = [stop EXCEPT ![l] = TRUE]
  /\ app' = [app EXCEPT ![l] = IF @ = "running" /\ pc[l] = "run" THEN "asked" ELSE @]
  /\ UNCHANGED <<lockVars, pc, serviceVars, overdue, exit>>

FiveSecondsPass(l) ==
  /\ stop[l]
  /\ ~overdue[l]
  /\ overdue' = [overdue EXCEPT ![l] = TRUE]
  /\ UNCHANGED <<lockVars, pc, serviceVars, app, stop, exit>>

\* SIGKILL, or a signal before the handlers are installed.  The kernel drops
\* the flock; the descriptor is close-on-exec, so no child keeps it.
LauncherKilled(l) ==
  /\ pc[l] \notin {"idle", "gone", "dead"}
  /\ pc' = [pc EXCEPT ![l] = "dead"]
  /\ holder' = IF holder = l THEN NoLauncher ELSE holder
  /\ UNCHANGED <<scope, spent, serviceVars, app, endVars>>

PortalExits(l, k) ==
  /\ k \in live[l]
  /\ live' = [live EXCEPT ![l] = @ \ {k}]
  /\ UNCHANGED <<lockVars, pc, started, app, endVars>>

ApplicationExits(l) ==
  /\ Running(l)
  /\ app' = [app EXCEPT ![l] = "ended"]
  /\ UNCHANGED <<lockVars, pc, serviceVars, endVars>>

\* The owner closes the session bus and removes its directory.
ScopeRemoved ==
  /\ scope
  /\ scope' = FALSE
  /\ UNCHANGED <<holder, spent, pc, serviceVars, app, endVars>>

---------------------------------------------------------------------------
LockNext(l) ==
  LockOpens(l) \/ LockRefuses(l) \/ LockTaken(l) \/ LockBusy(l) \/ LockSpent(l)
    \/ LockFresh(l) \/ LockMarked(l) \/ LockWriteFails(l)

ServicesNext(l) ==
  HandlersInstalled(l) \/ PortalsMissing(l) \/ PortalStarts(l) \/ PortalReady(l)
    \/ PortalsFail(l) \/ PortalsAbandoned(l) \/ ServicesChecked(l)

ApplicationNext(l) ==
  LaunchStopped(l) \/ LaunchAllowed(l) \/ ApplicationSpawned(l) \/ SpawnFails(l)
    \/ ApplicationAssigned(l) \/ OverdueKilled(l) \/ ApplicationReaped(l) \/ LauncherLeaves(l)

LauncherNext(l) == LockNext(l) \/ ServicesNext(l) \/ ApplicationNext(l)

OutsideNext(l) ==
  Signal(l) \/ FiveSecondsPass(l) \/ LauncherKilled(l) \/ ApplicationExits(l)
    \/ \E k \in Portals : PortalExits(l, k)

Next == ScopeRemoved \/ \E l \in Launchers : LauncherNext(l) \/ OutsideNext(l)

Spec == Init /\ [][Next]_vars

\* Every wait of application_main has a timeout or polls, and time passes.
\* Nothing is assumed of the application, the portals or other launchers.
FairSpec ==
  Spec /\ \A l \in Launchers :
            WF_vars(pc[l] # "idle" /\ LauncherNext(l)) /\ WF_vars(FiveSecondsPass(l))

---------------------------------------------------------------------------
(* Properties *)

\* Types of the variables of the lock file and of the launchers' processes.
TypeOK ==
  /\ scope \in BOOLEAN
  /\ holder \in Launchers \cup {NoLauncher}
  /\ spent \in BOOLEAN
  /\ pc \in [Launchers -> Locations]
  /\ started \in [Launchers -> 0 .. 3]
  /\ live \in [Launchers -> SUBSET Portals]
  /\ app \in [Launchers -> {"none", "running", "asked", "ended"}]
  /\ stop \in [Launchers -> BOOLEAN]
  /\ overdue \in [Launchers -> BOOLEAN]
  /\ exit \in [Launchers -> Exits]

\* application_lock, "One launch per owned scope, including concurrent or late
\* duplicates": no two launchers ever started the application, even when one
\* was killed between locking the file and writing its byte.
OneLaunch == \A k, l \in Launchers : k # l => app[k] = "none" \/ app[l] = "none"

\* A launcher that returned left no portal service and no application behind,
\* at whatever point it was signalled or a service failed or exited.
LeavesNothing == \A l \in Launchers : pc[l] = "gone" => live[l] = {} /\ ~Running(l)

\* The application is alone in its scope as ApplicationOnce says.
Once == INSTANCE ApplicationOnce WITH
  application <- IF \A l \in Launchers : app[l] = "none" THEN "never"
                 ELSE IF \E l \in Launchers : Running(l) THEN "running" ELSE "ended"

\* The launchers of a scope implement ApplicationOnce.
ImplementsOnce == Once!Spec

\* Optional portal services never decide whether the application starts: the
\* launcher that won the lock starts it unless it is told to stop or killed, or
\* the command itself cannot be run.
PortalsAreOptional ==
  \A l \in Launchers :
    pc[l] = "services" ~> app[l] # "none" \/ stop[l] \/ pc[l] = "dead" \/ exit[l] = "error"

\* A signal ends the launcher and its application, even one that ignores
\* SIGTERM, and even when the signal came while the child was being spawned
\* and was never passed on.
StopEnds ==
  \A l \in Launchers : stop[l] ~> pc[l] = "dead" \/ (pc[l] = "gone" /\ ~Running(l))

================================================================================
