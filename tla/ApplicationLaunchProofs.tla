------------------------- MODULE ApplicationLaunchProofs -------------------------
(***************************************************************************)
(* Proofs about ApplicationLaunch for any set of launchers.                *)
(***************************************************************************)
EXTENDS ApplicationLaunch, TLAPS

\* Locations between taking the flock and leaving.
Holding == {"read", "write", "unarmed"} \cup Armed

\* Locations before the application may exist.
Before == {"idle", "opened", "read", "write", "unarmed", "services", "ready", "abandon",
           "launch", "spawn"}

\* A launcher holds the flock exactly while it is between taking it and leaving.
HolderInv == \A l \in Launchers : pc[l] \in Holding <=> holder = l

\* The byte is written before anything else is done, and marks every launch.
SpentInv ==
  /\ \A l \in Launchers : pc[l] \in Armed \cup {"unarmed"} \/ app[l] # "none" => spent
  /\ \A l \in Launchers : pc[l] = "write" => ~spent

\* The launcher that wrote the byte is the only one that ever does: until it
\* spawns the application, nobody has.
FreshInv ==
  \A l \in Launchers :
    pc[l] \in Before \cap (Armed \cup {"unarmed"}) => \A k \in Launchers : app[k] = "none"

\* What a launcher owns at each location.
OwnInv ==
  \A l \in Launchers :
    /\ pc[l] \in Before => app[l] = "none"
    /\ pc[l] \in {"idle", "opened", "read", "write", "unarmed", "gone"} => live[l] = {}
    /\ pc[l] \in {"finally", "gone"} => ~Running(l)

\* The services are started at most once each.
CountInv ==
  \A l \in Launchers :
    /\ pc[l] \in {"idle", "opened", "read", "write", "unarmed"} => started[l] = 0
    /\ pc[l] = "services" => started[l] < 3

IInv == TypeOK /\ CountInv /\ HolderInv /\ SpentInv /\ FreshInv /\ OwnInv /\ OneLaunch

\* The initial state has an empty scope and no launcher.
LEMMA InitIInv == Init => IInv
<1> SUFFICES ASSUME Init PROVE IInv
  OBVIOUS
<1> USE DEF Init
<1>1. TypeOK
  <2>1. scope \in BOOLEAN /\ holder \in Launchers \cup {NoLauncher} /\ spent \in BOOLEAN
    OBVIOUS
  <2>2. pc \in [Launchers -> Locations] /\ exit \in [Launchers -> Exits]
    BY DEF Locations, Exits
  <2>3. started \in [Launchers -> 0 .. 3] /\ live \in [Launchers -> SUBSET Portals]
    OBVIOUS
  <2>4. app \in [Launchers -> {"none", "running", "asked", "ended"}]
    OBVIOUS
  <2>5. stop \in [Launchers -> BOOLEAN] /\ overdue \in [Launchers -> BOOLEAN]
    OBVIOUS
  <2> QED BY <2>1, <2>2, <2>3, <2>4, <2>5 DEF TypeOK
<1>2. CountInv /\ SpentInv /\ FreshInv /\ OneLaunch
  BY DEF CountInv, SpentInv, FreshInv, OneLaunch, Armed
<1>3. HolderInv
  BY LaunchersAssumption DEF HolderInv, Holding, Armed
<1>4. OwnInv
  BY DEF OwnInv, Running
<1> QED BY <1>1, <1>2, <1>3, <1>4 DEF IInv

\* What a step of one launcher leaves alone, and how its own state may change.
Frame(l) ==
  /\ \A k \in Launchers \ {l} :
       pc'[k] = pc[k] /\ app'[k] = app[k] /\ live'[k] = live[k] /\ started'[k] = started[k]
  /\ \/ holder' = holder
     \/ holder = NoLauncher /\ holder' = l
     \/ holder = l /\ holder' = NoLauncher
  /\ spent' = spent \/ LockMarked(l)
  /\ app' = app \/ (Running(l) /\ app'[l] # "none") \/ ApplicationSpawned(l)

\* What a step of one launcher leaves alone.
LEMMA LauncherFrame ==
  ASSUME IInv, NEW l \in Launchers, LauncherNext(l) \/ OutsideNext(l)
  PROVE  Frame(l)
<1> USE DEF Frame, Goto, IInv, TypeOK, HolderInv, Holding, Armed, lockVars, serviceVars, endVars
<1>1. CASE LockNext(l)
  BY <1>1 DEF LockNext, LockOpens, LockRefuses, LockTaken, LockBusy, LockSpent, LockFresh, LockMarked,
     LockWriteFails
<1>2. CASE ServicesNext(l)
  BY <1>2 DEF ServicesNext, HandlersInstalled, PortalsMissing, PortalStarts, PortalReady,
     PortalsFail, PortalsAbandoned, PortalsClosed, ServicesChecked
<1>3. CASE ApplicationNext(l)
  BY <1>3 DEF ApplicationNext, LaunchStopped, LaunchAllowed, ApplicationSpawned, SpawnFails,
     ApplicationAssigned, OverdueKilled, ApplicationReaped, LauncherLeaves, PortalsClosed, Running
<1>4. CASE OutsideNext(l)
  BY <1>4 DEF OutsideNext, Signal, FiveSecondsPass, LauncherKilled, PortalExits, ApplicationExits,
     Running
<1> QED BY <1>1, <1>2, <1>3, <1>4 DEF LauncherNext

\* Every step keeps the types and the count of the services.
LEMMA TypeNext ==
  ASSUME TypeOK, CountInv, [Next]_vars
  PROVE  TypeOK' /\ CountInv'
<1> USE DEF Goto, CountInv, lockVars, serviceVars, endVars
<1>1. CASE UNCHANGED vars
  BY <1>1 DEF TypeOK, vars
<1>2. CASE ScopeRemoved
  BY <1>2 DEF TypeOK, ScopeRemoved
<1>3. ASSUME NEW l \in Launchers, LockNext(l) PROVE TypeOK' /\ CountInv'
  BY <1>3 DEF TypeOK, LockNext, LockOpens, LockRefuses, LockTaken, LockBusy, LockSpent, LockFresh,
     LockMarked, LockWriteFails, Locations, Exits
<1>4. ASSUME NEW l \in Launchers, ServicesNext(l) PROVE TypeOK' /\ CountInv'
  <2>1. CASE PortalStarts(l)
    BY <2>1 DEF TypeOK, PortalStarts, Locations, Portals
  <2>2. CASE PortalsAbandoned(l) \/ ServicesChecked(l)
    BY <2>2 DEF TypeOK, PortalsAbandoned, ServicesChecked, PortalsClosed, Locations
  <2>3. CASE HandlersInstalled(l) \/ PortalsMissing(l) \/ PortalReady(l) \/ PortalsFail(l)
    BY <2>3 DEF TypeOK, HandlersInstalled, PortalsMissing, PortalReady, PortalsFail, Locations
  <2> QED BY <1>4, <2>1, <2>2, <2>3 DEF ServicesNext
<1>5. ASSUME NEW l \in Launchers, ApplicationNext(l) PROVE TypeOK' /\ CountInv'
  BY <1>5 DEF TypeOK, ApplicationNext, LaunchStopped, LaunchAllowed, ApplicationSpawned, SpawnFails,
     ApplicationAssigned, OverdueKilled, ApplicationReaped, LauncherLeaves, PortalsClosed,
     Locations, Exits
<1>6. ASSUME NEW l \in Launchers, OutsideNext(l) PROVE TypeOK' /\ CountInv'
  BY <1>6 DEF TypeOK, OutsideNext, Signal, FiveSecondsPass, LauncherKilled, PortalExits,
     ApplicationExits, Locations
<1> QED BY <1>1, <1>2, <1>3, <1>4, <1>5, <1>6 DEF Next, LauncherNext

\* The flock follows its holder's location.
LEMMA HolderNext ==
  ASSUME IInv, NEW l \in Launchers, LauncherNext(l) \/ OutsideNext(l)
  PROVE  HolderInv'
<1>1. holder' = l <=> pc'[l] \in Holding
  <2> USE LaunchersAssumption DEF IInv, TypeOK, HolderInv, Holding, Armed, Goto, lockVars,
          serviceVars, endVars
  <2>1. CASE LockNext(l)
    BY <2>1 DEF LockNext, LockOpens, LockRefuses, LockTaken, LockBusy, LockSpent, LockFresh, LockMarked,
     LockWriteFails
  <2>2. CASE ServicesNext(l)
    BY <2>2 DEF ServicesNext, HandlersInstalled, PortalsMissing, PortalStarts, PortalReady,
       PortalsFail, PortalsAbandoned, PortalsClosed, ServicesChecked
  <2>3. CASE ApplicationNext(l)
    BY <2>3 DEF ApplicationNext, LaunchStopped, LaunchAllowed, ApplicationSpawned, SpawnFails,
       ApplicationAssigned, OverdueKilled, ApplicationReaped, LauncherLeaves, PortalsClosed
  <2>4. CASE OutsideNext(l)
    BY <2>4 DEF OutsideNext, Signal, FiveSecondsPass, LauncherKilled, PortalExits, ApplicationExits
  <2> QED BY <2>1, <2>2, <2>3, <2>4 DEF LauncherNext
<1>2. ASSUME NEW k \in Launchers \ {l} PROVE holder' = k <=> pc'[k] \in Holding
  BY <1>2, LauncherFrame, LaunchersAssumption DEF Frame, IInv, HolderInv
<1> QED BY <1>1, <1>2 DEF HolderInv

\* What the launcher that takes the step knows of the byte and of its own
\* application and services afterwards.
LEMMA OwnNext ==
  ASSUME IInv, NEW l \in Launchers, LauncherNext(l) \/ OutsideNext(l)
  PROVE  /\ pc'[l] \in Armed \cup {"unarmed"} \/ app'[l] # "none" => spent'
         /\ pc'[l] = "write" => ~spent'
         /\ pc'[l] \in Before => app'[l] = "none"
         /\ pc'[l] \in {"idle", "opened", "read", "write", "unarmed", "gone"} => live'[l] = {}
         /\ pc'[l] \in {"finally", "gone"} => ~(app'[l] \in {"running", "asked"})
<1> USE DEF IInv, TypeOK, SpentInv, OwnInv, CountInv, Before, Armed, Running, Goto, lockVars,
        serviceVars, endVars
<1>1. CASE LockNext(l)
  BY <1>1 DEF LockNext, LockOpens, LockRefuses, LockTaken, LockBusy, LockSpent, LockFresh, LockMarked,
     LockWriteFails
<1>2. CASE ServicesNext(l)
  BY <1>2 DEF ServicesNext, HandlersInstalled, PortalsMissing, PortalStarts, PortalReady,
     PortalsFail, PortalsAbandoned, PortalsClosed, ServicesChecked
<1>3. CASE ApplicationNext(l)
  BY <1>3 DEF ApplicationNext, LaunchStopped, LaunchAllowed, ApplicationSpawned, SpawnFails,
     ApplicationAssigned, OverdueKilled, ApplicationReaped, LauncherLeaves, PortalsClosed
<1>4. CASE OutsideNext(l)
  BY <1>4 DEF OutsideNext, Signal, FiveSecondsPass, LauncherKilled, PortalExits, ApplicationExits
<1> QED BY <1>1, <1>2, <1>3, <1>4 DEF LauncherNext

\* Only writing the byte leads to the locations between it and the launch.
LEMMA FreshNext ==
  ASSUME IInv, NEW l \in Launchers, LauncherNext(l) \/ OutsideNext(l), ~LockMarked(l),
         pc'[l] \in Before \cap (Armed \cup {"unarmed"})
  PROVE  pc[l] \in Before \cap (Armed \cup {"unarmed"})
<1> USE DEF IInv, TypeOK, Before, Armed, Goto, lockVars, serviceVars, endVars
<1>1. CASE LockNext(l)
  BY <1>1 DEF LockNext, LockOpens, LockRefuses, LockTaken, LockBusy, LockSpent, LockFresh,
     LockWriteFails
<1>2. CASE ServicesNext(l)
  BY <1>2 DEF ServicesNext, HandlersInstalled, PortalsMissing, PortalStarts, PortalReady,
     PortalsFail, PortalsAbandoned, ServicesChecked
<1>3. CASE ApplicationNext(l)
  BY <1>3 DEF ApplicationNext, LaunchStopped, LaunchAllowed, ApplicationSpawned, SpawnFails,
     ApplicationAssigned, OverdueKilled, ApplicationReaped, LauncherLeaves
<1>4. CASE OutsideNext(l)
  BY <1>4 DEF OutsideNext, Signal, FiveSecondsPass, LauncherKilled, PortalExits, ApplicationExits
<1> QED BY <1>1, <1>2, <1>3, <1>4 DEF LauncherNext

\* The inductive invariant survives a step of one launcher or of its surroundings.
LEMMA LauncherIInv ==
  ASSUME IInv, NEW l \in Launchers, LauncherNext(l) \/ OutsideNext(l)
  PROVE  IInv'
<1>1. TypeOK' /\ CountInv'
  BY TypeNext DEF IInv, Next
<1>2. HolderInv'
  BY HolderNext
<1>3. /\ Frame(l)
      /\ spent => spent'
      /\ LockMarked(l) => holder = l
      /\ ApplicationSpawned(l) => holder = l /\ \A k \in Launchers : app[k] = "none"
  BY LauncherFrame
     DEF Frame, IInv, LockMarked, ApplicationSpawned, Goto, HolderInv, FreshInv, TypeOK, Holding,
         Armed, Before
<1>4. OneLaunch'
  BY <1>3 DEF Frame, IInv, OneLaunch, Running
<1>5. SpentInv'
  <2>1. ASSUME NEW k \in Launchers \ {l}
        PROVE  /\ pc'[k] \in Armed \cup {"unarmed"} \/ app'[k] # "none" => spent'
               /\ pc'[k] = "write" => ~spent'
    BY <1>3, <2>1 DEF Frame, IInv, SpentInv, HolderInv, Holding
  <2> QED BY <2>1, OwnNext DEF SpentInv
<1>6. OwnInv'
  BY <1>3, OwnNext DEF Frame, IInv, OwnInv, Running
<1>7. FreshInv'
  <2> SUFFICES ASSUME NEW k \in Launchers, pc'[k] \in Before \cap (Armed \cup {"unarmed"}),
                      NEW j \in Launchers
               PROVE  app'[j] = "none"
    BY DEF FreshInv
  <2>1. CASE LockMarked(l)
    BY <1>3, <2>1 DEF LockMarked, Goto, IInv, SpentInv, serviceVars, endVars
  <2>2. CASE k = l /\ ~LockMarked(l)
    <3>1. pc[l] \in Before \cap (Armed \cup {"unarmed"})
      BY <2>2, FreshNext
    <3> QED BY <1>3, <2>2, <3>1, <1>6 DEF Frame, IInv, FreshInv, OwnInv
  <2>3. CASE k # l
    BY <1>3, <2>3 DEF Frame, IInv, FreshInv, HolderInv, Holding, OwnInv, Running
  <2> QED BY <2>1, <2>2, <2>3
<1> QED BY <1>1, <1>2, <1>4, <1>5, <1>6, <1>7 DEF IInv

\* The inductive invariant holds in every reachable state.
THEOREM Invariance == Spec => []IInv
<1>1. IInv /\ [Next]_vars => IInv'
  <2> SUFFICES ASSUME IInv, [Next]_vars PROVE IInv'
    OBVIOUS
  <2>1. TypeOK' /\ CountInv'
    BY TypeNext DEF IInv
  <2>2. CASE UNCHANGED vars
    BY <2>1, <2>2 DEF IInv, vars, lockVars, serviceVars, endVars, HolderInv, SpentInv, FreshInv,
       OwnInv, OneLaunch, Running
  <2>3. CASE ScopeRemoved
    BY <2>1, <2>3 DEF ScopeRemoved, IInv, serviceVars, endVars, HolderInv, SpentInv, FreshInv,
       OwnInv, OneLaunch, Running
  <2>4. ASSUME NEW l \in Launchers, LauncherNext(l) \/ OutsideNext(l) PROVE IInv'
    BY <2>4, LauncherIInv
  <2> QED BY <2>2, <2>3, <2>4 DEF Next
<1> QED BY <1>1, InitIInv, PTL DEF Spec

\* The variables keep their types.
THEOREM TypeCorrect == Spec => []TypeOK
<1>1. IInv => TypeOK
  BY DEF IInv
<1> QED BY <1>1, Invariance, PTL

\* At most one launcher ever starts the application.
THEOREM LaunchedOnce == Spec => []OneLaunch
<1>1. IInv => OneLaunch
  BY DEF IInv
<1> QED BY <1>1, Invariance, PTL

\* A launcher that returned left no portal service and no application behind.
THEOREM NothingLeft == Spec => []LeavesNothing
<1>1. IInv => LeavesNothing
  BY DEF IInv, OwnInv, LeavesNothing
<1> QED BY <1>1, Invariance, PTL

\* The launchers of a scope implement ApplicationOnce.
THEOREM Refinement == Spec => ImplementsOnce
<1> DEFINE application == IF \A l \in Launchers : app[l] = "none" THEN "never"
                          ELSE IF \E l \in Launchers : Running(l) THEN "running" ELSE "ended"
<1>1. Init => Once!Init
  BY DEF Init, Once!Init
<1>2. ASSUME IInv, [Next]_vars PROVE [Once!Start \/ Once!End]_application
  <2>1. ASSUME app' = app PROVE application' = application
    BY <2>1 DEF Running
  <2>2. ASSUME NEW l \in Launchers, ApplicationSpawned(l) PROVE Once!Start
    <3>1. (\A k \in Launchers : app[k] = "none") /\ app'[l] = "running"
      BY <1>2, <2>2 DEF ApplicationSpawned, Goto, IInv, FreshInv, TypeOK, Before, Armed
    <3> QED BY <3>1 DEF Once!Start, Running
  <2>3. ASSUME NEW l \in Launchers, LauncherNext(l) \/ OutsideNext(l), Running(l), app'[l] # "none"
        PROVE  application' = application \/ Once!End
    <3>1. \A k \in Launchers \ {l} : app[k] = "none" /\ app'[k] = app[k]
      BY <1>2, <2>3, LauncherFrame DEF IInv, OneLaunch, Running, Frame
    <3>2. application = "running"
      BY <2>3 DEF Running
    <3>3. application' \in {"running", "ended"}
      BY <2>3
    <3> QED BY <3>2, <3>3 DEF Once!End
  <2>4. ASSUME NEW l \in Launchers, LauncherNext(l) \/ OutsideNext(l)
        PROVE  app' = app \/ (Running(l) /\ app'[l] # "none") \/ ApplicationSpawned(l)
    BY <1>2, <2>4, LauncherFrame DEF Frame
  <2>5. ScopeRemoved \/ UNCHANGED vars => app' = app
    BY DEF ScopeRemoved, vars
  <2> QED BY <1>2, <2>1, <2>2, <2>3, <2>4, <2>5 DEF Next
<1> QED BY <1>1, <1>2, Invariance, PTL DEF Spec, ImplementsOnce, Once!Spec

================================================================================
