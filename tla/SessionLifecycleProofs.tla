------------------------- MODULE SessionLifecycleProofs -------------------------
(***************************************************************************)
(* Proofs about one local session: wherever run() fails, is cancelled or   *)
(* comes to its end, it has released what it owns, and the exit code says  *)
(* what happened.                                                          *)
(***************************************************************************)
EXTENDS SessionLifecycle, TLAPS

\* run() returned, and neither a cancellation nor a second reader cut its clean-up short.
Whole == pc = "returned" /\ ~cut /\ outcome # "crashed"

\* What the finally block has released when it is at one of its suspensions: each step
\* relies on all the earlier ones.
ReleaseInv ==
  /\ orphan => cut
  /\ pc \in {"drain", "closeRemote", "closeLogs", "closeMaster"} \/ Whole => client # "running"
  /\ pc \in {"closeRemote", "closeLogs", "closeMaster"} \/ Whole => ~drains
  /\ pc \in {"closeLogs", "closeMaster"} \/ Whole =>
       remote # "running" /\ (remote # "none" => "remote" \in closed)
  /\ pc = "closeMaster" \/ Whole => channels = {}
  /\ Whole => master # "running" /\ {"master", "journal"} \subseteq closed /\ ~deferred

\* A clean-up is cut by the one cancellation, after which no step raises an error any more.
CutInv ==
  cut => pc \in Cleanup \cup {"drainLocal", "returned"} /\ outcome \in {"cancelled", "crashed"} /\ main # "waiting"

\* What is started one after the other, so that nothing is started again.
Unstarted == {"local", "stopLocal", "drainLocal", "master", "prepare", "identify", "reattach",
              "capabilities", "prerequisites"}
                \cup Subscribing \cup StopsChannel

StartInv ==
  /\ pc = "stopMux" /\ outcome = "none" => remote = "none" /\ service = "none" /\ client = "none"
  /\ pc \in Unstarted => remote = "none"
  /\ pc \in Unstarted \cup {"ensure"} => service = "none"
  /\ pc \in Unstarted \cup {"ensure", "launch", "ready", "attach"} => client = "none"

\* What run() is about to return, and what the exit code is made of.
ExitInv ==
  /\ outcome = "ok" => client = "ok" \/ remote = "ok" \/ service = "ended"
  /\ main = "joining" => signal
  /\ main = "done" => pc = "returned"
  /\ exit # "none" => main = "done"

IInv == ReleaseInv /\ CutInv /\ StartInv /\ ExitInv /\ ExitTellsTruth

\* Nothing is started and nothing ended.
LEMMA InitIInv == Init => IInv
BY DEF Init, IInv, ReleaseInv, Whole, CutInv, StartInv, ExitInv, ExitTellsTruth

-----------------------------------------------------------------------------
(* Types                                                                    *)

\* run()'s own steps keep the types, up to the attached client ...
LEMMA TypeStart ==
  ASSUME TypeOK,
         \/ LocalEnded \/ LocalChecked \/ MasterStarted \/ Subscribed \/ SubscriptionTimesOut
         \/ SubscriptionStopped \/ Prepared \/ FallsBack \/ Identified \/ Reattached \/ Resubscribed
         \/ CapabilitiesChecked \/ PrerequisitesChecked \/ Launched \/ Ensured \/ ReadyToAttach \/ Attached
  PROVE  TypeOK'
<1> USE DEF TypeOK, Locations, LocalCommand, MuxCommand, Subscribing, StopsChannel, StopsCommand, Drains, Cleanup,
            Channels, From, runVars, ownedVars, processVars, outsideVars
<1>1. CASE LocalEnded
  BY <1>1 DEF LocalEnded
<1>0. CASE LocalChecked
  <2>1. /\ pc' = "master" /\ master' = "running"
        /\ UNCHANGED <<persistent, outcome, cut, channels, drains, orphan, clash, deferred, closed,
                       remote, service, client, held, signal, main, exit>>
    BY <1>0, Zenon DEF LocalChecked
  <2> QED BY <2>1
<1>2. CASE MasterStarted
  BY <1>2 DEF MasterStarted
<1>3. CASE Subscribed
  BY <1>3 DEF Subscribed
<1>4. CASE SubscriptionTimesOut
  BY <1>4 DEF SubscriptionTimesOut
<1>5. CASE SubscriptionStopped
  BY <1>5 DEF SubscriptionStopped
<1>6. CASE Prepared
  BY <1>6 DEF Prepared
<1>7. CASE FallsBack
  <2>1. deferred' \in BOOLEAN
    BY <1>7, Zenon DEF FallsBack
  <2> QED BY <1>7, <2>1 DEF FallsBack
<1>8. CASE Identified
  BY <1>8 DEF Identified
<1>9. CASE Reattached
  <2>1. deferred' \in BOOLEAN
    BY <1>9, Zenon DEF Reattached
  <2> QED BY <1>9, <2>1 DEF Reattached
<1>10. CASE Resubscribed
  BY <1>10 DEF Resubscribed
<1>11. CASE CapabilitiesChecked
  BY <1>11 DEF CapabilitiesChecked
<1>16. CASE PrerequisitesChecked
  BY <1>16 DEF PrerequisitesChecked
<1>12. CASE Launched
  BY <1>12 DEF Launched
<1>13. CASE Ensured
  BY <1>13 DEF Ensured
<1>14. CASE ReadyToAttach
  BY <1>14 DEF ReadyToAttach
<1>15. CASE Attached
  BY <1>15 DEF Attached
<1> QED BY <1>0, <1>1, <1>2, <1>3, <1>4, <1>5, <1>6, <1>7, <1>8, <1>9, <1>10, <1>11, <1>12, <1>13,
        <1>14, <1>15, <1>16

\* ... through errors and the wait ...
LEMMA TypeWait ==
  ASSUME TypeOK,
         \/ Fails \/ CommandTimesOut \/ CommandStopped \/ LocalDrained \/ WaitEnds
         \/ ObservationFails \/ Diagnosed \/ Unwaited
  PROVE  TypeOK'
<1> USE DEF TypeOK, Locations, LocalCommand, MuxCommand, Subscribing, StopsChannel, StopsCommand, Drains, Cleanup,
            Channels, From, runVars, ownedVars, processVars, outsideVars
<1>1. CASE Fails
  BY <1>1 DEF Fails, Raise
<1>2. CASE CommandTimesOut
  BY <1>2 DEF CommandTimesOut
<1>3. CASE CommandStopped
  BY <1>3 DEF CommandStopped
<1>8. CASE LocalDrained
  <2>1. /\ pc' = "stopClient"
        /\ UNCHANGED <<persistent, outcome, cut, ownedVars, processVars, outsideVars>>
    BY <1>8, Zenon DEF LocalDrained
  <2> QED BY <2>1
<1>4. CASE WaitEnds
  <2>1. PICK done : /\ IF WaitOutcome(done) = "diagnose" THEN pc' = "diagnose" ELSE Unwait(done)
                    /\ outcome' = IF WaitOutcome(done) = "diagnose" THEN outcome ELSE WaitOutcome(done)
                    /\ drains' = IF WaitOutcome(done) = "diagnose" THEN FALSE ELSE drains
    BY <1>4 DEF WaitEnds
  <2>2. WaitOutcome(done) \in {"ok", "error", "diagnose"}
    BY DEF WaitOutcome
  <2>3. drains' \in BOOLEAN
    <3>1. CASE WaitOutcome(done) = "diagnose"
      BY <2>1, <3>1, Zenon
    <3>2. CASE WaitOutcome(done) # "diagnose"
      BY <2>1, <3>2
    <3> QED BY <3>1, <3>2
  <2>4. pc' \in Locations /\ outcome' \in {"none", "ok", "error", "cancelled", "crashed"}
    BY <2>1, <2>2 DEF Unwait
  <2>5. UNCHANGED <<persistent, cut, channels, orphan, clash, deferred, closed, processVars, outsideVars>>
    BY <1>4 DEF WaitEnds
  <2> QED BY <2>3, <2>4, <2>5
<1>5. CASE ObservationFails
  BY <1>5 DEF ObservationFails
<1>6. CASE Diagnosed
  BY <1>6 DEF Diagnosed, Unwait
<1>7. CASE Unwaited
  BY <1>7 DEF Unwaited
<1> QED BY <1>1, <1>2, <1>3, <1>4, <1>5, <1>6, <1>7, <1>8

\* ... to the end of the finally block.
LEMMA TypeCleanup ==
  ASSUME TypeOK,
         \/ ClientStopped \/ Drained \/ RemoteClosed \/ ChannelClosed \/ ChannelCloseRaises
         \/ LogsClosed \/ MasterClosed
  PROVE  TypeOK'
<1> USE DEF TypeOK, Locations, LocalCommand, MuxCommand, Subscribing, StopsChannel, StopsCommand, Drains, Cleanup,
            Channels, From, runVars, ownedVars, processVars, outsideVars
<1>1. CASE ClientStopped
  BY <1>1 DEF ClientStopped
<1>2. CASE Drained
  <2>1. drains' \in BOOLEAN
    BY <1>2, Zenon DEF Drained
  <2> QED BY <1>2, <2>1 DEF Drained
<1>3. CASE RemoteClosed
  BY <1>3 DEF RemoteClosed
<1>4. CASE ChannelClosed
  BY <1>4 DEF ChannelClosed
<1>5. CASE ChannelCloseRaises
  BY <1>5 DEF ChannelCloseRaises
<1>6. CASE LogsClosed
  BY <1>6 DEF LogsClosed
<1>7. CASE MasterClosed
  <2>1. deferred' \in BOOLEAN
    BY <1>7, Zenon DEF MasterClosed
  <2> QED BY <1>7, <2>1 DEF MasterClosed
<1> QED BY <1>1, <1>2, <1>3, <1>4, <1>5, <1>6, <1>7

\* The task of the signals and the processes.
LEMMA TypeOthers ==
  ASSUME TypeOK,
         \/ Signal \/ CancelRun \/ SignalMeetsReturn \/ Joined \/ RunReturned
         \/ ClientExits \/ RemoteExits \/ ServiceEnds \/ MasterLost \/ Escapes \/ HolderEnds
  PROVE  TypeOK'
<1> USE DEF TypeOK, Locations, LocalCommand, MuxCommand, Subscribing, StopsChannel, StopsCommand, Drains, Cleanup,
            Channels, From, runVars, ownedVars, processVars, outsideVars
<1>1. CASE Signal
  BY <1>1 DEF Signal
<1>2. CASE CancelRun
  <2>1. pc' \in Locations
    BY <1>2 DEF CancelRun, CancelTo
  <2>4. cut' \in BOOLEAN /\ orphan' \in BOOLEAN /\ drains' \in BOOLEAN /\ clash' \in BOOLEAN
    <3>1. /\ cut' = (pc \in Cleanup \cup StopsCommand) /\ orphan' = (pc \in StopsCommand)
          /\ drains' = (drains /\ pc # "drain") /\ clash' = (pc \in StopsChannel)
      BY <1>2, Zenon DEF CancelRun
    <3> QED BY <3>1
  <2>5. held' \in BOOLEAN
    <3>1. held \in BOOLEAN
      OBVIOUS
    <3>2. held' = held \/ held' = TRUE
      BY <1>2, Zenon DEF CancelRun
    <3> QED BY <3>1, <3>2, Zenon
  <2>3. /\ main' = "joining" /\ outcome' = "cancelled"
        /\ UNCHANGED <<persistent, channels, deferred, closed, processVars, signal, exit>>
    BY <1>2 DEF CancelRun
  <2> QED BY <2>1, <2>3, <2>4, <2>5
<1>3. CASE SignalMeetsReturn
  BY <1>3 DEF SignalMeetsReturn
<1>4. CASE Joined
  BY <1>4 DEF Joined
<1>5. CASE RunReturned
  BY <1>5 DEF RunReturned
<1>6. CASE ClientExits
  BY <1>6 DEF ClientExits
<1>7. CASE RemoteExits
  BY <1>7 DEF RemoteExits
<1>8. CASE ServiceEnds
  BY <1>8 DEF ServiceEnds
<1>9. CASE MasterLost
  BY <1>9 DEF MasterLost
<1>10. CASE Escapes \/ HolderEnds
  <2>1. held' \in BOOLEAN
    BY <1>10, Zenon DEF Escapes, HolderEnds
  <2>2. UNCHANGED <<runVars, ownedVars, processVars, signal, main, exit>>
    BY <1>10, Zenon DEF Escapes, HolderEnds
  <2> QED BY <2>1, <2>2
<1> QED BY <1>1, <1>2, <1>3, <1>4, <1>5, <1>6, <1>7, <1>8, <1>9, <1>10

\* Every step keeps the types.
LEMMA TypeStep == TypeOK /\ [Next]_vars => TypeOK'
<1>1. TypeOK /\ UNCHANGED vars => TypeOK'
  BY DEF TypeOK, vars, runVars, ownedVars, processVars, outsideVars
<1> QED BY <1>1, TypeStart, TypeWait, TypeCleanup, TypeOthers DEF Next, RunNext, MainNext, Environment, Ended

-----------------------------------------------------------------------------
(* The clean-up                                                             *)

\* Before the finally block, and at its entry, nothing is said of it.
Before == Locations \ {"drain", "closeRemote", "closeLogs", "closeMaster", "returned"}

\* Steps that lead to the finally block at most, and cut nothing.
LEMMA StartsBefore ==
  ASSUME \/ LocalEnded \/ LocalChecked \/ MasterStarted \/ Subscribed \/ SubscriptionTimesOut
         \/ SubscriptionStopped \/ Prepared \/ FallsBack \/ Identified
         \/ Reattached \/ Resubscribed \/ CapabilitiesChecked \/ PrerequisitesChecked \/ Launched
         \/ Ensured \/ ReadyToAttach \/ Attached \/ Fails \/ CommandTimesOut \/ CommandStopped
         \/ LocalDrained \/ WaitEnds \/ ObservationFails \/ Diagnosed \/ Unwaited
  PROVE  /\ pc \notin Cleanup \cup {"returned"} /\ pc' \in Before
         /\ UNCHANGED <<cut, orphan, clash, outsideVars>>
<1> USE DEF Before, Locations, LocalCommand, MuxCommand, Subscribing, StopsChannel, StopsCommand, Drains, Cleanup,
            From, ownedVars, outsideVars
<1>1. CASE LocalEnded \/ LocalChecked \/ MasterStarted \/ Subscribed \/ SubscriptionTimesOut
  BY <1>1 DEF LocalEnded, LocalChecked, MasterStarted, Subscribed, SubscriptionTimesOut
<1>2. CASE SubscriptionStopped \/ Prepared \/ FallsBack \/ Identified
  BY <1>2 DEF SubscriptionStopped, Prepared, FallsBack, Identified
<1>3. CASE Reattached \/ Resubscribed \/ CapabilitiesChecked \/ PrerequisitesChecked \/ Launched
  BY <1>3 DEF Reattached, Resubscribed, CapabilitiesChecked, PrerequisitesChecked, Launched
<1>4. CASE Ensured \/ ReadyToAttach \/ Attached \/ Fails
  BY <1>4 DEF Ensured, ReadyToAttach, Attached, Fails, Raise
<1>5. CASE CommandTimesOut \/ CommandStopped \/ LocalDrained
  BY <1>5 DEF CommandTimesOut, CommandStopped, LocalDrained
<1>6. CASE WaitEnds
  <2>1. pc' \in {"diagnose", "unwait", "stopStatus"} /\ pc = "wait"
    BY <1>6 DEF WaitEnds, Unwait
  <2>2. UNCHANGED <<cut, orphan, clash, outsideVars>>
    BY <1>6 DEF WaitEnds
  <2> QED BY <2>1, <2>2
<1>7. CASE ObservationFails \/ Diagnosed \/ Unwaited
  BY <1>7 DEF ObservationFails, Diagnosed, Unwait, Unwaited
<1> QED BY <1>1, <1>2, <1>3, <1>4, <1>5, <1>6, <1>7

\* The finally block, and what its steps cut or end.
CleanupStep ==
  ClientStopped \/ Drained \/ RemoteClosed \/ ChannelClosed \/ ChannelCloseRaises \/ LogsClosed \/ MasterClosed

\* Each suspension of the finally block is reached only after the releases before it.
LEMMA ReleaseStep ==
  ASSUME TypeOK, IInv, Next
  PROVE  ReleaseInv'
<1> USE DEF ReleaseInv, Whole
<1>0. ReleaseInv /\ CutInv
  BY DEF IInv
<1>1. CASE pc' \in Before /\ (orphan' => cut')
  <2>1. pc' \notin {"drain", "closeRemote", "closeLogs", "closeMaster", "returned"}
    BY <1>1 DEF Before
  <2> QED BY <1>1, <2>1
<1>2. CASE CleanupStep
  <2> USE DEF From, runVars, ownedVars, processVars, outsideVars
  <2>1. CASE ClientStopped
    BY <1>0, <2>1 DEF ClientStopped
  <2>2. CASE Drained
    BY <1>0, <2>2 DEF Drained
  <2>3. CASE RemoteClosed
    BY <1>0, <2>3 DEF RemoteClosed
  <2>4. CASE ChannelClosed
    BY <1>0, <2>4 DEF ChannelClosed
  <2>5. CASE ChannelCloseRaises
    BY <1>0, <2>5 DEF ChannelCloseRaises
  <2>6. CASE LogsClosed
    BY <1>0, <2>6 DEF LogsClosed
  <2>7. CASE MasterClosed
    BY <1>0, <2>7 DEF MasterClosed
  <2> QED BY <1>2, <2>1, <2>2, <2>3, <2>4, <2>5, <2>6, <2>7 DEF CleanupStep
<1>3. CASE CancelRun
  <2>1. CASE pc \in Cleanup
    <3>1. pc' = "returned" /\ cut' /\ (orphan' => FALSE)
      <4>1. CancelTo = {"returned"} /\ pc \notin StopsCommand
        BY <2>1 DEF CancelTo, LocalCommand, MuxCommand, StopsCommand, Cleanup
      <4> QED BY <1>3, <2>1, <4>1, Zenon DEF CancelRun
    <3> QED BY <3>1
  <2>2. CASE pc \notin Cleanup
    <3>1. pc' \in Before
      BY <1>3, <2>2 DEF CancelRun, CancelTo, Before, Locations, StopsCommand, Drains, Cleanup
    <3>2. orphan' => cut'
      BY <1>3 DEF CancelRun
    <3> QED BY <1>1, <3>1, <3>2
  <2> QED BY <2>1, <2>2
<1>4. CASE Signal \/ SignalMeetsReturn \/ Joined \/ RunReturned \/ Ended
  <2>1. UNCHANGED <<runVars, ownedVars, processVars>>
    BY <1>4 DEF Signal, SignalMeetsReturn, Joined, RunReturned, Ended, vars
  <2> QED BY <1>0, <2>1 DEF runVars, ownedVars, processVars
<1>5. CASE Environment
  <2>1. UNCHANGED <<runVars, ownedVars>>
    BY <1>5, Zenon DEF Environment, ClientExits, RemoteExits, ServiceEnds, MasterLost, Escapes, HolderEnds
  <2>2. /\ client' = "running" => client = "running"
        /\ remote' = "running" => remote = "running"
        /\ remote' = "none" <=> remote = "none"
        /\ master' = "running" => master = "running"
    <3>1. CASE Escapes \/ HolderEnds
      <4>1. UNCHANGED processVars
        BY <3>1, Zenon DEF Escapes, HolderEnds
      <4> QED BY <4>1 DEF processVars
    <3>2. CASE ClientExits \/ RemoteExits \/ ServiceEnds \/ MasterLost
      BY <3>2 DEF ClientExits, RemoteExits, ServiceEnds, MasterLost
    <3> QED BY <1>5, <3>1, <3>2 DEF Environment
  <2> QED BY <1>0, <2>1, <2>2 DEF runVars, ownedVars
<1>6. CASE RunNext /\ ~CleanupStep
  <2>1. pc' \in Before /\ UNCHANGED <<cut, orphan>>
    BY <1>6, StartsBefore DEF RunNext, CleanupStep
  <2> QED BY <1>0, <1>1, <2>1
<1> QED BY <1>2, <1>3, <1>4, <1>5, <1>6 DEF Next, MainNext

\* Only a cancellation cuts a clean-up short, and there is one.
LEMMA CutStep ==
  ASSUME IInv, Next
  PROVE  CutInv'
<1> USE DEF CutInv
<1>0. CutInv
  BY DEF IInv
<1>1. CASE RunNext /\ ~CleanupStep
  <2>1. pc \notin Cleanup \cup {"returned"} /\ UNCHANGED <<cut, outsideVars>>
    BY <1>1, StartsBefore DEF RunNext, CleanupStep
  <2>2. CASE cut
    <3>1. pc = "drainLocal" /\ outcome # "none" /\ main # "waiting"
      BY <1>0, <2>1, <2>2
    <3>2. LocalDrained
      BY <1>1, <3>1 DEF RunNext, CleanupStep, From, LocalEnded, LocalChecked, MasterStarted, Subscribed,
         SubscriptionTimesOut, SubscriptionStopped, Prepared, FallsBack, Identified, Reattached,
         Resubscribed, CapabilitiesChecked, PrerequisitesChecked, Launched, Ensured, ReadyToAttach,
         Attached, Fails, LocalCommand, MuxCommand, Subscribing, CommandTimesOut, CommandStopped,
         WaitEnds, ObservationFails, Diagnosed, Unwaited
    <3> QED BY <1>0, <2>1, <2>2, <3>2 DEF LocalDrained, From, Cleanup, outsideVars
  <2> QED BY <2>1, <2>2
<1>2. CASE CleanupStep
  <2>1. cut' = cut /\ pc' \in Cleanup \cup {"returned"} /\ main' = main
        /\ outcome' \in {outcome, "crashed"}
    BY <1>2 DEF CleanupStep, ClientStopped, Drained, RemoteClosed, ChannelClosed, ChannelCloseRaises,
       LogsClosed, MasterClosed, From, Cleanup, runVars, outsideVars
  <2> QED BY <1>0, <2>1
<1>3. CASE CancelRun
  <2>1. main' = "joining" /\ outcome' = "cancelled"
    BY <1>3 DEF CancelRun
  <2>2. cut' => pc' \in Cleanup \cup {"drainLocal", "returned"}
    <3>1. cut' => pc \in Cleanup \cup StopsCommand /\ pc' \in CancelTo
      BY <1>3 DEF CancelRun
    <3>2. pc \in Cleanup \cup StopsCommand => CancelTo \subseteq {"returned", "drainLocal", "stopClient"}
      BY DEF CancelTo, LocalCommand, MuxCommand, StopsCommand, Cleanup
    <3> QED BY <3>1, <3>2 DEF Cleanup
  <2> QED BY <2>1, <2>2
<1>4. CASE Signal \/ SignalMeetsReturn \/ Joined \/ RunReturned \/ Ended
  BY <1>0, <1>4 DEF Signal, SignalMeetsReturn, Joined, RunReturned, Ended, vars, runVars, outsideVars
<1>5. CASE Environment
  <2>1. UNCHANGED <<runVars, main>>
    BY <1>5, Zenon DEF Environment, ClientExits, RemoteExits, ServiceEnds, MasterLost, Escapes, HolderEnds,
       outsideVars
  <2> QED BY <1>0, <2>1 DEF runVars
<1> QED BY <1>1, <1>2, <1>3, <1>4, <1>5 DEF Next, MainNext

-----------------------------------------------------------------------------
(* The exit code                                                            *)

\* Nothing is started that was started before.
LEMMA StartStep ==
  ASSUME IInv, Next
  PROVE  StartInv'
<1> USE DEF StartInv, Unstarted, Subscribing, StopsChannel, LocalCommand, MuxCommand, StopsCommand, Drains, Cleanup,
            From, runVars, ownedVars, processVars, outsideVars
<1>0. StartInv
  BY DEF IInv
<1>1. CASE LocalEnded \/ LocalChecked \/ MasterStarted \/ Subscribed \/ SubscriptionTimesOut
  BY <1>0, <1>1 DEF LocalEnded, LocalChecked, MasterStarted, Subscribed, SubscriptionTimesOut
<1>2. CASE SubscriptionStopped \/ Prepared \/ FallsBack \/ Identified
  BY <1>0, <1>2 DEF SubscriptionStopped, Prepared, FallsBack, Identified
<1>3. CASE Reattached \/ Resubscribed \/ CapabilitiesChecked \/ PrerequisitesChecked \/ Launched
  BY <1>0, <1>3 DEF Reattached, Resubscribed, CapabilitiesChecked, PrerequisitesChecked, Launched
<1>4. CASE Ensured \/ ReadyToAttach \/ Attached
  BY <1>0, <1>4 DEF Ensured, ReadyToAttach, Attached
<1>5. CASE Fails \/ CommandTimesOut \/ CommandStopped \/ LocalDrained
  BY <1>0, <1>5 DEF Fails, Raise, CommandTimesOut, CommandStopped, LocalDrained
<1>10. CASE ObservationFails \/ Diagnosed \/ Unwaited
  BY <1>10 DEF ObservationFails, Diagnosed, Unwait, Unwaited
<1>6. CASE WaitEnds
  <2>1. pc' \in {"diagnose", "unwait", "stopStatus"}
    BY <1>6 DEF WaitEnds, Unwait
  <2> QED BY <2>1
<1>7. CASE CleanupStep
  BY <1>7 DEF CleanupStep, ClientStopped, Drained, RemoteClosed, ChannelClosed, ChannelCloseRaises,
     LogsClosed, MasterClosed
<1>8. CASE CancelRun
  <2>1. pc' \in CancelTo /\ outcome' = "cancelled" /\ UNCHANGED processVars
    BY <1>8 DEF CancelRun
  <2>2. CASE pc \in {"local", "stopLocal"}
    BY <1>0, <2>1, <2>2 DEF CancelTo
  <2>3. CASE pc \notin {"local", "stopLocal"}
    <3>1. CancelTo \subseteq {"stopMux", "unwait", "stopStatus", "returned", "stopClient"}
      BY <2>3 DEF CancelTo
    <3> QED BY <2>1, <3>1
  <2> QED BY <2>2, <2>3
<1>9. CASE Signal \/ SignalMeetsReturn \/ Joined \/ RunReturned \/ Environment \/ Ended
  BY <1>0, <1>9 DEF Signal, SignalMeetsReturn, Joined, RunReturned, Environment, ClientExits, RemoteExits,
     ServiceEnds, MasterLost, Escapes, HolderEnds, Ended, vars
<1> QED BY <1>1, <1>2, <1>3, <1>4, <1>5, <1>6, <1>7, <1>8, <1>9, <1>10 DEF Next, RunNext, MainNext, CleanupStep

\* What the processes did before they were stopped is not forgotten.
Succeeded == client = "ok" \/ remote = "ok" \/ service = "ended"

\* What made the outcome a success does not change any more.
LEMMA SuccessStays ==
  ASSUME IInv, Next, Succeeded
  PROVE  Succeeded'
<1> USE DEF Succeeded, From, runVars, ownedVars, processVars, outsideVars
<1>1. CASE LocalEnded \/ LocalChecked \/ MasterStarted \/ Subscribed \/ SubscriptionTimesOut
           \/ SubscriptionStopped \/ Prepared \/ FallsBack \/ Identified \/ Reattached \/ Resubscribed
           \/ CapabilitiesChecked \/ Launched \/ LocalDrained
  BY <1>1 DEF CapabilitiesChecked, LocalDrained, LocalEnded, LocalChecked, MasterStarted, Subscribed, SubscriptionTimesOut, SubscriptionStopped,
     Prepared, FallsBack, Identified, Reattached, Resubscribed, Launched
<1>2. CASE PrerequisitesChecked \/ Ensured \/ Attached
  BY <1>2 DEF PrerequisitesChecked, Ensured, Attached, IInv, StartInv, Unstarted
<1>3. CASE ReadyToAttach \/ Fails \/ CommandTimesOut \/ CommandStopped \/ WaitEnds \/ ObservationFails
           \/ Diagnosed \/ Unwaited
  BY <1>3 DEF ReadyToAttach, Fails, CommandTimesOut, CommandStopped, WaitEnds, ObservationFails,
     Diagnosed, Unwaited
<1>4. CASE CleanupStep \/ Signal \/ MainNext \/ Environment \/ Ended
  BY <1>4 DEF CleanupStep, ClientStopped, Drained, RemoteClosed, ChannelClosed, ChannelCloseRaises,
     LogsClosed, MasterClosed, Signal, MainNext, CancelRun, SignalMeetsReturn, Joined, RunReturned,
     Environment, ClientExits, RemoteExits, ServiceEnds, MasterLost, Escapes, HolderEnds, Ended, vars
<1> QED BY <1>1, <1>2, <1>3, <1>4 DEF Next, RunNext, CleanupStep

\* Only a detached client or the normal end of what it showed makes run() return normally.
LEMMA OkStep ==
  ASSUME IInv, Next, outcome' = "ok", outcome # "ok"
  PROVE  Succeeded'
<1>1. WaitEnds
  BY DEF Next, RunNext, MainNext, Environment, Ended, LocalEnded, LocalChecked, MasterStarted, Subscribed,
     SubscriptionTimesOut, SubscriptionStopped, Prepared, FallsBack, Identified, Reattached,
     Resubscribed, CapabilitiesChecked, PrerequisitesChecked, Launched, Ensured, ReadyToAttach, Attached,
     Fails, Raise, CommandTimesOut, CommandStopped, LocalDrained, ObservationFails, Diagnosed, Unwaited, ClientStopped, Drained,
     RemoteClosed, ChannelClosed, ChannelCloseRaises, LogsClosed, MasterClosed, Signal, CancelRun,
     SignalMeetsReturn, Joined, RunReturned, ClientExits, RemoteExits, ServiceEnds, MasterLost, Escapes,
     HolderEnds, vars,
     runVars
<1>2. PICK done \in SUBSET Ends : WaitOutcome(done) = "ok"
  BY <1>1 DEF WaitEnds
<1>3. \/ client = "ok"
      \/ "remote" \in done /\ remote # "failed"
  BY <1>2 DEF WaitOutcome
<1>4. "remote" \in done => remote \in {"ok", "failed"} \/ service = "ended"
  BY <1>2 DEF Ends
<1>5. Succeeded
  BY <1>3, <1>4 DEF Succeeded
<1> QED BY <1>5, SuccessStays

\* Nothing is decided before run() has returned, and nothing changes any more once it has.
LEMMA ExitSteps ==
  ASSUME IInv, Next
  PROVE  /\ pc = "returned" => UNCHANGED <<pc, outcome, cut, deferred, closed>>
         /\ main = "joining" => main' # "waiting" /\ signal' = signal
         /\ main = "done" => UNCHANGED <<main, signal, exit, pc>>
         /\ main' = "joining" /\ main # "joining" => signal /\ signal' = signal
         /\ main' = "done" /\ main # "done" => Joined \/ RunReturned
         /\ main' # "done" => exit' = exit
<1> USE DEF Locations, LocalCommand, MuxCommand, Subscribing, StopsChannel, StopsCommand, Drains, Cleanup,
            From, runVars, ownedVars, processVars, outsideVars
<1>0. (main = "done" => pc = "returned") /\ (main = "joining" => signal)
  BY DEF IInv, ExitInv
<1>1. CASE RunNext /\ ~CleanupStep
  <2>1. pc \notin Cleanup \cup {"returned"} /\ UNCHANGED outsideVars
    BY <1>1, StartsBefore DEF RunNext, CleanupStep
  <2> QED BY <1>0, <2>1
<1>2. CASE CleanupStep
  <2>1. pc \in Cleanup /\ UNCHANGED outsideVars
    BY <1>2 DEF CleanupStep, ClientStopped, Drained, RemoteClosed, ChannelClosed, ChannelCloseRaises,
       LogsClosed, MasterClosed
  <2> QED BY <1>0, <2>1
<1>3. CASE CancelRun
  BY <1>0, <1>3 DEF CancelRun
<1>4. CASE Signal \/ SignalMeetsReturn
  BY <1>0, <1>4 DEF Signal, SignalMeetsReturn
<1>5. CASE Joined \/ RunReturned
  BY <1>0, <1>5 DEF Joined, RunReturned
<1>6. CASE Environment \/ Ended
  BY <1>0, <1>6 DEF Environment, ClientExits, RemoteExits, ServiceEnds, MasterLost, Escapes, HolderEnds, Ended, vars
<1> QED BY <1>1, <1>2, <1>3, <1>4, <1>5, <1>6 DEF Next, MainNext

\* What is returned and the exit code follow from how the processes ended.
LEMMA ExitStep ==
  ASSUME IInv, Next
  PROVE  ExitInv' /\ ExitTellsTruth'
<1>0. /\ ExitInv /\ ExitTellsTruth /\ CutInv /\ ReleaseInv
  BY DEF IInv
<1>1. (outcome = "ok" => Succeeded)'
  BY <1>0, OkStep, SuccessStays DEF ExitInv, Succeeded
<1>2. /\ pc = "returned" => UNCHANGED <<pc, outcome, cut, deferred, closed>>
      /\ main = "joining" => main' # "waiting" /\ signal' = signal
      /\ main = "done" => UNCHANGED <<main, signal, exit, pc>>
      /\ main' = "joining" /\ main # "joining" => signal /\ signal' = signal
      /\ main' = "done" /\ main # "done" => Joined \/ RunReturned
      /\ main' # "done" => exit' = exit
  BY ExitSteps
<1>3. CASE main = "done"
  <2>1. /\ UNCHANGED <<pc, outcome, cut, deferred, closed, main, signal, exit>>
    BY <1>0, <1>2, <1>3 DEF ExitInv
  <2>2. exit = "zero" => Succeeded'
    <3>1. exit = "zero" => Succeeded
      BY <1>0 DEF ExitTellsTruth, Succeeded
    <3> QED BY <3>1, SuccessStays
  <2> QED BY <1>0, <1>1, <2>1, <2>2 DEF ExitInv, ExitTellsTruth, Succeeded
<1>4. CASE main # "done" /\ main' = "done"
  <2>1. pc = "returned" /\ UNCHANGED <<pc, outcome, cut, deferred, closed, signal>>
    BY <1>2, <1>4 DEF Joined, RunReturned, runVars, ownedVars
  <2>2. outcome = "error" => ~deferred /\ "journal" \in closed
    BY <1>0, <2>1 DEF CutInv, ReleaseInv, Whole
  <2>3. CASE Joined
    <3>1. signal /\ exit' = IF outcome \in {"error", "crashed"} THEN "one" ELSE "signal"
      BY <1>0, <2>3 DEF Joined, ExitInv
    <3> QED BY <1>1, <1>4, <2>1, <2>2, <3>1 DEF ExitInv, ExitTellsTruth, Succeeded
  <2>4. CASE RunReturned
    <3>1. ~signal /\ exit' = IF outcome = "ok" THEN "zero" ELSE "one"
      BY <2>4 DEF RunReturned
    <3> QED BY <1>1, <1>4, <2>1, <2>2, <3>1 DEF ExitInv, ExitTellsTruth, Succeeded
  <2> QED BY <1>2, <1>4, <2>3, <2>4
<1>5. CASE main # "done" /\ main' # "done"
  <2>1. exit = "none" \/ main = "done"
    BY <1>0 DEF ExitInv
  <2>2. exit' = "none"
    BY <1>2, <1>5, <2>1
  <2> QED BY <1>0, <1>1, <1>2, <1>5, <2>2 DEF ExitInv, ExitTellsTruth, Succeeded
<1> QED BY <1>3, <1>4, <1>5

-----------------------------------------------------------------------------
\* The inductive invariant holds in every reachable state.
LEMMA NextIInv == TypeOK /\ IInv /\ [Next]_vars => IInv'
<1>1. ASSUME TypeOK, IInv, Next PROVE IInv'
  BY <1>1, ReleaseStep, CutStep, StartStep, ExitStep DEF IInv
<1>2. ASSUME IInv, UNCHANGED vars PROVE IInv'
  BY <1>2 DEF IInv, ReleaseInv, Whole, CutInv, StartInv, ExitInv, ExitTellsTruth, vars, runVars, ownedVars,
     processVars, outsideVars
<1> QED BY <1>1, <1>2

\* The initial states are well typed.
LEMMA InitType == Init => TypeOK
<1> SUFFICES ASSUME Init PROVE TypeOK
  OBVIOUS
<1>1. /\ drains \in BOOLEAN /\ orphan \in BOOLEAN /\ clash \in BOOLEAN
      /\ deferred \in BOOLEAN /\ cut \in BOOLEAN /\ held \in BOOLEAN /\ signal \in BOOLEAN
  BY DEF Init
<1>2. /\ pc = "local" /\ persistent \in {"no", "asked"} /\ channels = {} /\ master = "none" /\ remote = "none"
      /\ service = "none" /\ client = "none" /\ closed = {} /\ outcome = "none"
      /\ main = "waiting" /\ exit = "none"
  BY DEF Init
<1> QED BY <1>1, <1>2 DEF TypeOK, Locations, LocalCommand

\* The types and the inductive invariant hold in every reachable state.
THEOREM Invariance == Spec => [](TypeOK /\ IInv)
BY InitType, InitIInv, TypeStep, NextIInv, PTL DEF Spec

\* The variables keep their types.
THEOREM TypeCorrect == Spec => []TypeOK
BY Invariance, PTL

\* Wherever run() failed or was cancelled, it returns with everything it owned released.
THEOREM EverythingReleased == Spec => []ReleasesOwned
<1>1. IInv => ReleasesOwned
  BY DEF IInv, ReleaseInv, Whole, ReleasesOwned, Released, ProcessesGone
<1> QED BY <1>1, Invariance, PTL

\* The exit code says what ended the session, and an error is shown before.
THEOREM ExitIsTrue == Spec => []ExitTellsTruth
<1>1. IInv => ExitTellsTruth
  BY DEF IInv
<1> QED BY <1>1, Invariance, PTL

===============================================================================
