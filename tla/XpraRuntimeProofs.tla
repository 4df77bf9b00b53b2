--------------------------- MODULE XpraRuntimeProofs ---------------------------
(***************************************************************************)
(* Proofs about XpraRuntime for any set of preparations and of releases.   *)
(***************************************************************************)
EXTENDS XpraRuntime, TLAPS

\* The flock's holder is who is inside the block.
HolderInv == \A p \in Preparers : pc[p] \in Inside <=> holder = p

\* Before a preparation decides to build it has neither stage nor backup.
Fresh == {"idle", "lock", "check"}

\* Between the renames, or after both.
Swapping == {"moved", "activate", "validate", "rollback", "restore"}

\* The stage is finished before it may be moved, and no backup exists before that.
StageInv(p) ==
  /\ pc[p] \in Fresh => stage[p] = Absent /\ had[p] = Absent
  /\ pc[p] \in Fresh \cup {"build", "swap"} => backup[p] = Absent
  /\ pc[p] \in {"swap", "moved", "activate"} => stage[p] = want[p]
  /\ pc[p] \in Swapping => backup[p] # Partial
  /\ pc[p] = "dropBackup" => stage[p] = Absent

\* Where the previous environment is at each point of the swap.
PreviousInv(p) ==
  had[p] # Absent =>
    /\ pc[p] \in Inside => had[p] \in Owned
    /\ pc[p] \in {"build", "swap"} => directory \in {had[p], Stale}
    /\ pc[p] \in Swapping => backup[p] \in {had[p], Stale}
    /\ pc[p] \in Unwinding /\ outcome[p] = "failed" => directory \in {had[p], Stale}

\* Where the new one is once it was moved, and once it was verified.
NewInv(p) ==
  pc[p] \in {"validate", "rollback"} \/ (pc[p] \in Unwinding /\ outcome[p] = "ready")
    => directory \in {want[p], Stale}

\* A preparation that unwinds knows how it ends.
OutcomeInv(p) == pc[p] \in Unwinding => outcome[p] \in {"ready", "failed", "cut", "rollback"}

\* LeavesNothing for one preparation.
LitterInv(p) ==
  pc[p] = "ended" /\ outcome[p] \in {"ready", "busy", "refused", "failed"}
    => stage[p] = Absent /\ backup[p] = Absent

PreparerInv(p) == StageInv(p) /\ PreviousInv(p) /\ NewInv(p) /\ OutcomeInv(p) /\ LitterInv(p)

IInv ==
  /\ TypeOK /\ InPlaceIsComplete /\ HolderInv
  /\ \A p \in Preparers : PreparerInv(p)

\* Nobody has started.
LEMMA InitIInv == Init => IInv
  BY ContentsAssumption, NobodyAssumption
     DEF Init, IInv, TypeOK, InPlaceIsComplete, HolderInv, PreparerInv, StageInv, PreviousInv,
         NewInv, OutcomeInv, LitterInv, Contents, Owned, Inside, Unwinding, Fresh, Swapping

\* A step of p leaves everything of another preparation alone, and the place too
\* while that one is inside.
LEMMA Frame ==
  ASSUME IInv, NEW p \in Preparers, PreparerNext(p), NEW q \in Preparers, q # p
  PROVE  /\ pc'[q] = pc[q] /\ want'[q] = want[q] /\ had'[q] = had[q]
         /\ outcome'[q] = outcome[q] /\ stage'[q] = stage[q] /\ backup'[q] = backup[q]
         /\ pc[q] \in Inside => directory' = directory
<1>1. /\ pc'[q] = pc[q] /\ want'[q] = want[q] /\ had'[q] = had[q]
      /\ outcome'[q] = outcome[q] /\ stage'[q] = stage[q] /\ backup'[q] = backup[q]
  BY DEF IInv, TypeOK, PreparerNext, Starts, LockTaken, LockBusy, Refuses, Reuses, CheckFails,
         Stages, Builds, BuildFails, MovesAside, NothingToMove, SwapFails, EntersTry, CutShort,
         Activates, ActivateFails, Validates, ValidateFails, RollsBack, Restores,
         NothingToRestore, RollbackFails, DropsStage, DropsBackup, DropFails, Killed,
         Goto, Leaves, Unwinds, Ends, diskVars
<1>2. directory' # directory => pc[p] \in {"swap", "activate", "rollback", "restore"}
  BY DEF PreparerNext, Starts, LockTaken, LockBusy, Refuses, Reuses, CheckFails,
         Stages, Builds, BuildFails, MovesAside, NothingToMove, SwapFails, EntersTry, CutShort,
         Activates, ActivateFails, Validates, ValidateFails, RollsBack, Restores,
         NothingToRestore, RollbackFails, DropsStage, DropsBackup, DropFails, Killed,
         Goto, Leaves, Unwinds, Ends, diskVars
<1>3. pc[q] \in Inside => pc[p] \notin Inside
  BY DEF IInv, HolderInv
<1> QED BY <1>1, <1>2, <1>3 DEF Inside

\* A step of p keeps the types, the completeness of what is in place and the lock.
LEMMA TypeStep ==
  ASSUME IInv, NEW p \in Preparers, PreparerNext(p)
  PROVE  TypeOK' /\ InPlaceIsComplete' /\ HolderInv'
<1> USE DEF Goto, Leaves, Unwinds, Ends, diskVars
<1>1. TypeOK'
  <2>1. CASE Starts(p) \/ LockTaken(p) \/ LockBusy(p) \/ Refuses(p) \/ Reuses(p) \/ CheckFails(p)
    BY <2>1 DEF IInv, TypeOK, Starts, LockTaken, LockBusy, Refuses, Reuses, CheckFails, Inside
  <2>2. CASE Stages(p)
    BY <2>2 DEF IInv, TypeOK, Stages, Inside, Contents
  <2>3. CASE Builds(p) \/ BuildFails(p) \/ MovesAside(p) \/ NothingToMove(p) \/ SwapFails(p)
    BY <2>3 DEF IInv, TypeOK, Builds, BuildFails, MovesAside, NothingToMove, SwapFails,
                Inside, Unwinding, Contents, Owned
  <2>4. CASE EntersTry(p) \/ CutShort(p) \/ Activates(p) \/ ActivateFails(p)
    BY <2>4 DEF IInv, TypeOK, EntersTry, CutShort, Activates, ActivateFails,
                Inside, Unwinding, Contents
  <2>5. CASE Validates(p) \/ ValidateFails(p) \/ RollsBack(p) \/ NothingToRestore(p) \/ RollbackFails(p)
    BY <2>5 DEF IInv, TypeOK, Validates, ValidateFails, RollsBack, NothingToRestore,
                RollbackFails, Inside, Unwinding, Contents
  <2>6. CASE Restores(p)
    BY <2>6 DEF IInv, TypeOK, Restores, Inside, Unwinding, Contents
  <2>7. CASE DropsStage(p) \/ DropsBackup(p) \/ Killed(p)
    BY <2>7 DEF IInv, TypeOK, DropsStage, DropsBackup, Killed, Inside, Unwinding, Contents
  <2>8. CASE DropFails(p)
    BY <2>8 DEF IInv, TypeOK, DropFails, Littered, Inside, Unwinding, Contents
  <2> QED BY <2>1, <2>2, <2>3, <2>4, <2>5, <2>6, <2>7, <2>8 DEF PreparerNext
<1>2. InPlaceIsComplete'
  <2>1. CASE Activates(p)
    <3>1. directory' = want[p]
      BY <2>1 DEF Activates, IInv, PreparerInv, StageInv
    <3> QED BY <3>1, ContentsAssumption DEF IInv, TypeOK, InPlaceIsComplete
  <2>2. CASE Restores(p)
    BY <2>2 DEF Restores, IInv, PreparerInv, StageInv, Swapping, InPlaceIsComplete
  <2>3. CASE MovesAside(p) \/ RollsBack(p)
    BY <2>3, ContentsAssumption DEF MovesAside, RollsBack, InPlaceIsComplete
  <2>4. CASE ~Activates(p) /\ ~Restores(p) /\ ~MovesAside(p) /\ ~RollsBack(p)
    <3>1. directory' = directory
      BY <2>4 DEF PreparerNext, Starts, LockTaken, LockBusy, Refuses, Reuses, CheckFails,
         Stages, Builds, BuildFails, NothingToMove, SwapFails, EntersTry, CutShort,
         ActivateFails, Validates, ValidateFails,
         NothingToRestore, RollbackFails, DropsStage, DropsBackup, DropFails, Killed
    <3> QED BY <3>1 DEF IInv, InPlaceIsComplete
  <2> QED BY <2>1, <2>2, <2>3, <2>4
<1>3. HolderInv'
  <2>1. /\ pc'[p] \in Inside <=> holder' = p
        /\ \/ holder' = holder
           \/ holder = Nobody /\ holder' = p
           \/ holder = p /\ holder' = Nobody
    BY NobodyAssumption
       DEF IInv, TypeOK, HolderInv, PreparerNext, Starts, LockTaken, LockBusy, Refuses, Reuses,
         CheckFails, Stages, Builds, BuildFails, MovesAside, NothingToMove, SwapFails, EntersTry,
         CutShort, Activates, ActivateFails, Validates, ValidateFails, RollsBack, Restores,
         NothingToRestore, RollbackFails, DropsStage, DropsBackup, DropFails, Killed,
         Inside, Unwinding
  <2>2. \A q \in Preparers \ {p} : pc'[q] = pc[q]
    BY Frame
  <2> QED BY <2>1, <2>2, NobodyAssumption DEF IInv, HolderInv
<1> QED BY <1>1, <1>2, <1>3

\* A step of p keeps what p knows of its own directories.
LEMMA OwnStep ==
  ASSUME IInv, NEW p \in Preparers, PreparerNext(p)
  PROVE  PreparerInv(p)'
<1> USE DEF Goto, Leaves, Unwinds, Ends, diskVars, PreparerInv, StageInv, PreviousInv, NewInv,
            OutcomeInv, LitterInv, Fresh, Swapping, Inside, Unwinding, TypeOK
<1>1. CASE Starts(p) \/ LockTaken(p) \/ LockBusy(p)
  BY <1>1 DEF IInv, Starts, LockTaken, LockBusy
<1>2. CASE Refuses(p) \/ Reuses(p) \/ CheckFails(p)
  BY <1>2 DEF IInv, Refuses, Reuses, CheckFails
<1>3. CASE Stages(p)
  BY <1>3 DEF IInv, Stages, Contents, InPlaceIsComplete
<1>4. CASE Builds(p) \/ BuildFails(p)
  BY <1>4 DEF IInv, Builds, BuildFails
<1>5. CASE MovesAside(p)
  BY <1>5, ContentsAssumption DEF IInv, MovesAside, InPlaceIsComplete, Owned
<1>6. CASE NothingToMove(p)
  BY <1>6, ContentsAssumption DEF IInv, NothingToMove, Owned
<1>7. CASE SwapFails(p) \/ EntersTry(p) \/ CutShort(p)
  BY <1>7 DEF IInv, SwapFails, EntersTry, CutShort
<1>8. CASE Activates(p) \/ ActivateFails(p)
  BY <1>8 DEF IInv, Activates, ActivateFails
<1>9. CASE Validates(p) \/ ValidateFails(p)
  BY <1>9 DEF IInv, Validates, ValidateFails
<1>10. CASE RollsBack(p) \/ RollbackFails(p)
  BY <1>10 DEF IInv, RollsBack, RollbackFails
<1>11. CASE Restores(p)
  BY <1>11 DEF IInv, Restores
<1>12. CASE NothingToRestore(p)
  BY <1>12, ContentsAssumption DEF IInv, NothingToRestore, Owned
<1>13. CASE DropsStage(p) \/ DropsBackup(p)
  BY <1>13 DEF IInv, DropsStage, DropsBackup
<1>14. CASE DropFails(p)
  BY <1>14 DEF IInv, DropFails, Littered
<1>15. CASE Killed(p)
  BY <1>15 DEF IInv, Killed
<1> QED
  BY <1>1, <1>2, <1>3, <1>4, <1>5, <1>6, <1>7, <1>8, <1>9, <1>10, <1>11, <1>12, <1>13, <1>14,
     <1>15 DEF PreparerNext

\* What is in place changes for another preparation only while that one is not inside.
LEMMA OthersStep ==
  ASSUME IInv, NEW p \in Preparers, PreparerNext(p), NEW q \in Preparers, q # p
  PROVE  PreparerInv(q)'
<1>1. PreparerInv(q)
  BY DEF IInv
<1> QED
  BY <1>1, Frame DEF PreparerInv, StageInv, PreviousInv, NewInv, OutcomeInv, LitterInv, Fresh,
                     Swapping, Inside, Unwinding

\* The user and the system's upgrades only spoil what is in place or fill what is empty.
LEMMA ExternalStep ==
  ASSUME IInv, GoesStale \/ UserCreates
  PROVE  IInv'
<1>1. /\ TypeOK' /\ InPlaceIsComplete' /\ HolderInv'
      /\ \/ directory \in Versions /\ directory' = Stale
         \/ directory = Absent /\ directory' = Foreign
  BY ContentsAssumption DEF IInv, TypeOK, InPlaceIsComplete, HolderInv, GoesStale, UserCreates,
                            Contents, Owned
<1>2. ASSUME NEW q \in Preparers PROVE PreparerInv(q)'
  <2>1. /\ pc' = pc /\ stage' = stage /\ backup' = backup /\ want' = want /\ had' = had
        /\ outcome' = outcome /\ PreparerInv(q) /\ want[q] \in Versions
    BY DEF IInv, TypeOK, GoesStale, UserCreates
  <2>2. StageInv(q)' /\ OutcomeInv(q)' /\ LitterInv(q)'
    BY <2>1 DEF PreparerInv, StageInv, OutcomeInv, LitterInv
  <2>3. PreviousInv(q)' /\ NewInv(q)'
    BY <1>1, <2>1, ContentsAssumption DEF PreparerInv, PreviousInv, NewInv, Owned, Unwinding, Inside
  <2> QED BY <2>2, <2>3 DEF PreparerInv
<1> QED BY <1>1, <1>2 DEF IInv

\* The invariant of every step.
LEMMA NextIInv == IInv /\ [Next]_vars => IInv'
<1> SUFFICES ASSUME IInv, [Next]_vars PROVE IInv'
  OBVIOUS
<1>1. ASSUME NEW p \in Preparers, PreparerNext(p) PROVE IInv'
  BY <1>1, TypeStep, OwnStep, OthersStep DEF IInv
<1>2. CASE UNCHANGED vars
  BY <1>2 DEF vars, diskVars, IInv, TypeOK, InPlaceIsComplete, HolderInv, PreparerInv, StageInv,
         PreviousInv, NewInv, OutcomeInv, LitterInv
<1> QED BY <1>1, <1>2, ExternalStep DEF Next

\* The inductive invariant holds in every reachable state.
THEOREM Invariance == Spec => []IInv
  BY InitIInv, NextIInv, PTL DEF Spec

\* The types of the model.
THEOREM TypeCorrect == Spec => []TypeOK
<1>1. IInv => TypeOK BY DEF IInv
<1> QED BY <1>1, Invariance, PTL

\* For any number of preparations and of releases, and whatever fails or is
\* killed, nothing unfinished gets into the environment's place.
THEOREM Complete == Spec => []InPlaceIsComplete
<1>1. IInv => InPlaceIsComplete BY DEF IInv
<1> QED BY <1>1, Invariance, PTL

\* A preparation that ends in order leaves neither stage nor backup.
THEOREM NothingLeft == Spec => []LeavesNothing
<1>1. IInv => LeavesNothing BY DEF IInv, PreparerInv, LitterInv, LeavesNothing
<1> QED BY <1>1, Invariance, PTL

\* Only the preparation itself returns, and it does so from its check or from the
\* finally block, without changing what is in place.
LEMMA WhoReturns ==
  ASSUME IInv, [Next]_vars, NEW p \in Preparers, Returns(p)
  PROVE  /\ directory' = directory
         /\ \/ LockBusy(p) \/ Refuses(p) \/ Reuses(p) \/ CheckFails(p) \/ Stages(p)
            \/ DropsStage(p) \/ DropsBackup(p) \/ DropFails(p)
<1>1. ~(GoesStale \/ UserCreates \/ UNCHANGED vars)
  BY DEF Returns, GoesStale, UserCreates, vars
<1>2. PICK q \in Preparers : PreparerNext(q)
  BY <1>1 DEF Next
<1>3. q = p
  BY <1>2, Frame DEF Returns
<1> QED
  BY <1>2, <1>3
     DEF IInv, TypeOK, Returns, PreparerNext, Starts, LockTaken, LockBusy, Refuses, Reuses,
         CheckFails, Stages, Builds, BuildFails, MovesAside, NothingToMove, SwapFails, EntersTry,
         CutShort, Activates, ActivateFails, Validates, ValidateFails, RollsBack, Restores,
         NothingToRestore, RollbackFails, DropsStage, DropsBackup, DropFails, Killed,
         Goto, Leaves, Unwinds, Ends, diskVars

\* After a failure that is neither the rollback's nor an interrupt's between the
\* renames, the previous environment or the new one is in place, for any number
\* of preparations.
THEOREM EnvironmentKept == Spec => KeepsEnvironment
<1>1. IInv /\ [Next]_vars =>
        [\A p \in Preparers :
           Returns(p) /\ outcome'[p] \in {"failed", "littered"} /\ had[p] # Absent
             => directory' \in {had[p], want[p], Stale}]_vars
  <2> SUFFICES ASSUME IInv, [Next]_vars, NEW p \in Preparers,
                      Returns(p), outcome'[p] \in {"failed", "littered"}, had[p] # Absent
               PROVE  directory' \in {had[p], want[p], Stale}
    OBVIOUS
  <2>1. PreparerInv(p)
    BY DEF IInv
  <2>2. directory' = directory /\ pc[p] \in Unwinding /\ outcome[p] \in {"ready", "failed"}
    <3>1. pc[p] \in Unwinding
      BY <2>1, WhoReturns
         DEF PreparerInv, StageInv, Fresh, LockBusy, Refuses, Reuses, CheckFails, Stages,
             DropsStage, DropsBackup, DropFails, Leaves, Goto, Unwinding
    <3>2. outcome[p] \notin {"cut", "rollback"}
      BY <3>1, WhoReturns
         DEF IInv, TypeOK, LockBusy, Refuses, Reuses, CheckFails, Stages, DropsStage, DropsBackup,
             DropFails, Littered, Leaves, Goto, Ends, Returns, Unwinding
    <3> QED BY <2>1, <3>1, <3>2, WhoReturns DEF PreparerInv, OutcomeInv
  <2> QED BY <2>1, <2>2 DEF PreparerInv, PreviousInv, NewInv
<1> QED BY <1>1, Invariance, PTL DEF Spec, KeepsEnvironment

\* A launcher that prepare returns is the one of the environment in place, for
\* any number of preparations of any releases.
THEOREM ReadyInPlace == Spec => ReadyIsInPlace
<1>1. IInv /\ [Next]_vars =>
        [\A p \in Preparers :
           Returns(p) /\ outcome'[p] = "ready" => directory' \in {want[p], Stale}]_vars
  <2> SUFFICES ASSUME IInv, [Next]_vars, NEW p \in Preparers, Returns(p), outcome'[p] = "ready"
               PROVE  directory' \in {want[p], Stale}
    OBVIOUS
  <2>1. PreparerInv(p)
    BY DEF IInv
  <2>2. directory' = directory /\ (Reuses(p) \/ DropsBackup(p))
    BY WhoReturns
       DEF IInv, TypeOK, LockBusy, Refuses, Reuses, CheckFails, Stages, DropsStage, DropsBackup,
           DropFails, Littered, Leaves, Goto, Ends, Returns
  <2>3. CASE Reuses(p)
    BY <2>2, <2>3 DEF Reuses
  <2>4. CASE DropsBackup(p)
    <3>1. pc[p] \in Unwinding /\ outcome[p] = "ready"
      BY <2>4 DEF IInv, TypeOK, DropsBackup, Leaves, Goto, Ends, Unwinding
    <3> QED BY <2>1, <2>2, <3>1 DEF PreparerInv, NewInv
  <2> QED BY <2>2, <2>3, <2>4
<1> QED BY <1>1, Invariance, PTL DEF Spec, ReadyIsInPlace

\* A directory of somebody else's that is in place before anybody decides to
\* build stays there.
THEOREM ForeignLeftAlone == Spec => ForeignIsLeftAlone
<1>1. IInv /\ [Next]_vars => [Settled => Settled']_vars
  <2> SUFFICES ASSUME IInv, [Next]_vars, Settled PROVE Settled'
    OBVIOUS
  <2>1. CASE GoesStale \/ UserCreates \/ UNCHANGED vars
    BY <2>1, ContentsAssumption DEF GoesStale, UserCreates, vars, diskVars, Settled
  <2>2. ASSUME NEW p \in Preparers, PreparerNext(p) PROVE Settled'
    <3>1. directory' = directory /\ pc'[p] \notin Inside \ {"check", "dropStage", "dropBackup"}
      BY <2>2
         DEF IInv, TypeOK, Settled, PreparerNext, Starts, LockTaken, LockBusy, Refuses, Reuses,
         CheckFails, Stages, Builds, BuildFails, MovesAside, NothingToMove, SwapFails, EntersTry,
         CutShort, Activates, ActivateFails, Validates, ValidateFails, RollsBack, Restores,
         NothingToRestore, RollbackFails, DropsStage, DropsBackup, DropFails, Killed,
         Goto, Leaves, Unwinds, Ends, diskVars, Inside, Unwinding
    <3> QED BY <2>2, <3>1, Frame DEF Settled
  <2> QED BY <2>1, <2>2 DEF Next
<1> QED BY <1>1, Invariance, PTL DEF Spec, ForeignIsLeftAlone

================================================================================
