------------------------------ MODULE XpraRuntime ------------------------------
(***************************************************************************)
(* The local Python environment of Xpra: `elsewindow --prepare-xpra` keeps *)
(* the one in place if it is valid, and otherwise builds another in a      *)
(* directory of its own and swaps the two by renaming.  Preparations of    *)
(* different releases may share the place and exclude each other by a      *)
(* flock; the user, the system's upgrades and SIGKILL respect none.        *)
(*                                                                         *)
(* Source: elsewindow/xpra_runtime.py.  An environment is told apart by    *)
(* the inputs it was made from (dependency locks, interpreter, Xpra).      *)
(***************************************************************************)
CONSTANTS
  Preparers,  \* runs of prepare
  Versions,   \* inputs that some release wants
  Stale,      \* an owned environment that is valid for nobody
  Partial,    \* what a build or a removal has left unfinished
  Foreign,    \* a directory without an ownership record
  Absent,     \* nothing
  Nobody      \* nobody holds the flock

ASSUME ContentsAssumption ==
  /\ Versions \cap {Stale, Partial, Foreign, Absent} = {}
  /\ Stale \notin {Partial, Foreign, Absent}
  /\ Partial \notin {Foreign, Absent}
  /\ Foreign # Absent
ASSUME NobodyAssumption == Nobody \notin Preparers

VARIABLES
  directory,  \* what is in the environment's place
  stage,      \* per preparer: what is in its staging directory
  backup,     \* per preparer: what is in its `-previous` directory
  holder,     \* who holds the flock of the place
  pc,         \* per preparer: where prepare is
  want,       \* per preparer: the inputs of its release
  had,        \* per preparer: what was in place when it decided to build
  outcome     \* per preparer: how it ends; already set when it starts to unwind

diskVars == <<directory, stage, backup>>
vars == <<diskVars, holder, pc, want, had, outcome>>

Owned == Versions \cup {Stale}
Contents == Owned \cup {Partial, Foreign, Absent}

\* Inside `with os.fdopen(...)` with the flock taken; Unwinding is the finally block.
Unwinding == {"dropStage", "dropBackup"}
Inside == {"check", "build", "swap", "moved", "activate", "validate", "rollback", "restore"}
            \cup Unwinding

Init ==
  /\ directory \in Owned \cup {Foreign, Absent}
  /\ stage = [p \in Preparers |-> Absent]
  /\ backup = [p \in Preparers |-> Absent]
  /\ holder = Nobody
  /\ pc = [p \in Preparers |-> "idle"]
  /\ want \in [Preparers -> Versions]
  /\ had = [p \in Preparers |-> Absent]
  /\ outcome = [p \in Preparers |-> "none"]

---------------------------------------------------------------------------
(* prepare *)

Goto(p, here, there) == pc[p] = here /\ pc' = [pc EXCEPT ![p] = there]

Ends(p, how) == outcome' = [outcome EXCEPT ![p] = how]

\* prepare returns or raises: the descriptor is closed and the flock with it.
Leaves(p, here, how) ==
  /\ Goto(p, here, "ended")
  /\ Ends(p, how)
  /\ holder' = IF holder = p THEN Nobody ELSE holder

\* An exception on the way: the finally block runs.
Unwinds(p, here, how) ==
  /\ Goto(p, here, "dropStage")
  /\ Ends(p, how)

\* The inputs are read and the lock file is opened.
Starts(p) ==
  /\ Goto(p, "idle", "lock")
  /\ UNCHANGED <<diskVars, holder, want, had, outcome>>

LockTaken(p) ==
  /\ Goto(p, "lock", "check")
  /\ holder = Nobody
  /\ holder' = p
  /\ UNCHANGED <<diskVars, want, had, outcome>>

\* "another Xpra environment preparation is running"
LockBusy(p) ==
  /\ holder # Nobody
  /\ Leaves(p, "lock", "busy")
  /\ UNCHANGED <<diskVars, want, had>>

\* "refusing to replace an unowned Xpra environment directory", or what _owned says.
Refuses(p) ==
  /\ directory = Foreign
  /\ Leaves(p, "check", "refused")
  /\ UNCHANGED <<diskVars, want, had>>

\* Mutant of Reuses: an owned environment is not validated again.
ReusesOwned(p) ==
  /\ directory \in Owned
  /\ Leaves(p, "check", "ready")
  /\ UNCHANGED <<diskVars, want, had>>

Reuses(p) ==
  /\ directory = want[p]
  /\ Leaves(p, "check", "ready")
  /\ UNCHANGED <<diskVars, want, had>>

\* The validation of what is in place times out or is interrupted.
CheckFails(p) ==
  /\ Leaves(p, "check", "failed")
  /\ UNCHANGED <<diskVars, want, had>>

\* Nothing is in place, or it is owned and prepared_launcher rejects it, also for
\* an error that has nothing to do with it.
Stages(p) ==
  /\ directory # Foreign
  /\ stage' = [stage EXCEPT ![p] = Partial]
  /\ had' = [had EXCEPT ![p] = directory]
  /\ \/ Goto(p, "check", "build") /\ UNCHANGED <<holder, outcome>>
     \/ Leaves(p, "check", "littered")  \* interrupted before the try block
  /\ UNCHANGED <<directory, backup, want>>

\* Interpreter, packages, launcher and record are complete and verified.
Builds(p) ==
  /\ Goto(p, "build", "swap")
  /\ stage' = [stage EXCEPT ![p] = want[p]]
  /\ UNCHANGED <<directory, backup, holder, want, had, outcome>>

\* Mutant of BuildFails: a step of the build that fails is passed over.
BuildsOn(p) ==
  /\ Goto(p, "build", "swap")
  /\ UNCHANGED <<diskVars, holder, want, had, outcome>>

BuildFails(p) ==
  /\ Unwinds(p, "build", "failed")
  /\ UNCHANGED <<diskVars, holder, want, had>>

\* What is in place by now is renamed away.
MovesAside(p) ==
  /\ Goto(p, "swap", "moved")
  /\ directory # Absent
  /\ backup' = [backup EXCEPT ![p] = directory]
  /\ directory' = Absent
  /\ UNCHANGED <<stage, holder, want, had, outcome>>

NothingToMove(p) ==
  /\ Goto(p, "swap", "activate")
  /\ directory = Absent
  /\ UNCHANGED <<diskVars, holder, want, had, outcome>>

SwapFails(p) ==
  /\ Unwinds(p, "swap", "failed")
  /\ UNCHANGED <<diskVars, holder, want, had>>

\* The inner try block is entered ...
EntersTry(p) ==
  /\ Goto(p, "moved", "activate")
  /\ UNCHANGED <<diskVars, holder, want, had, outcome>>

\* ... or KeyboardInterrupt is raised when the rename returns, outside of it.
CutShort(p) ==
  /\ Unwinds(p, "moved", "cut")
  /\ UNCHANGED <<diskVars, holder, want, had>>

Activates(p) ==
  /\ Goto(p, "activate", "validate")
  /\ directory = Absent
  /\ directory' = stage[p]
  /\ stage' = [stage EXCEPT ![p] = Absent]
  /\ UNCHANGED <<backup, holder, want, had, outcome>>

\* The rename fails, as it must when something has come into place.
ActivateFails(p) ==
  /\ Goto(p, "activate", "restore")
  /\ UNCHANGED <<diskVars, holder, want, had, outcome>>

\* prepared_launcher accepts the new environment where it is.
Validates(p) ==
  /\ directory = want[p]
  /\ Unwinds(p, "validate", "ready")
  /\ UNCHANGED <<diskVars, holder, want, had>>

ValidateFails(p) ==
  /\ Goto(p, "validate", "rollback")
  /\ UNCHANGED <<diskVars, holder, want, had, outcome>>

\* except BaseException: the new environment goes back to the stage ...
RollsBack(p) ==
  /\ Goto(p, "rollback", "restore")
  /\ directory # Absent
  /\ stage' = [stage EXCEPT ![p] = directory]
  /\ directory' = Absent
  /\ UNCHANGED <<backup, holder, want, had, outcome>>

\* Mutant of Restores: the previous environment is not moved back.
RestoresNothing(p) ==
  /\ Unwinds(p, "restore", "failed")
  /\ UNCHANGED <<diskVars, holder, want, had>>

\* ... and the previous one into its place.
Restores(p) ==
  /\ directory = Absent
  /\ backup[p] # Absent
  /\ directory' = backup[p]
  /\ backup' = [backup EXCEPT ![p] = Absent]
  /\ Unwinds(p, "restore", "failed")
  /\ UNCHANGED <<stage, holder, want, had>>

NothingToRestore(p) ==
  /\ backup[p] = Absent
  /\ Unwinds(p, "restore", "failed")
  /\ UNCHANGED <<diskVars, holder, want, had>>

\* A rename of the rollback fails or is interrupted.
RollbackFails(p) ==
  /\ \/ Unwinds(p, "rollback", "rollback")
     \/ backup[p] # Absent /\ Unwinds(p, "restore", "rollback")
  /\ UNCHANGED <<diskVars, holder, want, had>>

\* finally: the stage, if it exists, and then the backup, if it exists, go.
DropsStage(p) ==
  /\ Goto(p, "dropStage", "dropBackup")
  /\ stage' = [stage EXCEPT ![p] = Absent]
  /\ UNCHANGED <<directory, backup, holder, want, had, outcome>>

DropsBackup(p) ==
  /\ backup' = [backup EXCEPT ![p] = Absent]
  /\ Leaves(p, "dropBackup", outcome[p])
  /\ UNCHANGED <<directory, stage, want, had>>

\* A removal fails half-way: prepare raises, even if it was about to return.
Littered(how) == IF how \in {"cut", "rollback"} THEN how ELSE "littered"

DropFails(p) ==
  /\ \/ /\ stage[p] # Absent
        /\ stage' = [stage EXCEPT ![p] = Partial]
        /\ Leaves(p, "dropStage", Littered(outcome[p]))
        /\ UNCHANGED backup
     \/ /\ backup[p] # Absent
        /\ backup' = [backup EXCEPT ![p] = Partial]
        /\ Leaves(p, "dropBackup", Littered(outcome[p]))
        /\ UNCHANGED stage
  /\ UNCHANGED <<directory, want, had>>

---------------------------------------------------------------------------
(* External *)

\* SIGKILL or the machine's end: the kernel drops the flock.
Killed(p) ==
  /\ pc[p] \in Inside
  /\ pc' = [pc EXCEPT ![p] = "dead"]
  /\ holder' = Nobody
  /\ UNCHANGED <<diskVars, want, had, outcome>>

\* An upgrade of the system, or somebody's edit, invalidates the environment.
GoesStale ==
  /\ directory \in Versions
  /\ directory' = Stale
  /\ UNCHANGED <<stage, backup, holder, pc, want, had, outcome>>

\* Somebody makes a directory of their own, not empty, in the place.
UserCreates ==
  /\ directory = Absent
  /\ directory' = Foreign
  /\ UNCHANGED <<stage, backup, holder, pc, want, had, outcome>>

PreparerNext(p) ==
  \/ Starts(p) \/ LockTaken(p) \/ LockBusy(p)
  \/ Refuses(p) \/ Reuses(p) \/ CheckFails(p) \/ Stages(p)
  \/ Builds(p) \/ BuildFails(p) \/ MovesAside(p) \/ NothingToMove(p) \/ SwapFails(p)
  \/ EntersTry(p) \/ CutShort(p) \/ Activates(p) \/ ActivateFails(p)
  \/ Validates(p) \/ ValidateFails(p) \/ RollsBack(p) \/ Restores(p)
  \/ NothingToRestore(p) \/ RollbackFails(p)
  \/ DropsStage(p) \/ DropsBackup(p) \/ DropFails(p) \/ Killed(p)

Next == GoesStale \/ UserCreates \/ \E p \in Preparers : PreparerNext(p)

Spec == Init /\ [][Next]_vars

---------------------------------------------------------------------------
(* Properties *)

\* Types of the directories and of the preparations.
TypeOK ==
  /\ directory \in Contents
  /\ stage \in [Preparers -> Contents]
  /\ backup \in [Preparers -> Contents]
  /\ holder \in Preparers \cup {Nobody}
  /\ pc \in [Preparers -> {"idle", "lock", "ended", "dead"} \cup Inside]
  /\ want \in [Preparers -> Versions]
  /\ had \in [Preparers -> Contents]
  /\ outcome \in [Preparers -> {"none", "ready", "busy", "refused", "failed", "littered",
                                "cut", "rollback"}]

\* Whatever fails or is killed, what is in place was built to its end: a stage
\* that is not, or a backup whose removal failed half-way, never gets there.
InPlaceIsComplete == directory # Partial

Returns(p) == pc[p] # "ended" /\ pc'[p] = "ended"

\* "Preparation ... preserves the previous owned environment on failure"
\* (doc/security.md): it is back in place, or a verified one for this release is,
\* after any failure but those of the rollback itself and an interrupt between
\* the two renames.
KeepsEnvironment ==
  [][\A p \in Preparers :
       Returns(p) /\ outcome'[p] \in {"failed", "littered"} /\ had[p] # Absent
         => directory' \in {had[p], want[p], Stale}]_vars

\* The same promise with that interrupt, the code's `except BaseException` being meant
\* for it too: the previous environment is in place, or at least kept beside it.  It does
\* not hold: the first rename stands before the `try`.
PreservesEnvironment ==
  [][\A p \in Preparers :
       Returns(p) /\ outcome'[p] \in {"failed", "littered", "cut"} /\ had[p] # Absent
         => {directory', backup'[p]} \cap {had[p], want[p], Stale} # {}]_vars

\* When prepare returns its launcher, the environment for its release is in
\* place, no matter which other release is prepared there at the same time;
\* only what respects no lock may have spoilt it since it was verified.
ReadyIsInPlace ==
  [][\A p \in Preparers :
       Returns(p) /\ outcome'[p] = "ready" => directory' \in {want[p], Stale}]_vars

\* A directory that belongs to somebody else is in place and no preparation is
\* past its check.
Settled ==
  directory = Foreign /\ \A p \in Preparers : pc[p] \notin Inside \ {"check", "dropStage", "dropBackup"}

\* "Preparation refuses unowned directories": it then stays there for ever.
ForeignIsLeftAlone == [][Settled => Settled']_vars

\* A preparation that ended leaves neither stage nor backup behind, unless a
\* removal failed or it was interrupted at its start.
LeavesNothing ==
  \A p \in Preparers :
    pc[p] = "ended" /\ outcome[p] \in {"ready", "busy", "refused", "failed"}
      => stage[p] = Absent /\ backup[p] = Absent

================================================================================
