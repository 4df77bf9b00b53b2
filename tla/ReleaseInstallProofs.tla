------------------------ MODULE ReleaseInstallProofs ------------------------
(***************************************************************************)
(* Proofs about ReleaseInstall for any number of invocations, any packages *)
(* and releases and any changes by others.                                 *)
(***************************************************************************)
EXTENDS ReleaseInstall, TLAPS

\* Where the transaction's body has the packages extracted, and where it may change
\* the database or has changed it.
Extracted == {"metadata", "mktemp", "identify", "copy", "inspect", "uncopy", "refresh",
              "simulate", "recheck"} \cup Mutate \cup {"diagnose", "record", "cleanup"}
Changing == Mutate \cup {"diagnose", "record", "report", "cleanup", "clear"}

\* A verified copy exists when it may be needed, and the root-owned one is known to
\* the process while it is whole.
StageInv(r) ==
    /\ r.pc \in Extracted => r.stage = "payload"
    /\ r.pc \in Prepare \cup {"abandon"} => r.stage # "none"
    /\ r.pc = "record" => r.payload
    /\ r.pc = "report" => r.payload \/ r.stage = "payload"
    /\ r.payload => r.root = "payload" \/ r.pc = "clear"
    /\ r.pc \in Before => r.stage = "none" /\ r.root = "none"
    /\ r.pc \notin {"copy", "inspect", "uncopy", "done"} /\ ~r.payload =>
            r.root \in {"none", "unverified"}
    /\ r.pc \in {"download", "validate", "select", "extract", "metadata", "mktemp"} =>
            r.root = "none"
    /\ r.pc \in {"refresh", "simulate", "recheck", "cleanup"} \cup Mutate =>
            r.payload \/ r.root = "none"
    /\ r.pc = "clear" /\ r.outcome = "success" => r.root = "none"

\* Each check that was passed excludes its flaws.
FlawInv(r) ==
    /\ r.pc \in {"select", "extract", "metadata", "mktemp", "identify", "copy", "inspect",
                 "uncopy", "refresh", "simulate", "recheck"} \cup Changing =>
            r.flaw \notin {"members", "manifest"}
    /\ r.pc \in {"extract", "metadata", "mktemp", "identify", "copy", "inspect",
                 "uncopy", "refresh", "simulate", "recheck"} \cup Changing => r.flaw # "set"
    /\ r.pc \in {"mktemp", "identify", "copy", "inspect", "uncopy", "refresh", "simulate",
                 "recheck"} \cup Changing => r.flaw # "control"
    /\ r.pc \in {"recheck"} \cup Changing => r.flaw # "plan"
    /\ r.changed => r.flaw \in {"none", "runtime"}

\* The transaction starts after the recheck and is verified before it is cleaned up.
PhaseInv(r) ==
    /\ r.pc \in Before \cup Prepare \cup {"abandon"} => ~r.changed /\ ~r.started
    /\ r.pc \in Mutate => r.started
    /\ r.pc \in {"current", "cleanup", "clear"} => r.verified
    /\ r.pc \notin {"clear", "done"} => r.outcome = "none"
    /\ r.pc = "clear" => r.outcome \in {"success", "leftover"}
    /\ r.outcome = "success" => r.verified
    /\ r.pc # "done" => r.told = "nowhere"

\* What was confirmed is what will be purged.
ConsentInv(r) ==
    /\ r.pc \in {"sudo", "resolve", "stage"} \cup Prepare \cup Mutate => r.consented
    /\ r.pc = "purge" => r.prepurge = r.confirmed

\* The properties, for one invocation.
EndInv(r) ==
    /\ r.outcome \in {"refused", "cancelled", "preflight"} => ~r.changed
    /\ r.changed /\ ~r.verified => r.stage = "payload" \/ r.root = "payload"
    /\ r.told = "stage" => r.stage = "payload"
    /\ r.told = "root"  => r.root = "payload"
    /\ r.pc = "done" /\ r.outcome = "success" => r.stage = "none" /\ r.root = "none"

RunInv(r) == StageInv(r) /\ FlawInv(r) /\ PhaseInv(r) /\ ConsentInv(r) /\ EndInv(r)

\* What a verification showed holds until somebody else changes the database.
ExactInv(i) ==
    /\ run[i].verified /\ ~run[i].disturbed
    /\ run[i].pc \in {"current", "cleanup", "clear"} \/ run[i].outcome = "success"
    => Exact(db, run[i].selected)

IInv == TypeOK /\ \A i \in Installers : RunInv(run[i]) /\ ExactInv(i)

\* Nobody has started.
LEMMA InitIInv == Init => IInv
<1> SUFFICES ASSUME Init PROVE IInv
  OBVIOUS
<1>1. TypeOK
  BY ReleaseAssumption DEF Init, TypeOK, Runs, Inventories, States, Nothing, Absent, Residue,
     Newest, Steps, Before, Outcomes, StageStates, RootStates, Flaws, Kinds, Releases
<1>2. \A i \in Installers : RunInv(run[i]) /\ ExactInv(i)
  BY DEF Init, RunInv, StageInv, FlawInv, PhaseInv, ConsentInv, EndInv, ExactInv, Extracted,
     Changing, Before, Prepare, Mutate, Nothing
<1> QED BY <1>1, <1>2 DEF IInv

\* A process that ends leaves a record of the type.
LEMMA EndedTypes ==
  ASSUME TypeOK, NEW i \in Installers, NEW o \in Outcomes
  PROVE  Ended(i, o) \in Runs
<1>1. run[i] \in Runs
  BY DEF TypeOK
<1>2. Nothing \in Inventories /\ Newest \in 0 .. MaxRelease /\ "done" \in Steps
      /\ "none" \in Flaws /\ {} \in SUBSET Names
  BY ReleaseAssumption DEF States, Absent, Newest, Inventories, Nothing, Steps, Flaws
<1>3. /\ (IF o = "success" THEN run[i].selected ELSE 0) \in 0 .. MaxRelease
      /\ (IF run[i].changed THEN run[i].flaw ELSE "none") \in Flaws
  BY <1>1, <1>2, ReleaseAssumption DEF Runs
<1> QED BY <1>1, <1>2, <1>3, ZenonT(60) DEF Ended, Runs

\* and tells and leaves what it told and left.
LEMMA EndedKeeps ==
  ASSUME TypeOK, NEW i \in Installers, NEW o \in Outcomes
  PROVE  /\ Ended(i, o).stage = run[i].stage /\ Ended(i, o).root = run[i].root
         /\ Ended(i, o).told = run[i].told
  BY DEF Ended, TypeOK, Runs

\* So does one whose change, or whose neighbour's change, is noted.
LEMMA DisturbTypes ==
  ASSUME TypeOK, NEW i \in Installers
  PROVE  /\ Disturb(i) \in [Installers -> Runs]
         /\ Disturb(i)[i] = [run[i] EXCEPT !.changed = TRUE]
         /\ \A j \in Installers : j # i =>
                Disturb(i)[j] = [run[j] EXCEPT !.disturbed = run[j].verified]
<1>1. ASSUME NEW r \in Runs PROVE [r EXCEPT !.changed = TRUE] \in Runs
  BY <1>1 DEF Runs
<1>2. ASSUME NEW r \in Runs, NEW b \in BOOLEAN PROVE [r EXCEPT !.disturbed = b] \in Runs
  BY <1>2 DEF Runs
<1>3. \A j \in Installers : run[j] \in Runs /\ run[j].verified \in BOOLEAN
  BY DEF TypeOK, Runs
<1> QED BY <1>1, <1>2, <1>3 DEF Disturb

\* The types of an invocation's record after each of its steps.
LEMMA StepTypes ==
  ASSUME TypeOK, NEW i \in Installers, Step(i)
  PROVE  TypeOK' /\ (\A j \in Installers : j # i =>
            \/ run'[j] = run[j] /\ db' = db
            \/ run'[j] = [run[j] EXCEPT !.disturbed = run[j].verified])
<1> USE DEF TypeOK, At, Local, Goes, Fails, Ends, Handler, Command
<1>t. Absent \in States /\ Broken \in States /\ Newest \in 0 .. MaxRelease
      /\ Releases \subseteq States /\ Releases \subseteq 0 .. MaxRelease /\ Nothing \in Inventories
  BY ReleaseAssumption DEF States, Absent, Broken, Newest, Releases, Inventories, Nothing
<1>e. \A o \in Outcomes : Ended(i, o) \in Runs
  BY EndedTypes
<1>u. ASSUME NEW r \in Runs, run' = [run EXCEPT ![i] = r], UNCHANGED <<db, forge, others>>
      PROVE  TypeOK' /\ (\A j \in Installers : j # i => run'[j] = run[j])
  BY <1>u
<1> DEFINE Others == \A j \in Installers : j # i =>
            \/ run'[j] = run[j] /\ db' = db
            \/ run'[j] = [run[j] EXCEPT !.disturbed = run[j].verified]
<1>1. CASE Starts(i)
  <2>1. CASE Ends(i, "refused")
    BY <1>e, <2>1 DEF Outcomes
  <2>2. ASSUME NEW name \in Selectors, NEW rootless \in BOOLEAN,
               run' = [run EXCEPT ![i].pc = "detect", ![i].named = name,
                                  ![i].rootless = rootless],
               UNCHANGED <<db, forge, others>>
        PROVE  TypeOK' /\ Others
    <3> DEFINE r == [run[i] EXCEPT !.pc = "detect", !.named = name, !.rootless = rootless]
    <3>1. \A q \in Runs :
            [q EXCEPT !.pc = "detect", !.named = name, !.rootless = rootless] \in Runs
      BY ZenonT(60) DEF Runs, Steps, Before
    <3>2. run' = [run EXCEPT ![i] = r]
      BY <2>2
    <3>3. r \in Runs
      BY <3>1
    <3> HIDE DEF r
    <3> QED BY <1>u, <2>2, <3>2, <3>3
  <2> QED BY <1>1, <2>1, <2>2 DEF Starts
<1>2. CASE DetectsSystem(i)
  BY <1>t, <1>e, <1>2, ReleaseAssumption, SMTT(30) DEF DetectsSystem, Runs, Steps, Before, Prepare, Mutate, Finish, Outcomes, StageStates, RootStates, Flaws
<1>3. CASE ListsInventory(i)
  <2>1. CASE Ends(i, "refused")
    BY <1>e, <2>1 DEF Outcomes
  <2>2. ASSUME NEW pc \in Steps, NEW agreed \in BOOLEAN, Local,
               run' = [run EXCEPT ![i].confirmed = db, ![i].consented = agreed, ![i].pc = pc]
        PROVE  TypeOK' /\ Others
    <3> DEFINE r == [run[i] EXCEPT !.confirmed = db, !.consented = agreed, !.pc = pc]
    <3>1. \A q \in Runs :
            [q EXCEPT !.confirmed = db, !.consented = agreed, !.pc = pc] \in Runs
      BY DEF Runs
    <3>2. run' = [run EXCEPT ![i] = r]
      BY <2>2
    <3>3. r \in Runs
      BY <3>1
    <3> HIDE DEF r
    <3> QED BY <1>u, <2>2, <3>2, <3>3
  <2>3. /\ (Retained(db) = {}) \in BOOLEAN
        /\ (IF Retained(db) = {} THEN "sudo" ELSE "consent") \in Steps
    BY DEF Steps, Before
  <2> QED BY <1>3, <2>1, <2>2, <2>3 DEF ListsInventory
<1>4. CASE Consents(i)
  BY <1>t, <1>e, <1>4, ReleaseAssumption DEF Consents, Runs, Steps, Before, Prepare, Mutate, Finish, Outcomes, StageStates, RootStates, Flaws
<1>5. CASE RequiresSudo(i)
  BY <1>t, <1>e, <1>5, ReleaseAssumption DEF RequiresSudo, Runs, Steps, Before, Prepare, Mutate, Finish, Outcomes, StageStates, RootStates, Flaws
<1>6. CASE Resolves(i)
  BY <1>t, <1>e, <1>6, ReleaseAssumption DEF Resolves, Runs, Steps, Before, Prepare, Mutate, Finish, Outcomes, StageStates, RootStates, Flaws
<1>7. CASE MakesStage(i)
  <2>1. CASE run' = [run EXCEPT ![i].pc = "download", ![i].stage = "empty"]
    <3> DEFINE r == [run[i] EXCEPT !.pc = "download", !.stage = "empty"]
    <3>1. \A q \in Runs : [q EXCEPT !.pc = "download", !.stage = "empty"] \in Runs
      BY ZenonT(60) DEF Runs, Steps, Prepare, StageStates
    <3>2. r \in Runs
      BY <3>1
    <3> HIDE DEF r
    <3> QED BY <1>7, <1>u, <2>1, <3>2 DEF r, MakesStage
  <2>2. ASSUME NEW left \in {"none", "empty"},
               run' = [run EXCEPT ![i] = [Ended(i, "refused") EXCEPT !.stage = left]]
        PROVE  TypeOK' /\ Others
    <3> DEFINE r == [Ended(i, "refused") EXCEPT !.stage = left]
    <3>1. Ended(i, "refused") \in Runs
      BY <1>e DEF Outcomes
    <3>2. r \in Runs
      BY <3>1 DEF Runs, StageStates
    <3> HIDE DEF r
    <3> QED BY <1>7, <1>u, <2>2, <3>2 DEF r, MakesStage
  <2> QED BY <1>7, <2>1, <2>2 DEF MakesStage
<1>8. CASE Downloads(i)
  BY <1>t, <1>8, ReleaseAssumption DEF Downloads, Runs, Steps, Before, Prepare, Mutate, Finish, Outcomes, StageStates, RootStates, Flaws
<1>9. CASE Validates(i)
  BY <1>t, <1>9, ReleaseAssumption DEF Validates, Runs, Steps, Before, Prepare, Mutate, Finish, Outcomes, StageStates, RootStates, Flaws
<1>10. CASE Selects(i)
  BY <1>t, <1>10, ReleaseAssumption DEF Selects, Runs, Steps, Before, Prepare, Mutate, Finish, Outcomes, StageStates, RootStates, Flaws
<1>11. CASE Extracts(i)
  BY <1>t, <1>11, ReleaseAssumption DEF Extracts, Runs, Steps, Before, Prepare, Mutate, Finish, Outcomes, StageStates, RootStates, Flaws
<1>12. CASE VerifiesMetadata(i)
  BY <1>t, <1>12, ReleaseAssumption DEF VerifiesMetadata, Runs, Steps, Before, Prepare, Mutate, Finish, Outcomes, StageStates, RootStates, Flaws
<1>13. CASE MakesRootDirectory(i)
  BY <1>t, <1>13, ReleaseAssumption DEF MakesRootDirectory, Runs, Steps, Before, Prepare, Mutate, Finish, Outcomes, StageStates, RootStates, Flaws
<1>14. CASE IdentifiesRootDirectory(i)
  BY <1>t, <1>14, ReleaseAssumption DEF IdentifiesRootDirectory, Runs, Steps, Before, Prepare, Mutate, Finish, Outcomes, StageStates, RootStates, Flaws
<1>15. CASE CopiesToRoot(i)
  BY <1>t, <1>15, ReleaseAssumption DEF CopiesToRoot, Runs, Steps, Before, Prepare, Mutate, Finish, Outcomes, StageStates, RootStates, Flaws
<1>16. CASE InspectsCopies(i)
  BY <1>t, <1>16, ReleaseAssumption DEF InspectsCopies, Runs, Steps, Before, Prepare, Mutate, Finish, Outcomes, StageStates, RootStates, Flaws
<1>17. CASE RemovesCopies(i)
  BY <1>t, <1>17, ReleaseAssumption DEF RemovesCopies, Runs, Steps, Before, Prepare, Mutate, Finish, Outcomes, StageStates, RootStates, Flaws
<1>18. CASE Refreshes(i)
  BY <1>t, <1>18, ReleaseAssumption DEF Refreshes, Runs, Steps, Before, Prepare, Mutate, Finish, Outcomes, StageStates, RootStates, Flaws
<1>19. CASE Simulates(i)
  BY <1>t, <1>19, ReleaseAssumption DEF Simulates, Runs, Steps, Before, Prepare, Mutate, Finish, Outcomes, StageStates, RootStates, Flaws
<1>20. CASE Rechecks(i)
  BY <1>t, <1>20, ReleaseAssumption DEF Rechecks, Runs, Steps, Before, Prepare, Mutate, Finish, Outcomes, StageStates, RootStates, Flaws
<1>21. CASE Purges(i)
  <2> DEFINE names == Retained(run[i].prepurge)
  <2>1. names \subseteq Names
    BY DEF Retained
  <2>2. CASE run' = [run EXCEPT ![i].pc = "purged"] /\ UNCHANGED <<db, forge, others>>
    BY <2>2 DEF Runs, Steps, Mutate
  <2>3. ASSUME NEW new \in [names -> States], NEW next \in {"purged", "diagnose"},
               db' = [n \in Names |-> IF n \in names THEN new[n] ELSE db[n]],
               run' = [Disturb(i) EXCEPT ![i].pc = next, ![i].purged = names],
               UNCHANGED <<forge, others>>
        PROVE  TypeOK' /\ Others
    <3>1. db' \in Inventories
      BY <1>t, <2>3 DEF Inventories
    <3>2. /\ Disturb(i) \in [Installers -> Runs]
          /\ \A j \in Installers : j # i =>
                Disturb(i)[j] = [run[j] EXCEPT !.disturbed = run[j].verified]
      BY DisturbTypes
    <3> DEFINE r == [Disturb(i)[i] EXCEPT !.pc = next, !.purged = names]
    <3>4. \A q \in Runs : [q EXCEPT !.pc = next, !.purged = names] \in Runs
      BY <2>1, <2>3, ZenonT(60) DEF Runs, Steps, Mutate, Finish
    <3>5. run' = [Disturb(i) EXCEPT ![i] = r]
      BY <2>3, <3>2
    <3>6. r \in Runs
      BY <3>2, <3>4
    <3> HIDE DEF r
    <3>3. run' \in [Installers -> Runs] /\ Others
      BY <3>2, <3>5, <3>6
    <3> QED BY <2>3, <3>1, <3>3
  <2> QED BY <1>21, <2>1, <2>2, <2>3 DEF Purges
<1>22. CASE ProvesPurged(i)
  BY <1>t, <1>22, ReleaseAssumption DEF ProvesPurged, Runs, Steps, Before, Prepare, Mutate, Finish, Outcomes, StageStates, RootStates, Flaws
<1>23. CASE Installs(i)
  <2>2. ASSUME NEW new \in [Required -> States], NEW next \in {"verify", "diagnose"},
               db' = [n \in Names |-> IF n \in Required THEN new[n] ELSE db[n]],
               run' = [Disturb(i) EXCEPT ![i].pc = next],
               UNCHANGED <<forge, others>>
        PROVE  TypeOK' /\ Others
    <3>1. db' \in Inventories
      BY <2>2 DEF Inventories
    <3>2. /\ Disturb(i) \in [Installers -> Runs]
          /\ \A j \in Installers : j # i =>
                Disturb(i)[j] = [run[j] EXCEPT !.disturbed = run[j].verified]
      BY DisturbTypes
    <3> DEFINE r == [Disturb(i)[i] EXCEPT !.pc = next]
    <3>3. \A q \in Runs : [q EXCEPT !.pc = next] \in Runs
      BY <2>2 DEF Runs, Steps, Mutate, Finish
    <3>4. run' = [Disturb(i) EXCEPT ![i] = r]
      BY <2>2, <3>2
    <3>5. r \in Runs
      BY <3>2, <3>3
    <3> HIDE DEF r
    <3>6. run' \in [Installers -> Runs] /\ Others
      BY <3>2, <3>4, <3>5
    <3> QED BY <2>2, <3>1, <3>6
  <2> QED BY <1>23, <2>2 DEF Installs
<1>24. CASE Verifies(i)
  BY <1>t, <1>24, ReleaseAssumption DEF Verifies, Runs, Steps, Before, Prepare, Mutate, Finish, Outcomes, StageStates, RootStates, Flaws
<1>25. CASE ChecksCurrent(i)
  BY <1>t, <1>25, ReleaseAssumption DEF ChecksCurrent, Runs, Steps, Before, Prepare, Mutate, Finish, Outcomes, StageStates, RootStates, Flaws
<1>26. CASE Diagnoses(i)
  BY <1>t, <1>e, <1>26, ReleaseAssumption, SMTT(30) DEF Diagnoses, Runs, Steps, Before, Prepare, Mutate, Finish, Outcomes, StageStates, RootStates, Flaws
<1>27. CASE Records(i)
  <2>1. PICK left \in {"none", "empty", run[i].stage} :
          run' = [run EXCEPT ![i].pc = "report", ![i].stage = left] /\ Local
    BY <1>27 DEF Records
  <2>2. left \in StageStates
    BY DEF Runs, StageStates
  <2> DEFINE r == [run[i] EXCEPT !.pc = "report", !.stage = left]
  <2>3. \A q \in Runs : [q EXCEPT !.pc = "report", !.stage = left] \in Runs
    BY <2>2, ZenonT(60) DEF Runs, Steps, Finish
  <2>4. run' = [run EXCEPT ![i] = r]
    BY <2>1
  <2>5. r \in Runs
    BY <2>3
  <2> HIDE DEF r
  <2> QED BY <1>u, <2>1, <2>4, <2>5
<1>28. CASE Reports(i)
  BY <1>t, <1>e, <1>28, ReleaseAssumption DEF Reports, Runs, Steps, Before, Prepare, Mutate, Finish, Outcomes, StageStates, RootStates, Flaws
<1>29. CASE Abandons(i)
  <2>1. CASE Ends(i, "leftover")
    BY <1>e, <2>1 DEF Outcomes
  <2>2. ASSUME NEW left \in StageStates, NEW root \in RootStates, Local,
               run' = [run EXCEPT ![i] =
                         [Ended(i, "preflight") EXCEPT !.stage = left, !.root = root]]
        PROVE  TypeOK' /\ Others
    <3> DEFINE r == [Ended(i, "preflight") EXCEPT !.stage = left, !.root = root]
    <3>1. Ended(i, "preflight") \in Runs
      BY <1>e DEF Outcomes
    <3>2. r \in Runs
      BY <3>1 DEF Runs
    <3> HIDE DEF r
    <3> QED BY <1>u, <2>2, <3>2 DEF r
  <2>3. /\ run[i].stage \in StageStates /\ {"none", "empty"} \subseteq StageStates
        /\ (IF run[i].payload THEN "none" ELSE run[i].root) \in RootStates
    BY DEF Runs, StageStates, RootStates
  <2> QED BY <1>29, <2>1, <2>2, <2>3 DEF Abandons
<1>30. CASE CleansRoot(i)
  BY <1>t, <1>30, ReleaseAssumption DEF CleansRoot, Runs, Steps, Before, Prepare, Mutate, Finish, Outcomes, StageStates, RootStates, Flaws
<1>31. CASE CleansStage(i)
  BY <1>t, <1>e, <1>31, ReleaseAssumption, SMTT(30) DEF CleansStage, Runs, Steps, Before, Prepare, Mutate, Finish, Outcomes, StageStates, RootStates, Flaws
<1> QED BY <1>1, <1>2, <1>3, <1>4, <1>5, <1>6, <1>7, <1>8, <1>9, <1>10, <1>11, <1>12, <1>13, <1>14, <1>15, <1>16, <1>17, <1>18, <1>19, <1>20, <1>21, <1>22, <1>23, <1>24, <1>25, <1>26, <1>27, <1>28, <1>29, <1>30, <1>31 DEF Step

\* What is known of an invocation that ends, from what it ends with.
LEMMA EndedInv ==
  ASSUME TypeOK, NEW i \in Installers, RunInv(run[i]), run[i].pc # "done", NEW o \in Outcomes,
         o \in {"refused", "cancelled", "preflight"} => ~run[i].changed,
         o = "success" => run[i].verified,
         run[i].changed /\ ~run[i].verified => run[i].stage = "payload" \/ run[i].root = "payload",
         NEW left \in StageStates, NEW root \in RootStates,
         run[i].changed /\ ~run[i].verified => left = "payload" \/ root = "payload",
         o = "success" => left = "none" /\ root = "none",
         NEW told \in {"nowhere", "stage", "root"},
         told = "stage" => left = "payload",
         told = "root" => root = "payload"
  PROVE  RunInv([Ended(i, o) EXCEPT !.stage = left, !.root = root, !.told = told])
<1> DEFINE e == [Ended(i, o) EXCEPT !.stage = left, !.root = root, !.told = told]
<1>1. Ended(i, o) \in Runs
  BY EndedTypes
<1>2. /\ Ended(i, o).pc = "done" /\ Ended(i, o).outcome = o /\ Ended(i, o).payload = FALSE
      /\ Ended(i, o).changed = run[i].changed /\ Ended(i, o).verified = run[i].verified
      /\ Ended(i, o).flaw \in {run[i].flaw, "none"}
  BY DEF Ended, TypeOK, Runs
<1>3. /\ e.pc = "done" /\ e.outcome = o /\ e.payload = FALSE
      /\ e.changed = run[i].changed /\ e.verified = run[i].verified
      /\ e.flaw \in {run[i].flaw, "none"} /\ e.stage = left /\ e.root = root /\ e.told = told
  BY <1>1, <1>2 DEF Runs
<1> HIDE DEF e
<1>4. StageInv(e) /\ PhaseInv(e) /\ ConsentInv(e)
  BY <1>3 DEF StageInv, PhaseInv, ConsentInv, Extracted, Before, Prepare, Mutate, RunInv
<1>5. FlawInv(e)
  BY <1>3 DEF FlawInv, RunInv, Changing, Mutate
<1>6. EndInv(e)
  BY <1>3 DEF EndInv
<1> QED BY <1>4, <1>5, <1>6 DEF RunInv, e

\* The plain end: nothing on disk is touched.
LEMMA EndsInv ==
  ASSUME TypeOK, NEW i \in Installers, RunInv(run[i]), NEW o \in Outcomes, Ends(i, o),
         \/ o \in {"refused", "cancelled"} /\ run[i].pc \in Before
         \/ o \in {"raw", "leftover"} /\ run[i].pc \in {"diagnose", "abandon", "clear"}
  PROVE  RunInv(run'[i])
<1>1. run[i] \in Runs /\ Ended(i, o) \in Runs
  BY EndedTypes DEF TypeOK
<1>2. run'[i] = Ended(i, o)
  BY DEF Ends, TypeOK
<1>3. Ended(i, o) = [Ended(i, o) EXCEPT !.stage = run[i].stage, !.root = run[i].root,
                                        !.told = run[i].told]
  <2>1. \A e \in Runs : e = [e EXCEPT !.stage = e.stage, !.root = e.root, !.told = e.told]
    BY DEF Runs
  <2> QED BY <1>1, <2>1, EndedKeeps
<1>4. /\ run[i].stage \in StageStates /\ run[i].root \in RootStates
      /\ run[i].told = "nowhere" /\ run[i].pc # "done"
      /\ run[i].pc \in Before => ~run[i].changed
      /\ run[i].pc \in Before => run[i].stage = "none" /\ run[i].root = "none"
      /\ run[i].changed /\ ~run[i].verified => run[i].stage = "payload" \/ run[i].root = "payload"
  BY <1>1 DEF Runs, RunInv, StageInv, PhaseInv, EndInv, Before
<1>5. /\ o \in {"refused", "cancelled", "preflight"} => ~run[i].changed
      /\ o # "success"
  BY <1>4
<1>6. RunInv([Ended(i, o) EXCEPT !.stage = run[i].stage, !.root = run[i].root,
                                 !.told = run[i].told])
  BY <1>4, <1>5, EndedInv
<1> QED BY <1>2, <1>3, <1>6

\* Each step keeps what is known of its own invocation.
LEMMA RunStep ==
  ASSUME TypeOK, NEW i \in Installers, RunInv(run[i]), Step(i)
  PROVE  RunInv(run'[i])
<1> USE DEF TypeOK, At, Local, Goes, Fails, Handler, Command,
            RunInv, StageInv, FlawInv, PhaseInv, ConsentInv, EndInv,
            Extracted, Changing, Before, Prepare, Mutate
<1>d. /\ Disturb(i) \in [Installers -> Runs]
      /\ Disturb(i)[i] = [run[i] EXCEPT !.changed = TRUE]
  BY DisturbTypes
<1>r. run[i] \in Runs
  OBVIOUS
<1>o. /\ \A o \in {"refused", "cancelled"} :
            Ends(i, o) /\ run[i].pc \in Before => RunInv(run'[i])
      /\ \A o \in {"raw", "leftover"} :
            Ends(i, o) /\ run[i].pc \in {"diagnose", "abandon", "clear"} => RunInv(run'[i])
  BY EndsInv DEF Outcomes
<1>1. CASE Starts(i)
  <2>1. CASE Ends(i, "refused")
    BY <1>o, <1>1, <2>1 DEF Starts
  <2>2. ASSUME NEW name \in Selectors, NEW rootless \in BOOLEAN,
               run' = [run EXCEPT ![i].pc = "detect", ![i].named = name,
                                  ![i].rootless = rootless]
        PROVE  RunInv(run'[i])
    BY <1>r, <1>1, <2>2, ZenonT(60) DEF Starts, Runs
  <2> QED BY <1>1, <2>1, <2>2 DEF Starts
<1>2. CASE DetectsSystem(i)
  BY <1>r, <1>o, <1>2 DEF DetectsSystem, Runs, Flaws, StageStates, RootStates
<1>3. CASE ListsInventory(i)
  <2>1. CASE Ends(i, "refused")
    BY <1>o, <1>3, <2>1 DEF ListsInventory
  <2>2. ASSUME NEW agreed \in BOOLEAN, NEW pc \in {"sudo", "consent"}, pc = "sudo" => agreed,
               run' = [run EXCEPT ![i].confirmed = db, ![i].consented = agreed, ![i].pc = pc]
        PROVE  RunInv(run'[i])
    BY <1>r, <1>3, <2>2 DEF ListsInventory, Runs
  <2>3. /\ (Retained(db) = {}) \in BOOLEAN
        /\ (IF Retained(db) = {} THEN "sudo" ELSE "consent") \in {"sudo", "consent"}
        /\ (IF Retained(db) = {} THEN "sudo" ELSE "consent") = "sudo" => Retained(db) = {}
    OBVIOUS
  <2> QED BY <1>3, <2>1, <2>2, <2>3 DEF ListsInventory
<1>4. CASE Consents(i)
  BY <1>r, <1>o, <1>4 DEF Consents, Runs, Flaws, StageStates, RootStates
<1>5. CASE RequiresSudo(i)
  BY <1>r, <1>o, <1>5 DEF RequiresSudo, Runs, Flaws, StageStates, RootStates
<1>6. CASE Resolves(i)
  BY <1>r, <1>o, <1>6 DEF Resolves, Runs, Flaws, StageStates, RootStates
<1>7. CASE MakesStage(i)
  <2>1. CASE run' = [run EXCEPT ![i].pc = "download", ![i].stage = "empty"]
    BY <1>r, <1>7, <2>1 DEF MakesStage, Runs
  <2>2. ASSUME NEW left \in {"none", "empty"},
               run' = [run EXCEPT ![i] = [Ended(i, "refused") EXCEPT !.stage = left]]
        PROVE  RunInv(run'[i])
    <3>1. PICK e \in Runs : /\ e = Ended(i, "refused") /\ e.root = run[i].root
                            /\ e.told = run[i].told
      BY EndedTypes, EndedKeeps DEF Outcomes
    <3>2. /\ run[i].pc = "stage" /\ ~run[i].changed /\ run[i].told = "nowhere"
          /\ run[i].root \in RootStates /\ left \in StageStates /\ "refused" \in Outcomes
      BY <1>r, <1>7, <2>2 DEF MakesStage, Runs, StageStates, Outcomes
    <3>3. run'[i] = [Ended(i, "refused") EXCEPT !.stage = left, !.root = run[i].root,
                                                !.told = "nowhere"]
      BY <2>2, <3>1, <3>2, ZenonT(60) DEF Runs
    <3> QED BY <3>2, <3>3, EndedInv, SMTT(30)
  <2> QED BY <1>7, <2>1, <2>2 DEF MakesStage
<1>8. CASE Downloads(i)
  BY <1>r, <1>8 DEF Downloads, Runs, Flaws, StageStates, RootStates
<1>9. CASE Validates(i)
  BY <1>r, <1>9 DEF Validates, PlainMembers, Manifested, Flawless, Runs, Flaws, StageStates, RootStates
<1>10. CASE Selects(i)
  BY <1>r, <1>10 DEF Selects, Flawless, Runs, Flaws, StageStates, RootStates
<1>11. CASE Extracts(i)
  BY <1>r, <1>11 DEF Extracts, Runs, Flaws, StageStates, RootStates
<1>12. CASE VerifiesMetadata(i)
  BY <1>r, <1>12 DEF VerifiesMetadata, Controlled, Flawless, Runs, Flaws, StageStates, RootStates
<1>13. CASE MakesRootDirectory(i)
  BY <1>r, <1>13 DEF MakesRootDirectory, Runs, Flaws, StageStates, RootStates
<1>14. CASE IdentifiesRootDirectory(i)
  BY <1>r, <1>14 DEF IdentifiesRootDirectory, Runs, Flaws, StageStates, RootStates
<1>15. CASE CopiesToRoot(i)
  BY <1>r, <1>15 DEF CopiesToRoot, Runs, Flaws, StageStates, RootStates
<1>16. CASE InspectsCopies(i)
  BY <1>r, <1>16 DEF InspectsCopies, Controlled, Flawless, Runs, Flaws, StageStates, RootStates
<1>17. CASE RemovesCopies(i)
  BY <1>r, <1>17 DEF RemovesCopies, Runs, Flaws, StageStates, RootStates
<1>18. CASE Refreshes(i)
  BY <1>r, <1>18 DEF Refreshes, Runs, Flaws, StageStates, RootStates
<1>19. CASE Simulates(i)
  BY <1>r, <1>19 DEF Simulates, Flawless, Runs, Flaws, StageStates, RootStates
<1>20. CASE Rechecks(i)
  BY <1>r, <1>20 DEF Rechecks, Runs, Flaws, StageStates, RootStates
<1>21. CASE Purges(i)
  <2>1. CASE run' = [run EXCEPT ![i].pc = "purged"]
    BY <1>r, <1>21, <2>1 DEF Purges, Runs
  <2>2. ASSUME NEW next \in {"purged", "diagnose"},
               run' = [Disturb(i) EXCEPT ![i].pc = next, ![i].purged = Retained(run[i].prepurge)]
        PROVE  RunInv(run'[i])
    BY <1>r, <1>d, <1>21, <2>2 DEF Purges, Runs, Flaws, StageStates, RootStates
  <2> QED BY <1>21, <2>1, <2>2 DEF Purges
<1>22. CASE ProvesPurged(i)
  BY <1>r, <1>22 DEF ProvesPurged, Runs, Flaws, StageStates, RootStates
<1>23. CASE Installs(i)
  BY <1>r, <1>23, <1>d DEF Installs, Runs, Flaws, StageStates, RootStates
<1>24. CASE Verifies(i)
  BY <1>r, <1>24 DEF Verifies, Flawless, Runs, Flaws, StageStates, RootStates
<1>25. CASE ChecksCurrent(i)
  BY <1>r, <1>25 DEF ChecksCurrent, Runs, Flaws, StageStates, RootStates
<1>26. CASE Diagnoses(i)
  BY <1>r, <1>o, <1>26 DEF Diagnoses, Runs, Flaws, StageStates, RootStates
<1>27. CASE Records(i)
  BY <1>r, <1>27 DEF Records, Runs, Flaws, StageStates, RootStates
<1>28. CASE Reports(i)
  <2> DEFINE told == IF run[i].payload THEN "root" ELSE "stage"
  <2>1. run' = [run EXCEPT ![i] = [Ended(i, "failed") EXCEPT !.told = told]]
    BY <1>28 DEF Reports
  <2>2. PICK e \in Runs : e = Ended(i, "failed") /\ e.stage = run[i].stage /\ e.root = run[i].root
    BY EndedTypes, EndedKeeps DEF Outcomes
  <2>3. run'[i] = [Ended(i, "failed") EXCEPT !.stage = run[i].stage, !.root = run[i].root,
                                             !.told = told]
    BY <2>1, <2>2, ZenonT(60) DEF Runs
  <2>4. /\ run[i].stage \in StageStates /\ run[i].root \in RootStates /\ "failed" \in Outcomes
        /\ told \in {"nowhere", "stage", "root"} /\ run[i].pc = "report"
        /\ told = "stage" => run[i].stage = "payload"
        /\ told = "root" => run[i].root = "payload"
        /\ run[i].stage = "payload" \/ run[i].root = "payload"
    BY <1>28, <1>r DEF Reports, Runs, Outcomes
  <2> HIDE DEF told
  <2> QED BY <2>3, <2>4, EndedInv, SMTT(30)
<1>29. CASE Abandons(i)
  <2>1. CASE Ends(i, "leftover")
    BY <1>o, <1>29, <2>1 DEF Abandons
  <2>2. ASSUME NEW left \in {"none", "empty", run[i].stage}, NEW root \in RootStates,
               run' = [run EXCEPT ![i] =
                         [Ended(i, "preflight") EXCEPT !.stage = left, !.root = root]]
        PROVE  RunInv(run'[i])
    <3>1. PICK e \in Runs : e = Ended(i, "preflight") /\ e.told = run[i].told
      BY EndedTypes, EndedKeeps DEF Outcomes
    <3>2. /\ "preflight" \in Outcomes /\ left \in StageStates
          /\ ~run[i].changed /\ run[i].pc = "abandon" /\ run[i].told = "nowhere"
      BY <1>29, <1>r, <2>2 DEF Abandons, Outcomes, Runs, StageStates
    <3>3. run'[i] = [Ended(i, "preflight") EXCEPT !.stage = left, !.root = root,
                                                  !.told = "nowhere"]
      BY <2>2, <3>1, <3>2, ZenonT(60) DEF Runs
    <3> QED BY <3>2, <3>3, EndedInv, SMTT(30)
  <2>3. (IF run[i].payload THEN "none" ELSE run[i].root) \in RootStates
    BY <1>r DEF Runs, RootStates
  <2> QED BY <1>29, <2>1, <2>2, <2>3 DEF Abandons
<1>30. CASE CleansRoot(i)
  BY <1>r, <1>30 DEF CleansRoot, Runs, Flaws, StageStates, RootStates
<1>31. CASE CleansStage(i)
  <2>1. CASE Ends(i, "leftover")
    BY <1>o, <1>31, <2>1 DEF CleansStage
  <2>2. CASE run' = [run EXCEPT ![i] = [Ended(i, run[i].outcome) EXCEPT !.stage = "none"]]
    <3>1. /\ run[i].outcome \in Outcomes /\ run[i].outcome \in {"success", "leftover"}
          /\ run[i].verified /\ run[i].told = "nowhere" /\ run[i].pc = "clear"
          /\ run[i].outcome = "success" => run[i].root = "none"
          /\ run[i].root \in RootStates /\ "none" \in StageStates
      BY <1>31, <1>r DEF CleansStage, Runs, StageStates
    <3>2. PICK e \in Runs : e = Ended(i, run[i].outcome) /\ e.told = run[i].told /\ e.root = run[i].root
      BY <3>1, EndedTypes, EndedKeeps
    <3>3. run'[i] = [Ended(i, run[i].outcome) EXCEPT !.stage = "none", !.root = run[i].root,
                                                     !.told = "nowhere"]
      BY <2>2, <3>1, <3>2, ZenonT(60) DEF Runs
    <3> QED BY <3>1, <3>3, EndedInv, SMTT(30)
  <2> QED BY <1>31, <2>1, <2>2 DEF CleansStage
<1> QED BY <1>1, <1>2, <1>3, <1>4, <1>5, <1>6, <1>7, <1>8, <1>9, <1>10, <1>11, <1>12, <1>13, <1>14, <1>15, <1>16, <1>17, <1>18, <1>19, <1>20, <1>21, <1>22, <1>23, <1>24, <1>25, <1>26, <1>27, <1>28, <1>29, <1>30, <1>31 DEF Step

\* Changing what is known of others keeps everything else that is known of them.
LEMMA DisturbedInv ==
  ASSUME NEW r \in Runs, RunInv(r)
  PROVE  RunInv([r EXCEPT !.disturbed = r.verified])
  BY DEF Runs, RunInv, StageInv, FlawInv, PhaseInv, ConsentInv, EndInv

\* A step of an invocation keeps what its own verification showed: it changes the
\* database only where that is still to come.
LEMMA ExactOwn ==
  ASSUME IInv, NEW i \in Installers, Step(i)
  PROVE  ExactInv(i)'
<1> USE DEF IInv, TypeOK, At, Local, Goes, Fails, Ends, Command, Handler
<1> DEFINE Shown == run'[i].pc \in {"current", "cleanup", "clear"} \/ run'[i].outcome = "success"
<1>r. /\ run[i] \in Runs /\ ExactInv(i)
      /\ run[i].pc \notin {"clear", "done"} => run[i].outcome = "none"
      /\ \A o \in Outcomes : Ended(i, o).pc = "done" /\ Ended(i, o).outcome = o
  BY DEF RunInv, PhaseInv, Ended, Runs
<1>d. Disturb(i) \in [Installers -> Runs] /\ Disturb(i)[i] = [run[i] EXCEPT !.changed = TRUE]
  BY DisturbTypes
<1>1. CASE Verifies(i)
  BY <1>r, <1>1 DEF Verifies, ExactInv, Runs
<1>2. CASE ChecksCurrent(i)
  BY <1>r, <1>2 DEF ChecksCurrent, ExactInv, Runs
<1>3. CASE CleansRoot(i)
  BY <1>r, <1>3 DEF CleansRoot, ExactInv, Runs
<1>4. CASE CleansStage(i)
  <2>1. CASE Ends(i, "leftover")
    BY <1>r, <2>1 DEF ExactInv, Outcomes
  <2>2. CASE run' = [run EXCEPT ![i] = [Ended(i, run[i].outcome) EXCEPT !.stage = "none"]] /\ db' = db
    <3>1. PICK e \in Runs : e = Ended(i, run[i].outcome) /\ e.outcome = run[i].outcome
                            /\ e.verified = run[i].verified /\ e.disturbed = run[i].disturbed
                            /\ (e.outcome = "success" => e.selected = run[i].selected)
                            /\ e.pc = "done"
      <4>1. run[i].outcome \in Outcomes
        BY <1>r DEF Runs
      <4>2. LET e == Ended(i, run[i].outcome)
            IN  /\ e.outcome = run[i].outcome /\ e.pc = "done"
                /\ e.verified = run[i].verified /\ e.disturbed = run[i].disturbed
                /\ (e.outcome = "success" => e.selected = run[i].selected)
        BY <1>r DEF Ended, Runs
      <4> QED BY <4>1, <4>2, EndedTypes
    <3>2. run'[i] = [e EXCEPT !.stage = "none"]
      BY <2>2, <3>1
    <3>3. /\ run'[i].verified = run[i].verified /\ run'[i].disturbed = run[i].disturbed
          /\ run'[i].outcome = run[i].outcome /\ run'[i].pc = "done"
          /\ run'[i].outcome = "success" => run'[i].selected = run[i].selected
      BY <3>1, <3>2 DEF Runs
    <3> QED BY <1>4, <1>r, <2>2, <3>3 DEF CleansStage, ExactInv
  <2> QED BY <1>4, <2>1, <2>2 DEF CleansStage
<1>5. ASSUME ~Verifies(i), ~ChecksCurrent(i), ~CleansRoot(i), ~CleansStage(i) PROVE ~Shown
  <2>1. CASE DetectsSystem(i) \/ Consents(i) \/ RequiresSudo(i) \/ Resolves(i)
    BY <1>r, <2>1 DEF DetectsSystem, Consents, RequiresSudo, Resolves, Runs, Outcomes
  <2>11. CASE MakesStage(i)
    <3>1. PICK e \in Runs : e = Ended(i, "refused") /\ e.outcome = "refused" /\ e.pc = "done"
      BY <1>r, EndedTypes DEF Outcomes
    <3> QED BY <1>r, <2>11, <3>1 DEF MakesStage, Runs
  <2>9. CASE Starts(i)
    <3>1. CASE Ends(i, "refused")
      BY <1>r, <3>1 DEF Outcomes
    <3>2. ASSUME NEW name \in Selectors, NEW rootless \in BOOLEAN,
                 run' = [run EXCEPT ![i].pc = "detect", ![i].named = name,
                                    ![i].rootless = rootless]
          PROVE  ~Shown
      BY <1>r, <2>9, <3>2 DEF Starts, Runs
    <3> QED BY <2>9, <3>1, <3>2 DEF Starts
  <2>10. CASE ListsInventory(i)
    <3>1. CASE Ends(i, "refused")
      BY <1>r, <3>1 DEF Outcomes
    <3>2. ASSUME NEW agreed \in BOOLEAN, NEW pc \in {"sudo", "consent"},
                 run' = [run EXCEPT ![i].confirmed = db, ![i].consented = agreed, ![i].pc = pc]
          PROVE  ~Shown
      BY <1>r, <2>10, <3>2 DEF ListsInventory, Runs
    <3>3. /\ (Retained(db) = {}) \in BOOLEAN
          /\ (IF Retained(db) = {} THEN "sudo" ELSE "consent") \in {"sudo", "consent"}
      OBVIOUS
    <3> QED BY <2>10, <3>1, <3>2, <3>3 DEF ListsInventory
  <2>2. CASE Downloads(i) \/ Validates(i) \/ Selects(i) \/ Extracts(i) \/ VerifiesMetadata(i)
    BY <1>r, <2>2 DEF Downloads, Validates, Selects, Extracts, VerifiesMetadata, Runs, Outcomes
  <2>3. CASE MakesRootDirectory(i) \/ IdentifiesRootDirectory(i) \/ CopiesToRoot(i) \/ InspectsCopies(i) \/ RemovesCopies(i)
    BY <1>r, <2>3 DEF MakesRootDirectory, IdentifiesRootDirectory, CopiesToRoot, InspectsCopies, RemovesCopies, Runs, Outcomes
  <2>4. CASE Refreshes(i) \/ Simulates(i) \/ Rechecks(i) \/ ProvesPurged(i)
    BY <1>r, <2>4 DEF Refreshes, Simulates, Rechecks, ProvesPurged, Runs, Outcomes
  <2>5. CASE Diagnoses(i) \/ Records(i)
    BY <1>r, <2>5 DEF Diagnoses, Records, Runs, Outcomes
  <2>6. CASE Purges(i) \/ Installs(i)
    <3>1. run[i].outcome = "none" /\ Disturb(i)[i] \in Runs /\ Disturb(i)[i].outcome = "none"
      BY <1>r, <1>d, <2>6 DEF Purges, Installs, Runs
    <3>2. CASE run' = [run EXCEPT ![i].pc = "purged"]
      BY <1>r, <3>1, <3>2 DEF Runs
    <3>3. ASSUME NEW next \in {"purged", "diagnose"}, NEW names,
                 run' = [Disturb(i) EXCEPT ![i].pc = next, ![i].purged = names]
          PROVE  ~Shown
      BY <1>d, <3>1, <3>3 DEF Runs
    <3>4. ASSUME NEW next \in {"verify", "diagnose"}, run' = [Disturb(i) EXCEPT ![i].pc = next]
          PROVE  ~Shown
      BY <1>d, <3>1, <3>4 DEF Runs
    <3> QED BY <2>6, <3>2, <3>3, <3>4 DEF Purges, Installs
  <2>7. CASE Reports(i)
    <3>1. PICK e \in Runs : e = Ended(i, "failed") /\ e.outcome = "failed" /\ e.pc = "done"
      BY <1>r, EndedTypes DEF Outcomes
    <3> QED BY <2>7, <3>1 DEF Reports, Runs
  <2>8. CASE Abandons(i)
    <3>1. CASE Ends(i, "leftover")
      BY <1>r, <3>1 DEF Outcomes
    <3>2. ASSUME NEW left, NEW root,
                 run' = [run EXCEPT ![i] =
                           [Ended(i, "preflight") EXCEPT !.stage = left, !.root = root]]
          PROVE  ~Shown
      <4>1. PICK e \in Runs : e = Ended(i, "preflight") /\ e.outcome = "preflight" /\ e.pc = "done"
        BY <1>r, EndedTypes DEF Outcomes
      <4> QED BY <3>2, <4>1 DEF Runs
    <3> QED BY <2>8, <3>1, <3>2 DEF Abandons
  <2> QED BY <1>5, <2>1, <2>2, <2>3, <2>4, <2>5, <2>6, <2>7, <2>8, <2>9, <2>10, <2>11 DEF Step
<1>6. ~Shown => ExactInv(i)'
  BY DEF ExactInv
<1> QED BY <1>1, <1>2, <1>3, <1>4, <1>5, <1>6

\* A change of the database by another invocation is noted.
LEMMA ExactOther ==
  ASSUME IInv, NEW i \in Installers, Step(i), NEW j \in Installers, j # i
  PROVE  ExactInv(j)'
<1>1. PICK r \in Runs : r = run[j]
  BY DEF IInv, TypeOK
<1>2. CASE run'[j] = r /\ db' = db
  BY <1>1, <1>2 DEF IInv, ExactInv
<1>3. CASE run'[j] = [r EXCEPT !.disturbed = r.verified]
  BY <1>3 DEF ExactInv, Runs
<1> QED BY <1>1, <1>2, <1>3, StepTypes DEF IInv

\* Every step keeps the invariant.
LEMMA NextIInv == IInv /\ [Next]_vars => IInv'
<1> SUFFICES ASSUME IInv, [Next]_vars PROVE IInv'
  OBVIOUS
<1>1. ASSUME NEW i \in Installers, Step(i) PROVE IInv'
  <2>1. TypeOK'
    BY <1>1, StepTypes DEF IInv
  <2>2. ASSUME NEW j \in Installers PROVE RunInv(run'[j]) /\ ExactInv(j)'
    <3>1. CASE j = i
      BY <1>1, <3>1, RunStep, ExactOwn DEF IInv
    <3>2. CASE j # i
      <4>1. run[j] \in Runs /\ RunInv(run[j])
        BY DEF IInv, TypeOK
      <4>2. run'[j] \in {run[j], [run[j] EXCEPT !.disturbed = run[j].verified]}
        BY <1>1, <3>2, StepTypes DEF IInv
      <4>3. RunInv(run'[j])
        BY <4>1, <4>2, DisturbedInv
      <4> QED BY <1>1, <3>2, <4>3, ExactOther
    <3> QED BY <3>1, <3>2
  <2>3. \A j \in Installers : RunInv(run[j])' /\ ExactInv(j)'
    BY <2>2
  <2> QED BY <2>1, <2>3 DEF IInv
<1>2. CASE Foreign
  <2>1. run' \in [Installers -> Runs] /\ \A j \in Installers :
            run'[j] = [run[j] EXCEPT !.disturbed = run[j].verified] /\ run[j] \in Runs
    <3>1. ASSUME NEW r \in Runs PROVE [r EXCEPT !.disturbed = r.verified] \in Runs
      BY DEF Runs
    <3> QED BY <1>2, <3>1 DEF Foreign, IInv, TypeOK
  <2>2. TypeOK'
    BY <1>2, <2>1, ReleaseAssumption DEF Foreign, IInv, TypeOK
  <2>3. \A j \in Installers : RunInv(run'[j])
    BY <2>1, DisturbedInv DEF IInv
  <2>4. \A j \in Installers : ExactInv(j)'
    BY <2>1 DEF ExactInv, Runs
  <2> QED BY <2>2, <2>3, <2>4 DEF IInv
<1>3. CASE Publishes
  BY <1>3, ReleaseAssumption DEF Publishes, IInv, TypeOK, ExactInv
<1>4. CASE UNCHANGED vars
  BY <1>4 DEF vars, IInv, TypeOK, ExactInv
<1> QED BY <1>1, <1>2, <1>3, <1>4 DEF Next

\* Only a purge names packages, and it names those of the confirmed list.
LEMMA PurgeStep ==
  ASSUME IInv, NEW i \in Installers, Step(i)
  PROVE  run'[i].purged \notin {{}, run[i].purged} =>
            run'[i].purged \subseteq Retained(run[i].confirmed) /\ run[i].consented
<1> USE DEF IInv, TypeOK, At, Local, Goes, Fails, Ends, Command, Handler
<1> DEFINE Kept == run'[i].purged \in {{}, run[i].purged}
<1>t. run[i] \in Runs /\ \A o \in Outcomes : Ended(i, o) \in Runs
  BY EndedTypes
<1>p. \A o \in Outcomes : Ended(i, o).purged = {}
  BY <1>t DEF Ended, Runs
<1>r. run[i] \in Runs /\ \A o \in Outcomes : Ended(i, o).purged = {} /\ Ended(i, o) \in Runs
  BY <1>t, <1>p
<1>d. Disturb(i) \in [Installers -> Runs] /\ Disturb(i)[i] = [run[i] EXCEPT !.changed = TRUE]
  BY DisturbTypes
<1>1. CASE DetectsSystem(i) \/ Consents(i) \/ RequiresSudo(i) \/ Resolves(i)
  BY <1>r, <1>1 DEF DetectsSystem, Consents, RequiresSudo, Resolves, Runs, Outcomes
<1>13. CASE MakesStage(i)
  <2>1. PICK e \in Runs : e = Ended(i, "refused") /\ e.purged = {}
    BY <1>r DEF Outcomes
  <2> QED BY <1>r, <1>13, <2>1 DEF MakesStage, Runs
<1>2. CASE Starts(i)
  <2>1. CASE Ends(i, "refused")
    BY <1>r, <2>1 DEF Outcomes
  <2>2. ASSUME NEW name \in Selectors, NEW rootless \in BOOLEAN,
               run' = [run EXCEPT ![i].pc = "detect", ![i].named = name,
                                  ![i].rootless = rootless]
        PROVE  Kept
    BY <1>r, <2>2 DEF Runs
  <2> QED BY <1>2, <2>1, <2>2 DEF Starts
<1>3. CASE ListsInventory(i)
  <2>1. CASE Ends(i, "refused")
    BY <1>r, <2>1 DEF Outcomes
  <2>2. ASSUME NEW agreed \in BOOLEAN, NEW pc \in {"sudo", "consent"},
               run' = [run EXCEPT ![i].confirmed = db, ![i].consented = agreed, ![i].pc = pc]
        PROVE  Kept
    BY <1>r, <2>2 DEF Runs
  <2>3. /\ (Retained(db) = {}) \in BOOLEAN
        /\ (IF Retained(db) = {} THEN "sudo" ELSE "consent") \in {"sudo", "consent"}
    OBVIOUS
  <2> QED BY <1>3, <2>1, <2>2, <2>3 DEF ListsInventory
<1>4. CASE Downloads(i) \/ Validates(i) \/ Selects(i) \/ Extracts(i) \/ VerifiesMetadata(i)
  BY <1>r, <1>4 DEF Downloads, Validates, Selects, Extracts, VerifiesMetadata, Runs
<1>5. CASE MakesRootDirectory(i) \/ IdentifiesRootDirectory(i) \/ CopiesToRoot(i)
           \/ InspectsCopies(i) \/ RemovesCopies(i)
  BY <1>r, <1>5 DEF MakesRootDirectory, IdentifiesRootDirectory, CopiesToRoot, InspectsCopies,
     RemovesCopies, Runs
<1>6. CASE Refreshes(i) \/ Simulates(i) \/ Rechecks(i) \/ ProvesPurged(i) \/ Verifies(i)
           \/ ChecksCurrent(i) \/ CleansRoot(i)
  BY <1>r, <1>6 DEF Refreshes, Simulates, Rechecks, ProvesPurged, Verifies, ChecksCurrent,
     CleansRoot, Runs
<1>7. CASE Diagnoses(i) \/ Records(i)
  BY <1>r, <1>7 DEF Diagnoses, Records, Runs, Outcomes
<1>8. CASE Reports(i)
  <2>1. PICK e \in Runs : e = Ended(i, "failed") /\ e.purged = {}
    BY <1>r DEF Outcomes
  <2> QED BY <1>8, <2>1 DEF Reports, Runs
<1>9. CASE Abandons(i)
  <2>1. CASE Ends(i, "leftover")
    BY <1>r, <2>1 DEF Outcomes
  <2>2. ASSUME NEW left, NEW root,
               run' = [run EXCEPT ![i] =
                         [Ended(i, "preflight") EXCEPT !.stage = left, !.root = root]]
        PROVE  Kept
    <3>1. PICK e \in Runs : e = Ended(i, "preflight") /\ e.purged = {}
      BY <1>r DEF Outcomes
    <3> QED BY <2>2, <3>1 DEF Runs
  <2> QED BY <1>9, <2>1, <2>2 DEF Abandons
<1>10. CASE CleansStage(i)
  <2>1. CASE Ends(i, "leftover")
    BY <1>r, <2>1 DEF Outcomes
  <2>2. CASE run' = [run EXCEPT ![i] = [Ended(i, run[i].outcome) EXCEPT !.stage = "none"]]
    <3>1. PICK e \in Runs : e = Ended(i, run[i].outcome) /\ e.purged = {}
      BY <1>r DEF Runs
    <3> QED BY <2>2, <3>1 DEF Runs
  <2> QED BY <1>10, <2>1, <2>2 DEF CleansStage
<1>11. CASE Installs(i)
  <2>1. PICK next \in {"verify", "diagnose"} : run' = [Disturb(i) EXCEPT ![i].pc = next]
    BY <1>11 DEF Installs
  <2> QED BY <1>r, <1>d, <2>1 DEF Runs
<1>12. CASE Purges(i)
  <2>1. CASE run' = [run EXCEPT ![i].pc = "purged"]
    BY <1>r, <2>1 DEF Runs
  <2>2. ASSUME NEW next \in {"purged", "diagnose"},
               run' = [Disturb(i) EXCEPT ![i].pc = next, ![i].purged = Retained(run[i].prepurge)]
        PROVE  run'[i].purged = Retained(run[i].prepurge)
    BY <1>d, <2>2 DEF Runs
  <2>3. run[i].pc = "purge" /\ run[i].prepurge = run[i].confirmed /\ run[i].consented
    BY <1>12 DEF Purges, RunInv, ConsentInv, Mutate
  <2> QED BY <1>12, <2>1, <2>2, <2>3 DEF Purges
<1> QED BY <1>1, <1>2, <1>3, <1>4, <1>5, <1>6, <1>7, <1>8, <1>9, <1>10, <1>11, <1>12, <1>13 DEF Step

\* The inductive invariant holds in every reachable state.
THEOREM Invariance == Spec => []IInv
BY InitIInv, NextIInv, PTL DEF Spec

\* Every variable keeps its type.
THEOREM TypeCorrect == Spec => []TypeOK
BY Invariance, PTL DEF IInv

\* No package is touched before the archive, its packages and the plan were checked.
THEOREM ChecksComeFirst == Spec => []CheckedBeforeChange
<1>1. IInv => CheckedBeforeChange
  BY DEF IInv, RunInv, FlawInv, CheckedBeforeChange
<1> QED BY <1>1, Invariance, PTL

\* A refusal, a cancellation and a preflight failure have changed nothing.
THEOREM RefusalIsHarmless == Spec => []RefusalChangesNothing
<1>1. IInv => RefusalChangesNothing
  BY DEF IInv, RunInv, EndInv, RefusalChangesNothing
<1> QED BY <1>1, Invariance, PTL

\* From the first change to the verification a verified copy is on disk.
THEOREM NobodyIsStranded == Spec => []NeverStranded
<1>1. IInv => NeverStranded
  BY DEF IInv, RunInv, EndInv, NeverStranded
<1> QED BY <1>1, Invariance, PTL

\* The place a failure names holds the payload.
THEOREM RecoveryWhereTold == Spec => []RecoveryIsThere
<1>1. IInv => RecoveryIsThere
  BY DEF IInv, RunInv, EndInv, RecoveryIsThere
<1> QED BY <1>1, Invariance, PTL

\* A success leaves neither stage: the root-owned copy is known wherever the transaction
\* has got past making it, and no removal that raises is a success.
THEOREM SuccessIsClean == Spec => []SuccessLeavesNothing
<1>1. IInv => SuccessLeavesNothing
  BY DEF IInv, RunInv, EndInv, SuccessLeavesNothing
<1> QED BY <1>1, Invariance, PTL

\* A success is about the database, until somebody else changes it.
THEOREM SuccessHolds == Spec => []SuccessIsExact
<1>1. IInv => SuccessIsExact
  BY DEF IInv, RunInv, PhaseInv, ExactInv, SuccessIsExact
<1> QED BY <1>1, Invariance, PTL

\* Whatever changes between question and purge, only what was confirmed is purged.
THEOREM OnlyConfirmedIsPurged == Spec => PurgesConfirmed
<1>1. IInv /\ [Next]_vars =>
        [\A i \in Installers : run'[i].purged \notin {{}, run[i].purged} =>
            /\ run'[i].purged \subseteq Retained(run[i].confirmed)
            /\ run[i].consented]_vars
  <2> SUFFICES ASSUME IInv, Next, NEW j \in Installers,
                      run'[j].purged \notin {{}, run[j].purged}
               PROVE  run'[j].purged \subseteq Retained(run[j].confirmed) /\ run[j].consented
    BY DEF vars
  <2>1. PICK r \in Runs : r = run[j]
    BY DEF IInv, TypeOK
  <2>2. CASE run'[j] = r \/ run'[j] = [r EXCEPT !.disturbed = r.verified]
    BY <2>1, <2>2 DEF Runs
  <2>3. ASSUME NEW i \in Installers, Step(i)
        PROVE  run'[j].purged \subseteq Retained(run[j].confirmed) /\ run[j].consented
    BY <2>1, <2>2, <2>3, PurgeStep, StepTypes DEF IInv
  <2>4. CASE Foreign \/ Publishes
    BY <2>1, <2>2, <2>4 DEF Foreign, Publishes
  <2> QED BY <2>3, <2>4 DEF Next
<1> QED BY <1>1, Invariance, PTL DEF Spec, PurgesConfirmed

=============================================================================
