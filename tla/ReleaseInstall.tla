--------------------------- MODULE ReleaseInstall ---------------------------
(***************************************************************************)
(* The transaction of tools/install_xpra_release.py: one invocation lists  *)
(* the Xpra packages of the system, has their purge confirmed, resolves,   *)
(* downloads and validates a release, copies it to a root-owned directory  *)
(* when it is not root itself, purges, installs and verifies, and recovers *)
(* from whatever fails.  The package database is shared: invocations run   *)
(* beside each other and beside every other package manager, releases are  *)
(* published, withdrawn and rebased meanwhile, every command may fail and  *)
(* an invocation may be interrupted or killed between any two commands.    *)
(*                                                                         *)
(* A release is a number, larger when it was published later; a package's  *)
(* state is the release it was installed from or one of the codes below.   *)
(* An archive is abstracted to the one thing that may be wrong with what   *)
(* was published under its digest; the check that looks for it finds it,   *)
(* and every command may fail for reasons of its own.                      *)
(*                                                                         *)
(* Nothing is fair: an invocation that takes no further step is one that   *)
(* was killed, or left by a KeyboardInterrupt, which no handler catches.   *)
(***************************************************************************)
EXTENDS Naturals

CONSTANTS
    Installers,     \* the invocations of the installer
    Required,       \* REQUIRED_XPRA_PACKAGES
    Extra,          \* other package names that belong to Xpra
    MaxRelease,     \* bound: the releases 1 .. MaxRelease
    Selectors,      \* what operators ask for: Newest (0) or the number of a release
    MaxOthers       \* bound: changes by other package managers and the publisher

ASSUME NamesAssumption == Required \cap Extra = {}
ASSUME ReleaseAssumption ==
    MaxRelease \in Nat /\ MaxOthers \in Nat /\ Selectors \subseteq 0 .. MaxRelease

VARIABLES
    run,        \* the local state of each invocation, a record
    db,         \* the dpkg database: the state of each Xpra package
    forge,      \* what the release API says of each release
    others      \* how often somebody else changed the database or a release
vars == <<run, db, forge, others>>

-----------------------------------------------------------------------------
(* Types and null representations *)

Releases == 1 .. MaxRelease
Names    == Required \cup Extra
Absent   == 0
Residue  == MaxRelease + 1      \* removed, with its configuration retained
Broken   == MaxRelease + 2      \* unpacked or half configured
States   == 0 .. MaxRelease + 2

\* No release is named: the newest one is selected.
Newest == 0

\* "absent": not there, or without the marker of a package release;
\* "rebased": canonical, and no longer in the history of develop
Kinds == {"absent", "malformed", "canonical", "rebased"}

Before  == {"idle", "detect", "inventory", "consent", "sudo", "resolve", "stage"}
Prepare == {"download", "validate", "select", "extract", "metadata", "mktemp",
            "identify", "copy", "inspect", "uncopy", "refresh", "simulate", "recheck"}
Mutate  == {"purge", "purged", "install", "verify", "current"}
Finish  == {"abandon", "diagnose", "record", "report", "cleanup", "clear"}
Steps   == Before \cup Prepare \cup Mutate \cup Finish \cup {"done"}

\* "unverified": the directory mktemp made, whose identity could not be shown
StageStates == {"none", "empty", "archive", "payload"}
RootStates  == {"none", "unverified", "partial", "payload"}
Outcomes    == {"none", "refused", "cancelled", "preflight", "leftover", "failed",
                "raw", "success"}

\* What may be wrong with an archive: a member that is not plain, a manifest or sums
\* that differ, a required package that is missing, control fields or files that
\* differ, a plan of APT that is not the exact set, a module that cannot be imported.
Flaws == {"none", "members", "manifest", "set", "control", "plan", "runtime"}
Inventories == [Names -> States]

\* rootless: the user is not root and needs sudo and a root-owned stage
Runs == [pc : Steps, rootless : BOOLEAN, named : Selectors \cup {Newest}, selected : 0 .. MaxRelease,
         confirmed : Inventories,
         prepurge : Inventories, consented : BOOLEAN, purged : SUBSET Names, flaw : Flaws,
         stage : StageStates, root : RootStates, payload : BOOLEAN,
         started : BOOLEAN, changed : BOOLEAN, verified : BOOLEAN,
         disturbed : BOOLEAN, told : {"nowhere", "stage", "root"},
         outcome : Outcomes]

Nothing == [n \in Names |-> Absent]

\* list_xpra_packages: the names that are installed or retain configuration.
Retained(inventory) == {n \in Names : inventory[n] # Absent}

\* What verify_installed_system demands of the inventory.
Exact(inventory, r) == inventory = [n \in Names |-> IF n \in Required THEN r ELSE Absent]

Init ==
    /\ run = [i \in Installers |->
                [pc |-> "idle", rootless |-> FALSE, named |-> Newest, selected |-> 0,
                 confirmed |-> Nothing, consented |-> FALSE, prepurge |-> Nothing,
                 purged |-> {}, flaw |-> "none", stage |-> "none", root |-> "none",
                 payload |-> FALSE, started |-> FALSE, changed |-> FALSE,
                 verified |-> FALSE, disturbed |-> FALSE, told |-> "nowhere",
                 outcome |-> "none"]]
    /\ db \in [Names -> {Absent, Residue, 1}]
    /\ forge = [r \in Releases |-> IF r = 1 THEN "canonical" ELSE "absent"]
    /\ others = 0

-----------------------------------------------------------------------------
(* Release resolution *)

\* parse_release: a release without the marker is ignored, one that bears it and
\* fails any of the checks makes the whole resolution fail.
Parses == \A r \in Releases : forge[r] # "malformed"

Candidates(name) ==
    {r \in Releases : /\ forge[r] \in {"canonical", "rebased"}
                      /\ name \in {Newest, r}}

\* verify_develop_commit; a named release is bound to its tag instead and may have
\* left the history of develop.
Bound(name, r) == name = Newest => forge[r] = "canonical"

\* resolve_latest_release.
ResolvesTo(name, r) ==
    /\ Parses
    /\ r \in Candidates(name)
    /\ \A s \in Candidates(name) : s <= r
    /\ Bound(name, r)

-----------------------------------------------------------------------------
(* Steps of one invocation *)

At(i, step) == run[i].pc = step
Local == UNCHANGED <<db, forge, others>>

\* except Exception: the handler of the transaction's body.
Handler(i) == IF run[i].started THEN "diagnose" ELSE "abandon"

Fails(i) == run' = [run EXCEPT ![i].pc = Handler(i)] /\ Local
Goes(i, step) == run' = [run EXCEPT ![i].pc = step] /\ Local

\* The process ends and its memory with it: what stays is what it told, what it left
\* on disk and, after a success, which release it installed.
Ended(i, outcome) ==
    [run[i] EXCEPT !.pc = "done", !.outcome = outcome, !.named = Newest, !.rootless = FALSE,
                   !.selected = IF outcome = "success" THEN @ ELSE 0,
                   !.confirmed = Nothing, !.prepurge = Nothing,
                   !.consented = FALSE, !.purged = {},
                   !.flaw = IF run[i].changed THEN @ ELSE "none",
                   !.started = FALSE, !.payload = FALSE]
Ends(i, outcome) == run' = [run EXCEPT ![i] = Ended(i, outcome)] /\ Local

\* A command of the body succeeds and the next one follows, or it fails.
Command(i, step, next, sound) == At(i, step) /\ ((sound /\ Goes(i, next)) \/ Fails(i))

\* Others see a change of the database after they verified theirs.
Disturb(i) == [j \in Installers |->
                 IF j = i THEN [run[j] EXCEPT !.changed = TRUE]
                          ELSE [run[j] EXCEPT !.disturbed = run[j].verified]]

\* The selector and the effective user are checked before anything else.
Starts(i) ==
    /\ At(i, "idle")
    /\ \/ \E name \in Selectors :
            \E rootless \in BOOLEAN :
                /\ run' = [run EXCEPT ![i].pc = "detect", ![i].named = name,
                                      ![i].rootless = rootless]
                /\ Local
       \/ Ends(i, "refused")

DetectsSystem(i) ==
    At(i, "detect") /\ (Goes(i, "inventory") \/ Ends(i, "refused"))

\* The inventory is listed; with nothing to purge nobody is asked.
ListsInventory(i) ==
    /\ At(i, "inventory")
    /\ \/ /\ run' = [run EXCEPT ![i].confirmed = db,
                                ![i].consented = Retained(db) = {},
                                ![i].pc = IF Retained(db) = {} THEN "sudo" ELSE "consent"]
          /\ Local
       \/ Ends(i, "refused")

\* The question stays open as long as the user wants; anything but y or yes, and a
\* terminal that cannot be read, is a refusal.
Consents(i) ==
    /\ At(i, "consent")
    /\ \/ run' = [run EXCEPT ![i].pc = "sudo", ![i].consented = TRUE] /\ Local
       \/ Ends(i, "cancelled")

RequiresSudo(i) ==
    /\ At(i, "sudo")
    /\ Goes(i, "resolve") \/ (run[i].rootless /\ Ends(i, "refused"))

Resolves(i) ==
    /\ At(i, "resolve")
    /\ \/ \E r \in Releases :
            /\ ResolvesTo(run[i].named, r)
            /\ run' = [run EXCEPT ![i].pc = "stage", ![i].selected = r]
            /\ Local
       \/ Ends(i, "refused")

\* The directory is made and its mode set; when only the second fails it stays.
MakesStage(i) ==
    /\ At(i, "stage")
    /\ \/ run' = [run EXCEPT ![i].pc = "download", ![i].stage = "empty"]
       \/ \E left \in {"none", "empty"} :
             run' = [run EXCEPT ![i] = [Ended(i, "refused") EXCEPT !.stage = left]]
    /\ Local

-----------------------------------------------------------------------------
(* The body of the transaction, before the first change *)

Flawless(i, flaws) == run[i].flaw \notin flaws

\* A download that fails in any way unlinks its file; one whose digest is right may
\* still hold anything.
Downloads(i) ==
    /\ At(i, "download")
    /\ \/ \E flaw \in Flaws :
            /\ run' = [run EXCEPT ![i].pc = "validate", ![i].stage = "archive",
                                  ![i].flaw = flaw]
            /\ Local
       \/ Fails(i)

\* The names, kinds and sizes of the members, and of the manifest's records.
PlainMembers(i) == Flawless(i, {"members"})
Manifested(i)   == Flawless(i, {"manifest"})

Validates(i) == Command(i, "validate", "select", PlainMembers(i) /\ Manifested(i))
Selects(i)   == Command(i, "select", "extract", Flawless(i, {"set"}))

Extracts(i) ==
    /\ At(i, "extract")
    /\ \/ run' = [run EXCEPT ![i].pc = "metadata", ![i].stage = "payload"] /\ Local
       \/ Fails(i)

\* The control fields and the lists of files dpkg-deb reports of each package.
Controlled(i) == Flawless(i, {"control"})

VerifiesMetadata(i) ==
    Command(i, "metadata", IF run[i].rootless THEN "mktemp" ELSE "refresh", Controlled(i))

MakesRootDirectory(i) ==
    /\ At(i, "mktemp")
    /\ \/ run' = [run EXCEPT ![i].pc = "identify", ![i].root = "unverified"] /\ Local
       \/ Fails(i)

\* The directory exists before its path and identity are checked: when that fails
\* nobody knows it to remove it.
IdentifiesRootDirectory(i) ==
    /\ At(i, "identify")
    /\ \/ run' = [run EXCEPT ![i].pc = "copy", ![i].root = "partial"] /\ Local
       \/ Fails(i)

\* Each file is installed and checked by identity, size and digest.
CopiesToRoot(i) ==
    /\ At(i, "copy")
    /\ \/ run' = [run EXCEPT ![i].pc = "inspect", ![i].root = "payload"] /\ Local
       \/ Goes(i, "uncopy")

\* The metadata of the copies is verified again; only now is the stage known.
InspectsCopies(i) ==
    /\ At(i, "inspect")
    /\ \/ /\ Controlled(i)
          /\ run' = [run EXCEPT ![i].pc = "refresh", ![i].payload = TRUE]
          /\ Local
       \/ Goes(i, "uncopy")

\* A removal that fails raises its own error in place of the first.
RemovesCopies(i) ==
    /\ At(i, "uncopy")
    /\ \/ run' = [run EXCEPT ![i].pc = Handler(i), ![i].root = "none"] /\ Local
       \/ run' = [run EXCEPT ![i].pc = Handler(i), ![i].root = "unverified"] /\ Local

Refreshes(i) == Command(i, "refresh", "simulate", TRUE)

Simulates(i) == Command(i, "simulate", "recheck", Flawless(i, {"plan"}))

\* Mutants of Rechecks: whatever is installed now is purged; the start of the
\* transaction is not noted.
RechecksNothing(i) ==
    /\ At(i, "recheck")
    /\ run' = [run EXCEPT ![i].pc = "purge", ![i].started = TRUE, ![i].prepurge = db]
    /\ Local

RechecksUnnoted(i) ==
    /\ At(i, "recheck")
    /\ \/ /\ db = run[i].confirmed
          /\ run' = [run EXCEPT ![i].pc = "purge", ![i].prepurge = db]
          /\ Local
       \/ Fails(i)

\* The inventory must be the confirmed one, state for state; from here on a failure
\* is a failed transaction.
Rechecks(i) ==
    /\ At(i, "recheck")
    /\ \/ /\ db = run[i].confirmed
          /\ run' = [run EXCEPT ![i].pc = "purge", ![i].started = TRUE,
                                ![i].prepurge = db]
          /\ Local
       \/ Fails(i)

-----------------------------------------------------------------------------
(* The changes *)

\* apt-get purge of the names of the inventory; a failure leaves each package purged,
\* removed with its configuration, broken or as it was.
Purges(i) ==
    LET names == Retained(run[i].prepurge)
    IN  /\ At(i, "purge")
        /\ \/ names = {} /\ run' = [run EXCEPT ![i].pc = "purged"] /\ UNCHANGED db
           \/ /\ names # {}
              /\ \E new \in [names -> States], next \in {"purged", "diagnose"} :
                   /\ \A n \in names :
                          new[n] = Absent
                              \/ (next = "diagnose" /\ new[n] \in {Residue, Broken, db[n]})
                   /\ db' = [n \in Names |-> IF n \in names THEN new[n] ELSE db[n]]
                   /\ run' = [Disturb(i) EXCEPT ![i].pc = next, ![i].purged = names]
        /\ UNCHANGED <<forge, others>>

ProvesPurged(i) ==
    /\ At(i, "purged")
    /\ (Retained(db) = {} /\ Goes(i, "install")) \/ Fails(i)

\* apt-get install of the verified files; a failure leaves packages as they were,
\* broken or installed.
Installs(i) ==
    /\ At(i, "install")
    /\ \E new \in [Required -> States], next \in {"verify", "diagnose"} :
         /\ \A n \in Required :
                new[n] = run[i].selected
                    \/ (next = "diagnose" /\ new[n] \in {Broken, db[n]})
         /\ db' = [n \in Names |-> IF n \in Required THEN new[n] ELSE db[n]]
         /\ run' = [Disturb(i) EXCEPT ![i].pc = next]
    /\ UNCHANGED <<forge, others>>

\* Mutant of Verifies: the inventory is not compared.
VerifiesImports(i) ==
    /\ At(i, "verify")
    /\ run' = [run EXCEPT ![i].pc = "current", ![i].verified = TRUE, ![i].disturbed = FALSE]
    /\ Local

Verifies(i) ==
    /\ At(i, "verify")
    /\ \/ /\ Exact(db, run[i].selected) /\ Flawless(i, {"runtime"})
          /\ run' = [run EXCEPT ![i].pc = "current", ![i].verified = TRUE,
                                ![i].disturbed = FALSE]
          /\ Local
       \/ Fails(i)

\* A release published meanwhile makes a finished installation fail.
ChecksCurrent(i) ==
    /\ At(i, "current")
    /\ \/ ResolvesTo(run[i].named, run[i].selected) /\ Goes(i, "cleanup")
       \/ Fails(i)

-----------------------------------------------------------------------------
(* Recovery and cleanup *)

\* The diagnostic is written into the user's stage; an error here is not caught.
Diagnoses(i) ==
    /\ At(i, "diagnose")
    /\ \/ Goes(i, IF run[i].payload THEN "record" ELSE "report")
       \/ Ends(i, "raw")

\* It is copied beside the root-owned payload, or not, and the user's stage goes:
\* rmtree with ignore_errors may leave part of it.
Records(i) ==
    /\ At(i, "record")
    /\ \E left \in {"none", "empty", run[i].stage} :
         run' = [run EXCEPT ![i].pc = "report", ![i].stage = left] /\ Local

\* Mutant of Reports: the user's stage is named in any case.
ReportsStage(i) ==
    /\ At(i, "report")
    /\ run' = [run EXCEPT ![i] = [Ended(i, "failed") EXCEPT !.told = "stage"]]
    /\ Local

Reports(i) ==
    /\ At(i, "report")
    /\ run' = [run EXCEPT ![i] = [Ended(i, "failed") EXCEPT
                  !.told = IF run[i].payload THEN "root" ELSE "stage"]]
    /\ Local

\* Before the first change both stages go, the user's as far as it can, of which nothing
\* is said; when the root-owned one cannot be removed its error replaces the first, and
\* both stay.
Abandons(i) ==
    /\ At(i, "abandon")
    /\ \/ /\ \E left \in {"none", "empty", run[i].stage} :
                run' = [run EXCEPT ![i] =
                          [Ended(i, "preflight") EXCEPT
                            !.stage = left,
                            !.root  = IF run[i].payload THEN "none" ELSE run[i].root]]
          /\ Local
       \/ run[i].payload /\ Ends(i, "leftover")

\* After a success the root-owned stage goes first, the user's stage in any case.
CleansRoot(i) ==
    /\ At(i, "cleanup")
    /\ \/ run' = [run EXCEPT ![i].pc = "clear", ![i].outcome = "success",
                             ![i].root = IF run[i].payload THEN "none" ELSE @] /\ Local
       \/ /\ run[i].payload
          /\ run' = [run EXCEPT ![i].pc = "clear", ![i].outcome = "leftover"]
          /\ Local

CleansStage(i) ==
    /\ At(i, "clear")
    /\ \/ run' = [run EXCEPT ![i] = [Ended(i, run[i].outcome) EXCEPT !.stage = "none"]]
          /\ Local
       \/ Ends(i, "leftover")

-----------------------------------------------------------------------------
(* Everybody else *)

\* Any transaction of another package manager, or of another installer's user.
Foreign ==
    /\ others < MaxOthers
    /\ db' \in Inventories \ {db}
    /\ others' = others + 1
    /\ run' = [i \in Installers |-> [run[i] EXCEPT !.disturbed = run[i].verified]]
    /\ UNCHANGED forge

Publishes ==
    /\ others < MaxOthers
    /\ \E r \in Releases, k \in Kinds : k # forge[r] /\ forge' = [forge EXCEPT ![r] = k]
    /\ others' = others + 1
    /\ UNCHANGED <<run, db>>

Step(i) ==
    \/ Starts(i) \/ DetectsSystem(i) \/ ListsInventory(i) \/ Consents(i) \/ RequiresSudo(i)
    \/ Resolves(i) \/ MakesStage(i)
    \/ Downloads(i) \/ Validates(i) \/ Selects(i) \/ Extracts(i)
    \/ VerifiesMetadata(i) \/ MakesRootDirectory(i) \/ IdentifiesRootDirectory(i)
    \/ CopiesToRoot(i) \/ InspectsCopies(i) \/ RemovesCopies(i) \/ Refreshes(i) \/ Simulates(i) \/ Rechecks(i)
    \/ Purges(i) \/ ProvesPurged(i) \/ Installs(i) \/ Verifies(i) \/ ChecksCurrent(i)
    \/ Diagnoses(i) \/ Records(i) \/ Reports(i) \/ Abandons(i)
    \/ CleansRoot(i) \/ CleansStage(i)

Next == Foreign \/ Publishes \/ \E i \in Installers : Step(i)

Spec == Init /\ [][Next]_vars

-----------------------------------------------------------------------------
(* Properties *)

TypeOK ==
    /\ run \in [Installers -> Runs]
    /\ db \in Inventories
    /\ forge \in [Releases -> Kinds]
    /\ others \in 0 .. MaxOthers

\* Whatever changes between the question and the purge, an invocation asks APT to
\* purge names of the list its user agreed to and no other (the second listing
\* before the purge is compared with the confirmed one).
PurgesConfirmed ==
    [][\A i \in Installers : run'[i].purged \notin {{}, run[i].purged} =>
            /\ run'[i].purged \subseteq Retained(run[i].confirmed)
            /\ run[i].consented]_vars

\* No package is touched before the checks of the archive, its packages and the plan of
\* APT have passed; only a module that cannot be imported shows itself later.
CheckedBeforeChange ==
    \A i \in Installers : run[i].changed => run[i].flaw \in {"none", "runtime"}

\* An invocation that says it was cancelled or failed before the transaction has
\* not changed the database.
RefusalChangesNothing ==
    \A i \in Installers :
        run[i].outcome \in {"refused", "cancelled", "preflight"} => ~run[i].changed

\* From the first change to the verification, and for ever when that is never
\* reached, a verified copy of the packages is on disk: through every failure,
\* interruption and kill there is something to recover with.
NeverStranded ==
    \A i \in Installers :
        run[i].changed /\ ~run[i].verified =>
            run[i].stage = "payload" \/ run[i].root = "payload"

\* The place named in "verified recovery payload preserved at" holds the payload.
RecoveryIsThere ==
    \A i \in Installers :
        /\ run[i].told = "stage" => run[i].stage = "payload"
        /\ run[i].told = "root"  => run[i].root = "payload"

\* An invocation that reports success has removed the user's stage and, when there was
\* one, the root-owned copy.  Of a failure before the transaction nothing like it holds:
\* rmtree ignores its errors, and a stage of which only the mode could not be set stays.
SuccessLeavesNothing ==
    \A i \in Installers :
        run[i].pc = "done" /\ run[i].outcome = "success" =>
            run[i].stage = "none" /\ run[i].root = "none"

\* After a success the database holds exactly the required packages of the selected
\* release, unless somebody else changed it since it was verified.
SuccessIsExact ==
    \A i \in Installers :
        run[i].outcome = "success" /\ ~run[i].disturbed => Exact(db, run[i].selected)

=============================================================================
