--------------------------- MODULE ImagePreparation ---------------------------
(***************************************************************************)
(* tools/prepare_xpra_images.py: processes that build, verify and publish  *)
(* the pair of test images of one Xpra release, each running `prepare`     *)
(* from start to end, and the parts of the machine they share: the files   *)
(* of the tree that go into an image, Podman's tags and containers, and    *)
(* the descriptor with its one temporary name.  The build context is       *)
(* streamed by write_archive of tools/container_payload.py while somebody  *)
(* may edit the files.                                                     *)
(*                                                                         *)
(* Podman, the release service and the editor are external.                *)
(***************************************************************************)
EXTENDS Integers, FiniteSets, Sequences

CONSTANTS
  Preparers,    \* processes; each runs once
  FileCount,    \* build inputs of an image
  MaxEdits,     \* bound: edits of the inputs
  MaxRelease,   \* bound: releases that the pinned name resolves to, one after another
  MaxKilled     \* bound: preparers that die at once

ASSUME BoundsAssumption ==
  /\ FileCount \in Nat \ {0}
  /\ MaxRelease \in Nat \ {0}
  /\ MaxEdits \in Nat /\ MaxKilled \in Nat

Roles == <<"target", "client">>
Files == 1 .. FileCount
Releases == 1 .. MaxRelease
Versions == 0 .. MaxEdits
Torn == MaxEdits + 1              \* a file of which half was read before an edit
Nobody == "nobody"
ASSUME NobodyAssumption == Nobody \notin Preparers
None == [f \in Files |-> 0]

\* An image: what its tag and labels say, and what verify_image will find in it.
Images == [role : {"target", "client"}, release : Releases, input : [Files -> Versions],
           sound : BOOLEAN]

VARIABLES
  current,     \* the release the pinned name resolves to
  tree,        \* per build input: how often it was edited
  tagged,      \* the images that a tag names
  containers,  \* the verification containers that exist, by preparer and role
  temporary,   \* whose file .current.json.new is
  descriptor,  \* whose file current.json is
  content,     \* per preparer: how much of its descriptor is written
  pc,          \* per preparer: where prepare() is
  release,     \* per preparer: the release it resolved
  file,        \* per preparer: the input it reads
  digest,      \* per preparer: the versions that image_input_digest read
  frozen,      \* per preparer: the versions _freeze_entries saw
  streamed,    \* per preparer: the versions that went into the archive
  proved,      \* per preparer: the images it has verified, in the order of Roles
  failing      \* per preparer: an exception is on its way through a finally block

shared == <<current, tree>>
podman == <<tagged, containers>>
store == <<temporary, descriptor, content>>
reading == <<file, digest, frozen, streamed>>
vars == <<shared, podman, store, pc, release, reading, proved, failing>>

InPublish == {"write", "replace", "cleanup", "unlink"}
Labels == InPublish \cup
  {"start", "resolve", "download", "digest", "exists", "freeze", "check", "read", "recheck",
   "build", "inspect", "verify", "remove", "current", "alone", "publish", "open",
   "done", "failed", "killed"}

Init ==
  /\ current = 1
  /\ tree = None
  /\ tagged = {}
  /\ containers = {}
  /\ temporary = Nobody
  /\ descriptor = Nobody
  /\ content = [p \in Preparers |-> "none"]
  /\ pc = [p \in Preparers |-> "start"]
  /\ release = [p \in Preparers |-> 0]
  /\ file = [p \in Preparers |-> 1]
  /\ digest = [p \in Preparers |-> None]
  /\ frozen = [p \in Preparers |-> None]
  /\ streamed = [p \in Preparers |-> None]
  /\ proved = [p \in Preparers |-> <<>>]
  /\ failing = [p \in Preparers |-> FALSE]

---------------------------------------------------------------------------
(* Steps of prepare()                                                       *)

At(p, label) == pc[p] = label
Goto(p, label) == pc' = [pc EXCEPT ![p] = label]
Role(p) == Roles[Len(proved[p]) + 1]

\* Nothing is kept of an image's inputs once it is there, or of a failed attempt.
Forget(p) ==
  /\ file' = [file EXCEPT ![p] = 1]
  /\ digest' = [digest EXCEPT ![p] = None]
  /\ frozen' = [frozen EXCEPT ![p] = None]
  /\ streamed' = [streamed EXCEPT ![p] = None]

\* The loop over the inputs: the next one, or what comes after the last.
NextFile(p, again, after) ==
  IF file[p] < FileCount
    THEN Goto(p, again) /\ file' = [file EXCEPT ![p] = @ + 1]
    ELSE Goto(p, after) /\ file' = [file EXCEPT ![p] = 1]

\* Mutant of AssertsAlone: only the first look refuses.
AssertsFirst(p, here, there) ==
  /\ At(p, here)
  /\ Goto(p, IF containers = {} \/ here = "alone" THEN there ELSE "failed")
  /\ UNCHANGED <<shared, podman, store, release, reading, proved, failing>>

\* assert_no_runtime, first and last: any labelled container, whoever owns it, refuses.
AssertsAlone(p, here, there) ==
  /\ At(p, here)
  /\ Goto(p, IF containers = {} THEN there ELSE "failed")
  /\ UNCHANGED <<shared, podman, store, release, reading, proved, failing>>

Resolves(p) ==
  /\ At(p, "resolve")
  /\ release' = [release EXCEPT ![p] = current]
  /\ Goto(p, "download")
  /\ UNCHANGED <<shared, podman, store, reading, proved, failing>>

\* The asset goes into a private directory, is validated and its packages selected.
Downloads(p) ==
  /\ At(p, "download")
  /\ Goto(p, "digest")
  /\ UNCHANGED <<shared, podman, store, release, reading, proved, failing>>

\* image_input_digest reads one input after the other.
Digests(p) ==
  /\ At(p, "digest")
  /\ digest' = [digest EXCEPT ![p][file[p]] = tree[file[p]]]
  /\ NextFile(p, "digest", "exists")
  /\ UNCHANGED <<shared, podman, store, release, frozen, streamed, proved, failing>>

TagOf(p) == {i \in tagged : i.role = Role(p) /\ i.release = release[p] /\ i.input = digest[p]}

\* build_image: `podman image exists` for the tag of role, release and input digest.
LooksForImage(p) ==
  /\ At(p, "exists")
  /\ Goto(p, IF TagOf(p) = {} THEN "freeze" ELSE "inspect")
  /\ UNCHANGED <<shared, podman, store, release, reading, proved, failing>>

---------------------------------------------------------------------------
(* write_archive: the identity of every input is frozen, checked when the   *)
(* input is opened, and checked again when all of them were streamed.       *)

Freezes(p) ==
  /\ At(p, "freeze")
  /\ frozen' = [frozen EXCEPT ![p][file[p]] = tree[file[p]]]
  /\ NextFile(p, "freeze", "check")
  /\ UNCHANGED <<shared, podman, store, release, digest, streamed, proved, failing>>

Unchanged(p) == tree[file[p]] = frozen[p][file[p]]

\* payload input changed: the archive ends here, and Podman gets a truncated one.
OpensInput(p) ==
  /\ At(p, "check")
  /\ Goto(p, IF Unchanged(p) THEN "read" ELSE "failed")
  /\ UNCHANGED <<shared, podman, store, release, reading, proved, failing>>

\* The file is read while it may change: the old bytes, the new ones or some of both.
ReadsInput(p) ==
  /\ At(p, "read")
  /\ \E v \in {frozen[p][file[p]], tree[file[p]]} \cup IF Unchanged(p) THEN {} ELSE {Torn} :
       streamed' = [streamed EXCEPT ![p][file[p]] = v]
  /\ NextFile(p, "check", "recheck")
  /\ UNCHANGED <<shared, podman, store, release, digest, frozen, proved, failing>>

\* Mutant of Rechecks: what was checked when it was opened is not checked again.
RechecksNothing(p) ==
  /\ At(p, "recheck")
  /\ Goto(p, "build")
  /\ UNCHANGED <<shared, podman, store, release, reading, proved, failing>>

\* Podman built the context it was given and moves the tag to the new image.
Tags(p) ==
  \E good \in BOOLEAN :
    tagged' = (tagged \ TagOf(p)) \cup
              {[role |-> Role(p), release |-> release[p], input |-> digest[p], sound |-> good]}

\* stream_failed closes the pipe and kills Podman after 10 s.  When the archive was complete
\* by then, what Podman built of it in time has its tag.
StreamFailed(p) ==
  /\ Goto(p, "failed")
  /\ UNCHANGED tagged \/ Tags(p)

\* payload input changed while streaming.
Rechecks(p) ==
  /\ At(p, "recheck")
  /\ \/ Unchanged(p) /\ NextFile(p, "recheck", "build") /\ UNCHANGED tagged
     \/ ~Unchanged(p) /\ StreamFailed(p) /\ UNCHANGED file
  /\ UNCHANGED <<shared, containers, store, release, digest, frozen, streamed, proved, failing>>

\* The image installs the packages and checks them itself (install-release.py) before it
\* is tagged.
Builds(p) ==
  /\ At(p, "build")
  /\ Tags(p)
  /\ Goto(p, "inspect")
  /\ UNCHANGED <<shared, containers, store, release, reading, proved, failing>>

---------------------------------------------------------------------------
(* From the tag to the published pair                                       *)

\* Mutant of InspectsImage: an image from the cache is not run again.
InspectTrusts(p) ==
  /\ At(p, "inspect")
  /\ \E i \in TagOf(p) : proved' = [proved EXCEPT ![p] = Append(@, i)]
  /\ Goto(p, "remove")
  /\ UNCHANGED <<shared, podman, store, release, reading, failing>>

\* The labels of the tag agree, its immutable ID is taken, and the container starts.
InspectsImage(p) ==
  /\ At(p, "inspect")
  /\ \E i \in TagOf(p) : proved' = [proved EXCEPT ![p] = Append(@, i)]
  /\ containers' = containers \cup {<<p, Role(p)>>}
  /\ Goto(p, "verify")
  /\ UNCHANGED <<shared, tagged, store, release, reading, failing>>

\* verify_image: the image is run by its ID; no output or another state is an error.
Verifies(p) ==
  /\ At(p, "verify")
  /\ failing' = [failing EXCEPT ![p] = ~proved[p][Len(proved[p])].sound]
  /\ Goto(p, "remove")
  /\ UNCHANGED <<shared, podman, store, release, reading, proved>>

\* finally: podman rm --force, whose result nobody looks at, so the container may stay.
\* What cannot be run at all raises, in place of what was in flight.
Removes(p) ==
  /\ At(p, "remove")
  /\ \/ containers' = containers \ {<<p, Roles[Len(proved[p])]>>}
     \/ UNCHANGED containers
  /\ \/ Goto(p, IF failing[p] THEN "failed"
                ELSE IF Len(proved[p]) < Len(Roles) THEN "download" ELSE "current")
     \/ Goto(p, "failed")
  /\ Forget(p)
  /\ UNCHANGED <<shared, tagged, store, release, proved, failing>>

\* verify_release_is_current: the name resolves to the very release once more.
ConfirmsRelease(p) ==
  /\ At(p, "current")
  /\ Goto(p, IF release[p] = current THEN "alone" ELSE "failed")
  /\ UNCHANGED <<shared, podman, store, release, reading, proved, failing>>

\* publish: the temporary name must be free, which is looked at first ...
LooksForTemporary(p) ==
  /\ At(p, "publish")
  /\ Goto(p, IF temporary = Nobody THEN "open" ELSE "failed")
  /\ UNCHANGED <<shared, podman, store, release, reading, proved, failing>>

\* ... and settled by O_EXCL.
OpensTemporary(p) ==
  /\ At(p, "open")
  /\ IF temporary = Nobody
       THEN /\ temporary' = p
            /\ content' = [content EXCEPT ![p] = "partial"]
            /\ Goto(p, "write")
       ELSE Goto(p, "failed") /\ UNCHANGED <<temporary, content>>
  /\ UNCHANGED <<shared, podman, descriptor, release, reading, proved, failing>>

\* Through the descriptor that is open, whatever name the file has by now.
Writes(p) ==
  /\ At(p, "write")
  /\ \/ /\ content' = [content EXCEPT ![p] = "whole"]
        /\ Goto(p, "replace") /\ UNCHANGED failing
     \/ /\ failing' = [failing EXCEPT ![p] = TRUE]
        /\ Goto(p, "cleanup") /\ UNCHANGED content
  /\ UNCHANGED <<shared, podman, temporary, descriptor, release, reading, proved>>

\* os.replace takes the file that has the temporary name, whoever wrote it, or fails.
Replaces(p) ==
  /\ At(p, "replace")
  /\ \/ /\ temporary # Nobody
        /\ descriptor' = temporary /\ temporary' = Nobody /\ UNCHANGED failing
     \/ failing' = [failing EXCEPT ![p] = TRUE] /\ UNCHANGED <<temporary, descriptor>>
  /\ Goto(p, "cleanup")
  /\ UNCHANGED <<shared, podman, content, release, reading, proved>>

Outcome(p) == IF failing[p] THEN "failed" ELSE "done"

\* finally: a file that still has the temporary name is looked for, if that can be said ...
LooksForRest(p) ==
  /\ At(p, "cleanup")
  /\ \/ Goto(p, IF temporary = Nobody THEN Outcome(p) ELSE "unlink")
     \/ Goto(p, "failed")
  /\ UNCHANGED <<shared, podman, store, release, reading, proved, failing>>

\* ... and removed, by whomever it was made since, or the removal raises.
UnlinksRest(p) ==
  /\ At(p, "unlink")
  /\ \/ temporary # Nobody /\ temporary' = Nobody /\ Goto(p, Outcome(p))
     \/ UNCHANGED temporary /\ Goto(p, "failed")
  /\ UNCHANGED <<shared, podman, descriptor, content, release, reading, proved, failing>>

---------------------------------------------------------------------------
(* Failure and the world outside                                            *)

\* Podman, the network, the disk or a file of the tree: every step before publish may
\* raise.  What a container run raises passes through its finally block.
Fails(p) ==
  \/ /\ pc[p] \in {"start", "resolve", "download", "digest", "exists", "freeze", "check",
                   "read", "recheck", "build", "inspect", "current", "alone", "publish", "open"}
     /\ Goto(p, "failed") /\ UNCHANGED failing
     /\ UNCHANGED <<shared, podman, store, release, reading, proved>>
  \/ /\ At(p, "verify")
     /\ Goto(p, "remove") /\ failing' = [failing EXCEPT ![p] = TRUE]
     /\ UNCHANGED <<shared, podman, store, release, reading, proved>>

\* SIGKILL or a lost machine: no finally block runs.
Dies(p) ==
  /\ pc[p] \notin {"start", "done", "failed", "killed"}
  /\ Cardinality({q \in Preparers : pc[q] = "killed"}) < MaxKilled
  /\ Goto(p, "killed")
  /\ UNCHANGED <<shared, podman, store, release, reading, proved, failing>>

Edits ==
  \E f \in Files :
    /\ \A g \in Files : tree[g] < MaxEdits
    /\ tree' = [tree EXCEPT ![f] = @ + 1]
    /\ UNCHANGED <<current, podman, store, pc, release, reading, proved, failing>>

NewRelease ==
  /\ current < MaxRelease
  /\ current' = current + 1
  /\ UNCHANGED <<tree, podman, store, pc, release, reading, proved, failing>>

---------------------------------------------------------------------------

PreparerNext(p) ==
  \/ AssertsAlone(p, "start", "resolve") \/ Resolves(p) \/ Downloads(p) \/ Digests(p)
  \/ LooksForImage(p) \/ Freezes(p) \/ OpensInput(p) \/ ReadsInput(p) \/ Rechecks(p)
  \/ Builds(p) \/ InspectsImage(p) \/ Verifies(p) \/ Removes(p)
  \/ ConfirmsRelease(p) \/ AssertsAlone(p, "alone", "publish") \/ LooksForTemporary(p)
  \/ OpensTemporary(p) \/ Writes(p) \/ Replaces(p) \/ LooksForRest(p) \/ UnlinksRest(p)
  \/ Fails(p) \/ Dies(p)

Next == (\E p \in Preparers : PreparerNext(p)) \/ Edits \/ NewRelease

Spec == Init /\ [][Next]_vars

---------------------------------------------------------------------------
(* Properties                                                               *)

TypeOK ==
  /\ current \in Releases
  /\ tree \in [Files -> Versions]
  /\ tagged \subseteq Images
  /\ containers \subseteq Preparers \X {"target", "client"}
  /\ temporary \in Preparers \cup {Nobody}
  /\ descriptor \in Preparers \cup {Nobody}
  /\ content \in [Preparers -> {"none", "partial", "whole"}]
  /\ pc \in [Preparers -> Labels]
  /\ release \in [Preparers -> Releases \cup {0}]
  /\ file \in [Preparers -> Files]
  /\ digest \in [Preparers -> [Files -> Versions]]
  /\ frozen \in [Preparers -> [Files -> Versions]]
  /\ streamed \in [Preparers -> [Files -> Versions \cup {Torn}]]
  /\ proved \in [Preparers -> Seq(Images)]
  /\ \A p \in Preparers : Len(proved[p]) <= Len(Roles)
  /\ failing \in [Preparers -> BOOLEAN]

\* The pair that the descriptor names (read_image) is of one release, in its roles, and
\* both images were run and found sound, also when they came from another preparer's
\* build, a broken one's or the cache (prepare_one, verify_image, publish).
DescriptorIsProven ==
  descriptor # Nobody =>
    LET pair == proved[descriptor]
    IN  /\ Len(pair) = Len(Roles)
        /\ \A r \in 1 .. Len(Roles) :
             /\ pair[r].role = Roles[r]
             /\ pair[r].release = release[descriptor]
             /\ pair[r].sound

\* A context that write_archive accepted holds every input whole and as it was frozen,
\* whatever was edited while it was streamed.
AcceptedIsFrozen ==
  \A p \in Preparers : pc[p] = "build" => streamed[p] = frozen[p]

\* What refuses the next prepare, a labelled container or the temporary file, is never
\* left by a preparer that succeeded, or whose pair is published: the second look at the
\* containers is what tells it that `podman rm`, which it did not check, removed its own
\* (assert_no_runtime, publish).  One that fails in order may leave either.
PublisherLeavesNothing ==
  \A p \in Preparers :
    /\ pc[p] = "done" \/ descriptor = p => \A r \in 1 .. Len(Roles) : <<p, Roles[r]>> \notin containers
    /\ pc[p] = "done" => temporary # p

===============================================================================
