------------------------- MODULE ImagePreparationProofs -------------------------
(***************************************************************************)
(* Proofs about the preparation of the test images, for any preparers, any *)
(* number of build inputs, and any number of edits, releases and deaths.   *)
(***************************************************************************)
EXTENDS ImagePreparation, TLAPS

\* Where prepare_one works on the next image, and where the pair is complete.
Making == {"download", "digest", "exists", "freeze", "check", "read", "recheck", "build", "inspect"}
Paired == {"current", "alone", "publish", "open", "done"} \cup InPublish

\* A proved image is sound, but for the last one while its container is looked at or after
\* prepare() has given up.
SoundSoFar(p) ==
  \A r \in 1 .. Len(proved[p]) :
    /\ proved[p][r].role = Roles[r]
    /\ proved[p][r].release = release[p]
    /\ \/ proved[p][r].sound
       \/ r = Len(proved[p]) /\ (\/ pc[p] \in {"verify", "failed", "killed"}
                                 \/ pc[p] = "remove" /\ failing[p])

\* How many images are proved where.
PairInv(p) ==
  /\ pc[p] \in {"start", "resolve"} => proved[p] = <<>>
  /\ pc[p] \in Making => Len(proved[p]) < 2
  /\ pc[p] \in Making \cup {"verify", "remove"} => release[p] # 0
  /\ pc[p] \in Paired => Len(proved[p]) = 2

\* What DescriptorIsProven says of the preparer that wrote the descriptor.
Proven(p) ==
  /\ Len(proved[p]) = 2
  /\ \A r \in 1 .. 2 : /\ proved[p][r].role = Roles[r]
                       /\ proved[p][r].release = release[p]
                       /\ proved[p][r].sound

\* The file of a preparer, under either name, was written with a proved pair, which does
\* not change any more.
FileInv(p) ==
  temporary = p \/ descriptor = p =>
    Proven(p) /\ pc[p] \in InPublish \cup {"done", "failed", "killed"}

\* Inputs only grow newer; what is not as it was frozen differs from what is in the tree,
\* so that the second check, input by input, finds it.
Streaming(p, g) == streamed[p][g] = frozen[p][g] \/ tree[g] > frozen[p][g]

StreamInv(p) ==
  /\ \A g \in Files : frozen[p][g] <= tree[g]
  /\ pc[p] \in {"check", "read"} => \A g \in Files : g < file[p] => Streaming(p, g)
  /\ pc[p] = "recheck" =>
       \A g \in Files : /\ Streaming(p, g)
                        /\ g < file[p] => streamed[p][g] = frozen[p][g]
  /\ pc[p] = "build" => \A g \in Files : streamed[p][g] = frozen[p][g]

\* PublisherLeavesNothing, preparer by preparer: past the second look it has no container,
\* and with a file under either name it is past that look.
LeftInv(p) ==
  /\ pc[p] \in {"publish", "open", "done"} \cup InPublish \/ temporary = p \/ descriptor = p
       => \A r \in {"target", "client"} : <<p, r>> \notin containers
  /\ pc[p] = "done" => temporary # p

IInv ==
  /\ TypeOK
  /\ \A p \in Preparers : SoundSoFar(p) /\ PairInv(p) /\ FileInv(p) /\ StreamInv(p) /\ LeftInv(p)

-----------------------------------------------------------------------------
(* Types                                                                    *)

\* There are two roles, the target first.
LEMMA RolesType == Len(Roles) = 2 /\ Roles[1] = "target" /\ Roles[2] = "client"
BY DEF Roles

\* Nobody has proved, frozen or left anything.
LEMMA InitIInv == Init => IInv
<1> SUFFICES ASSUME Init PROVE IInv
  OBVIOUS
<1> USE BoundsAssumption, NobodyAssumption
    DEF Init, Files, Releases, Versions, Torn, None, Labels, InPublish
<1>1. TypeOK
  <2>1. \A p \in Preparers : proved[p] = <<>>
    OBVIOUS
  <2>2. None \in [Files -> Versions] /\ None \in [Files -> Versions \cup {Torn}]
    OBVIOUS
  <2>3. <<>> \in Seq(Images) /\ \A p \in Preparers : Len(proved[p]) = 0
    BY <2>1
  <2>4. digest \in [Preparers -> [Files -> Versions]] /\ frozen \in [Preparers -> [Files -> Versions]]
        /\ streamed \in [Preparers -> [Files -> Versions \cup {Torn}]]
    BY <2>2
  <2>5. proved \in [Preparers -> Seq(Images)]
    BY <2>3
  <2> QED BY <2>2, <2>3, <2>4, <2>5, RolesType DEF TypeOK
<1>2. ASSUME NEW p \in Preparers
      PROVE  SoundSoFar(p) /\ PairInv(p) /\ FileInv(p) /\ StreamInv(p) /\ LeftInv(p)
  <2>1. pc[p] = "start" /\ proved[p] = <<>> /\ p # temporary /\ p # descriptor
    OBVIOUS
  <2> QED BY <2>1 DEF SoundSoFar, PairInv, FileInv, StreamInv, LeftInv, Making, Paired
<1> QED BY <1>1, <1>2 DEF IInv

\* The loop over the inputs stays among them.
LEMMA NextFileType ==
  ASSUME TypeOK, NEW p \in Preparers, NEW again \in Labels, NEW after \in Labels,
         NextFile(p, again, after)
  PROVE  file' \in [Preparers -> Files] /\ pc' \in [Preparers -> Labels]
<1>1. CASE file[p] < FileCount
  <2>1. file[p] + 1 \in Files
    BY <1>1, BoundsAssumption DEF TypeOK, Files
  <2> QED BY <1>1, <2>1 DEF NextFile, Goto, TypeOK
<1>2. CASE ~(file[p] < FileCount)
  <2>1. 1 \in Files
    BY BoundsAssumption DEF Files
  <2> QED BY <1>2, <2>1 DEF NextFile, Goto, TypeOK
<1> QED BY <1>1, <1>2

\* What a tag of the next image says.
LEMMA TagType ==
  ASSUME TypeOK, NEW p \in Preparers, NEW i \in TagOf(p)
  PROVE  i \in Images /\ i.role = Role(p) /\ i.release = release[p]
BY DEF TagOf, TypeOK

\* The images one preparation tags are images.
LEMMA TypeTags ==
  ASSUME TypeOK, NEW p \in Preparers, Tags(p), Len(proved[p]) < 2, release[p] # 0
  PROVE  tagged' \subseteq Images
<1>1. Role(p) \in {"target", "client"}
  <2>1. proved[p] \in Seq(Images)
    BY DEF TypeOK
  <2>2. Len(proved[p]) \in Nat
    BY <2>1
  <2>3. Len(proved[p]) + 1 \in {1, 2}
    BY <2>2
  <2> QED BY <2>3, RolesType DEF Role
<1>2. release[p] \in Releases /\ digest[p] \in [Files -> Versions]
  BY DEF TypeOK
<1>3. TagOf(p) \subseteq tagged
  BY DEF TagOf
<1> QED BY <1>1, <1>2, <1>3 DEF Tags, TypeOK, Images

\* The steps that only look, and those of the files.
LEMMA TypeReads ==
  ASSUME TypeOK, NEW p \in Preparers,
         \/ Digests(p) \/ Freezes(p) \/ ReadsInput(p)
  PROVE  TypeOK'
<1> USE DEF shared, podman, store, reading
<1>0. {"digest", "exists", "freeze", "check", "recheck"} \subseteq Labels
  BY DEF Labels
<1>1. \A v \in Versions : v \in Versions \cup {Torn}
  OBVIOUS
<1>2. file[p] \in Files /\ tree[file[p]] \in Versions
  BY DEF TypeOK
<1>3. CASE Digests(p)
  <2>1. file' \in [Preparers -> Files] /\ pc' \in [Preparers -> Labels]
    BY <1>0, <1>3, NextFileType DEF Digests
  <2>2. digest' \in [Preparers -> [Files -> Versions]]
    BY <1>2, <1>3 DEF Digests, TypeOK
  <2> QED BY <1>3, <2>1, <2>2 DEF Digests, TypeOK
<1>4. CASE Freezes(p)
  <2>1. file' \in [Preparers -> Files] /\ pc' \in [Preparers -> Labels]
    BY <1>0, <1>4, NextFileType DEF Freezes
  <2>2. frozen' \in [Preparers -> [Files -> Versions]]
    BY <1>2, <1>4 DEF Freezes, TypeOK
  <2> QED BY <1>4, <2>1, <2>2 DEF Freezes, TypeOK
<1>5. CASE ReadsInput(p)
  <2>1. file' \in [Preparers -> Files] /\ pc' \in [Preparers -> Labels]
    BY <1>0, <1>5, NextFileType DEF ReadsInput
  <2>2. PICK v : /\ v \in {frozen[p][file[p]], tree[file[p]]} \cup IF Unchanged(p) THEN {} ELSE {Torn}
                 /\ streamed' = [streamed EXCEPT ![p][file[p]] = v]
    BY <1>5 DEF ReadsInput
  <2>3. v \in Versions \cup {Torn}
    BY <1>2, <2>2 DEF TypeOK
  <2>4. streamed' \in [Preparers -> [Files -> Versions \cup {Torn}]]
    BY <1>2, <2>2, <2>3 DEF TypeOK
  <2> QED BY <1>5, <2>1, <2>4 DEF ReadsInput, TypeOK
<1> QED BY <1>3, <1>4, <1>5

\* Looking, waiting, failing and dying keep the types.
LEMMA TypeLooks ==
  ASSUME TypeOK, NEW p \in Preparers,
         \/ AssertsAlone(p, "start", "resolve") \/ Downloads(p) \/ LooksForImage(p) \/ OpensInput(p)
         \/ Verifies(p) \/ ConfirmsRelease(p) \/ AssertsAlone(p, "alone", "publish")
         \/ LooksForTemporary(p) \/ LooksForRest(p) \/ Fails(p) \/ Dies(p)
  PROVE  TypeOK'
<1> USE DEF shared, podman, store, reading, Goto
<1>1. /\ UNCHANGED <<current, tree, tagged, containers, temporary, descriptor, content, release,
                     file, digest, frozen, streamed, proved>>
      /\ \E l \in Labels : pc' = [pc EXCEPT ![p] = l]
      /\ failing' \in [Preparers -> BOOLEAN]
  <2>1. CASE AssertsAlone(p, "start", "resolve") \/ AssertsAlone(p, "alone", "publish")
    BY <2>1 DEF AssertsAlone, TypeOK, Labels
  <2>2. CASE Downloads(p) \/ LooksForImage(p) \/ OpensInput(p)
    BY <2>2 DEF Downloads, LooksForImage, OpensInput, TypeOK, Labels
  <2>3. CASE Verifies(p)
    <3>1. (~proved[p][Len(proved[p])].sound) \in BOOLEAN
      OBVIOUS
    <3>2. failing' \in [Preparers -> BOOLEAN]
      BY <2>3, <3>1, Zenon DEF Verifies, TypeOK
    <3> QED BY <2>3, <3>2 DEF Verifies, Labels
  <2>4. CASE ConfirmsRelease(p) \/ LooksForTemporary(p) \/ LooksForRest(p)
    BY <2>4 DEF ConfirmsRelease, LooksForTemporary, LooksForRest, Outcome, TypeOK, Labels, InPublish
  <2>5. CASE Fails(p) \/ Dies(p)
    BY <2>5 DEF Fails, Dies, TypeOK, Labels
  <2> QED BY <2>1, <2>2, <2>3, <2>4, <2>5
<1>2. pc' \in [Preparers -> Labels]
  BY <1>1 DEF TypeOK
<1> QED BY <1>1, <1>2 DEF TypeOK

\* The steps that change what preparers share or what they know.
LEMMA TypeChanges ==
  ASSUME IInv, NEW p \in Preparers,
         \/ Resolves(p) \/ Rechecks(p) \/ Builds(p) \/ InspectsImage(p) \/ Removes(p)
         \/ OpensTemporary(p) \/ Writes(p) \/ Replaces(p) \/ UnlinksRest(p)
  PROVE  TypeOK'
<1> USE DEF shared, podman, store, reading, Goto
<1>0. TypeOK /\ PairInv(p) /\ "recheck" \in Labels /\ "build" \in Labels
  BY DEF IInv, Labels
<1>1. CASE Resolves(p)
  BY <1>0, <1>1 DEF Resolves, TypeOK, Labels
<1>2. CASE Rechecks(p)
  <2>1. Len(proved[p]) < 2 /\ release[p] # 0
    BY <1>0, <1>2 DEF Rechecks, At, PairInv, Making
  <2>2. tagged' \subseteq Images
    <3>1. tagged' = tagged \/ Tags(p)
      BY <1>2 DEF Rechecks, StreamFailed
    <3> QED BY <1>0, <2>1, <3>1, TypeTags DEF TypeOK
  <2>3. file' \in [Preparers -> Files] /\ pc' \in [Preparers -> Labels]
    <3>1. CASE NextFile(p, "recheck", "build")
      BY <1>0, <3>1, NextFileType
    <3>2. CASE StreamFailed(p) /\ UNCHANGED file
      BY <1>0, <3>2 DEF StreamFailed, TypeOK, Labels
    <3> QED BY <1>2, <3>1, <3>2 DEF Rechecks
  <2> QED BY <1>0, <1>2, <2>2, <2>3 DEF Rechecks, TypeOK
<1>3. CASE Builds(p)
  <2>1. tagged' \subseteq Images
    BY <1>0, <1>3, TypeTags DEF Builds, At, PairInv, Making
  <2> QED BY <1>0, <1>3, <2>1 DEF Builds, TypeOK, Labels
<1>4. CASE InspectsImage(p)
  <2>1. PICK i \in TagOf(p) : proved' = [proved EXCEPT ![p] = Append(@, i)]
    BY <1>4 DEF InspectsImage
  <2>2. i \in Images /\ Len(proved[p]) < 2
    BY <1>0, <1>4, TagType DEF InspectsImage, At, PairInv, Making
  <2>4. /\ proved' \in [Preparers -> Seq(Images)]
        /\ \A q \in Preparers : Len(proved'[q]) <= Len(Roles)
    <3>1. Append(proved[p], i) \in Seq(Images) /\ Len(Append(proved[p], i)) = Len(proved[p]) + 1
      BY <1>0, <2>2 DEF TypeOK
    <3> QED BY <1>0, <2>1, <2>2, <3>1, RolesType DEF TypeOK
  <2>5. Role(p) \in {"target", "client"}
    <3>1. Len(proved[p]) \in Nat
      BY <1>0 DEF TypeOK
    <3>2. Len(proved[p]) + 1 \in {1, 2}
      BY <2>2, <3>1
    <3> QED BY <3>2, RolesType DEF Role
  <2> QED BY <1>0, <1>4, <2>4, <2>5 DEF InspectsImage, TypeOK, Labels
<1>5. CASE Removes(p)
  <2>1. 1 \in Files /\ None \in [Files -> Versions] /\ None \in [Files -> Versions \cup {Torn}]
    BY BoundsAssumption DEF Files, None, Versions
  <2> QED BY <1>0, <1>5, <2>1 DEF Removes, Forget, TypeOK, Labels
<1>6. CASE OpensTemporary(p) \/ Writes(p)
  BY <1>0, <1>6 DEF OpensTemporary, Writes, TypeOK, Labels, InPublish
<1>7. CASE Replaces(p) \/ UnlinksRest(p)
  BY <1>0, <1>7 DEF Replaces, UnlinksRest, Outcome, TypeOK, Labels, InPublish
<1> QED BY <1>1, <1>2, <1>3, <1>4, <1>5, <1>6, <1>7

\* Every step of a preparer keeps the types.
LEMMA TypeStep ==
  ASSUME IInv, NEW p \in Preparers, PreparerNext(p)
  PROVE  TypeOK'
<1>1. TypeOK
  BY DEF IInv
<1> QED BY <1>1, TypeReads, TypeLooks, TypeChanges DEF PreparerNext

-----------------------------------------------------------------------------
(* A preparer changes what is its own                                       *)

\* What the step of one preparer leaves of another's.
LEMMA Others ==
  ASSUME TypeOK, NEW p \in Preparers, PreparerNext(p), NEW q \in Preparers, q # p
  PROVE  /\ UNCHANGED <<pc[q], release[q], file[q], frozen[q], streamed[q], proved[q], failing[q]>>
         /\ tree' = tree
         /\ \A r \in {"target", "client"} : <<q, r>> \in containers' => <<q, r>> \in containers
         /\ temporary' = q => temporary = q
         /\ descriptor' = q => descriptor = q \/ temporary = q
<1> USE NobodyAssumption
    DEF shared, podman, store, reading, Goto, At
<1>1. CASE AssertsAlone(p, "start", "resolve") \/ AssertsAlone(p, "alone", "publish")
  BY <1>1 DEF AssertsAlone, TypeOK
<1>2. CASE Resolves(p) \/ Downloads(p) \/ Digests(p) \/ LooksForImage(p) \/ Freezes(p) \/ OpensInput(p)
  BY <1>2 DEF Resolves, Downloads, Digests, LooksForImage, Freezes, OpensInput, NextFile, TypeOK
<1>3. CASE ReadsInput(p) \/ Rechecks(p) \/ Builds(p)
  BY <1>3 DEF ReadsInput, Rechecks, Builds, NextFile, StreamFailed, TypeOK
<1>4. CASE InspectsImage(p) \/ Verifies(p) \/ Removes(p)
  BY <1>4 DEF InspectsImage, Verifies, Removes, Forget, TypeOK
<1>5. CASE ConfirmsRelease(p) \/ LooksForTemporary(p) \/ OpensTemporary(p) \/ Writes(p)
  BY <1>5 DEF ConfirmsRelease, LooksForTemporary, OpensTemporary, Writes, TypeOK
<1>6. CASE Replaces(p) \/ LooksForRest(p) \/ UnlinksRest(p) \/ Fails(p) \/ Dies(p)
  BY <1>6 DEF Replaces, LooksForRest, UnlinksRest, Fails, Dies, TypeOK
<1> QED BY <1>1, <1>2, <1>3, <1>4, <1>5, <1>6 DEF PreparerNext

\* A preparer's step leaves what the invariant says of the others.
LEMMA OthersInv ==
  ASSUME IInv, NEW p \in Preparers, PreparerNext(p), NEW q \in Preparers, q # p
  PROVE  (SoundSoFar(q) /\ PairInv(q) /\ FileInv(q) /\ StreamInv(q) /\ LeftInv(q))'
<1>0. TypeOK /\ SoundSoFar(q) /\ PairInv(q) /\ FileInv(q) /\ StreamInv(q) /\ LeftInv(q)
  BY DEF IInv
<1>1. /\ UNCHANGED <<pc[q], release[q], file[q], frozen[q], streamed[q], proved[q], failing[q]>>
      /\ tree' = tree
      /\ \A r \in {"target", "client"} : <<q, r>> \in containers' => <<q, r>> \in containers
      /\ temporary' = q => temporary = q
      /\ descriptor' = q => descriptor = q \/ temporary = q
  BY <1>0, Others
<1>2. SoundSoFar(q)' /\ PairInv(q)'
  BY <1>0, <1>1 DEF SoundSoFar, PairInv
<1>3. FileInv(q)'
  BY <1>0, <1>1 DEF FileInv, Proven
<1>4. StreamInv(q)'
  BY <1>0, <1>1 DEF StreamInv, Streaming
<1>5. LeftInv(q)'
  BY <1>0, <1>1 DEF LeftInv
<1> QED BY <1>2, <1>3, <1>4, <1>5

-----------------------------------------------------------------------------
(* The pair                                                                 *)

\* Except where an image is added, a step of prepare() keeps its proofs; it changes the
\* release only before there are any.
LEMMA ProofsStay ==
  ASSUME TypeOK, NEW p \in Preparers, PreparerNext(p), ~InspectsImage(p), ~Resolves(p)
  PROVE  proved' = proved /\ release' = release
<1> USE DEF shared, podman, store, reading
<1>1. CASE AssertsAlone(p, "start", "resolve") \/ AssertsAlone(p, "alone", "publish")
  BY <1>1 DEF AssertsAlone
<1>2. CASE Downloads(p) \/ Digests(p) \/ LooksForImage(p) \/ Freezes(p) \/ OpensInput(p) \/ ReadsInput(p)
           \/ Rechecks(p) \/ Builds(p) \/ Verifies(p) \/ Removes(p)
  BY <1>2 DEF Downloads, Digests, LooksForImage, Freezes, OpensInput, ReadsInput, Rechecks, Builds,
     Verifies, Removes
<1>3. CASE ConfirmsRelease(p) \/ LooksForTemporary(p) \/ OpensTemporary(p) \/ Writes(p) \/ Replaces(p)
           \/ LooksForRest(p) \/ UnlinksRest(p) \/ Fails(p) \/ Dies(p)
  BY <1>3 DEF ConfirmsRelease, LooksForTemporary, OpensTemporary, Writes, Replaces, LooksForRest,
     UnlinksRest, Fails, Dies
<1> QED BY <1>1, <1>2, <1>3 DEF PreparerNext

\* Where a step that adds no image leads.
LEMMA Leads ==
  ASSUME IInv, NEW p \in Preparers, PreparerNext(p), ~InspectsImage(p), ~Resolves(p)
  PROVE  /\ pc'[p] \notin {"start", "verify"}
         /\ pc'[p] = "resolve" => pc[p] = "start"
         /\ pc'[p] \in Making => pc[p] \in Making \/ (pc[p] = "remove" /\ Len(proved[p]) < 2)
         /\ pc'[p] \in Paired => pc[p] \in Paired \/ (pc[p] = "remove" /\ ~(Len(proved[p]) < 2))
         /\ pc'[p] = "remove" =>
               pc[p] = "verify" /\ (failing'[p] \/ proved[p][Len(proved[p])].sound)
         /\ pc[p] = "remove" => pc'[p] \in {"failed", "killed"} \/ ~failing[p]
         /\ pc[p] = "verify" => pc'[p] \in {"remove", "killed"}
         /\ pc[p] \in {"failed", "killed"} => FALSE
<1> USE DEF shared, podman, store, reading, Goto, At, Making, Paired, InPublish
<1>0. TypeOK /\ pc[p] \in Labels
  BY DEF IInv, TypeOK
<1>1. CASE AssertsAlone(p, "start", "resolve") \/ AssertsAlone(p, "alone", "publish")
  BY <1>0, <1>1 DEF AssertsAlone, TypeOK
<1>2. CASE Downloads(p) \/ Digests(p) \/ LooksForImage(p) \/ Freezes(p) \/ OpensInput(p) \/ ReadsInput(p)
           \/ Rechecks(p) \/ Builds(p)
  BY <1>0, <1>2 DEF Downloads, Digests, LooksForImage, Freezes, OpensInput, ReadsInput, Rechecks,
     Builds, NextFile, StreamFailed, TypeOK
<1>3. CASE Verifies(p)
  <2>1. failing'[p] = ~proved[p][Len(proved[p])].sound
    BY <1>0, <1>3, Zenon DEF Verifies, TypeOK
  <2>2. pc[p] = "verify" /\ pc'[p] = "remove"
    BY <1>0, <1>3 DEF Verifies, TypeOK
  <2> QED BY <2>1, <2>2
<1>4. CASE Removes(p)
  BY <1>0, <1>4, RolesType DEF Removes, TypeOK
<1>5. CASE ConfirmsRelease(p) \/ LooksForTemporary(p) \/ OpensTemporary(p) \/ Writes(p) \/ Replaces(p)
           \/ LooksForRest(p) \/ UnlinksRest(p)
  BY <1>0, <1>5 DEF ConfirmsRelease, LooksForTemporary, OpensTemporary, Writes, Replaces, LooksForRest,
     UnlinksRest, Outcome, TypeOK
<1>6. CASE Fails(p) \/ Dies(p)
  BY <1>0, <1>6 DEF Fails, Dies, TypeOK
<1> QED BY <1>1, <1>2, <1>3, <1>4, <1>5, <1>6 DEF PreparerNext

\* Resolving and inspecting: a release before any image, one image more of that release.
LEMMA Inspected ==
  ASSUME IInv, NEW p \in Preparers, InspectsImage(p)
  PROVE  /\ Len(proved[p]) \in {0, 1} /\ pc[p] = "inspect" /\ pc'[p] = "verify"
         /\ release' = release
         /\ \E i \in TagOf(p) : /\ proved'[p] = Append(proved[p], i)
                                /\ Len(proved'[p]) = Len(proved[p]) + 1
                                /\ proved'[p][Len(proved[p]) + 1] = i
                                /\ \A r \in 1 .. Len(proved[p]) : proved'[p][r] = proved[p][r]
<1>1. TypeOK /\ PairInv(p) /\ pc[p] = "inspect" /\ pc'[p] = "verify" /\ release' = release
  BY DEF IInv, InspectsImage, At, Goto, TypeOK
<1>2. Len(proved[p]) \in {0, 1}
  <2>1. proved[p] \in Seq(Images) /\ Len(proved[p]) < 2
    BY <1>1 DEF PairInv, Making, TypeOK
  <2>2. Len(proved[p]) \in Nat
    BY <2>1
  <2>3. \A n \in Nat : n < 2 => n \in {0, 1}
    OBVIOUS
  <2> QED BY <2>1, <2>2, <2>3
<1>3. PICK i \in TagOf(p) : proved' = [proved EXCEPT ![p] = Append(@, i)]
  BY DEF InspectsImage
<1>4. proved'[p] = Append(proved[p], i) /\ proved[p] \in Seq(Images) /\ i \in Images
  BY <1>1, <1>3, TagType DEF TypeOK
<1>5. /\ Len(proved'[p]) = Len(proved[p]) + 1 /\ proved'[p][Len(proved[p]) + 1] = i
      /\ \A r \in 1 .. Len(proved[p]) : proved'[p][r] = proved[p][r]
  BY <1>4
<1> QED BY <1>1, <1>2, <1>3, <1>4, <1>5

\* Images are proved one after the other, and none once the pair is complete.
LEMMA PairStep ==
  ASSUME IInv, NEW p \in Preparers, PreparerNext(p)
  PROVE  PairInv(p)'
<1>0. TypeOK /\ PairInv(p) /\ Len(proved[p]) \in Nat /\ Len(proved[p]) <= 2
  BY RolesType DEF IInv, TypeOK
<1>1. CASE InspectsImage(p)
  <2>1. pc[p] = "inspect" /\ pc'[p] = "verify" /\ release' = release
    BY <1>1, Inspected
  <2>2. release[p] # 0
    BY <1>0, <2>1 DEF PairInv, Making
  <2> QED BY <2>1, <2>2 DEF PairInv, Making, Paired, InPublish
<1>2. CASE Resolves(p)
  <2>1. /\ pc[p] = "resolve" /\ pc'[p] = "download" /\ proved'[p] = proved[p]
        /\ release'[p] \in Releases
    BY <1>0, <1>2 DEF Resolves, At, Goto, TypeOK, reading
  <2>2. proved[p] = <<>> /\ Len(proved[p]) = 0 /\ release'[p] # 0
    BY <1>0, <2>1 DEF PairInv, Releases
  <2> QED BY <2>1, <2>2 DEF PairInv, Making, Paired, InPublish
<1>3. CASE ~InspectsImage(p) /\ ~Resolves(p)
  <2>1. proved' = proved /\ release' = release
    BY <1>0, <1>3, ProofsStay
  <2>2. /\ pc'[p] \notin {"start", "verify"}
        /\ pc'[p] = "resolve" => pc[p] = "start"
        /\ pc'[p] \in Making => pc[p] \in Making \/ (pc[p] = "remove" /\ Len(proved[p]) < 2)
        /\ pc'[p] \in Paired => pc[p] \in Paired \/ (pc[p] = "remove" /\ ~(Len(proved[p]) < 2))
        /\ pc'[p] = "remove" => pc[p] = "verify"
    BY <1>3, Leads
  <2>3. pc[p] \in {"verify", "remove"} => release[p] # 0
    BY <1>0 DEF PairInv
  <2>4. proved'[p] = proved[p] /\ release'[p] = release[p]
    BY <2>1
  <2>5. pc'[p] \in {"start", "resolve"} => proved[p] = <<>>
    BY <1>0, <2>2 DEF PairInv
  <2>6. /\ pc'[p] \in Making => Len(proved[p]) < 2
        /\ pc'[p] \in Paired => Len(proved[p]) = 2
    <3>1. \A n \in Nat : n <= 2 /\ ~(n < 2) => n = 2
      OBVIOUS
    <3>2. ~(Len(proved[p]) < 2) => Len(proved[p]) = 2
      BY <1>0, <3>1
    <3> QED BY <1>0, <2>2, <3>2 DEF PairInv
  <2>7. pc'[p] \in Making \cup {"verify", "remove"} => release[p] # 0
    <3>1. pc[p] \in Making => release[p] # 0
      BY <1>0 DEF PairInv
    <3>2. pc'[p] \in Making => release[p] # 0
      BY <2>2, <2>3, <3>1
    <3>3. pc'[p] \in {"verify", "remove"} => release[p] # 0
      BY <2>2, <2>3
    <3> QED BY <3>2, <3>3
  <2> QED BY <2>4, <2>5, <2>6, <2>7 DEF PairInv
<1> QED BY <1>1, <1>2, <1>3

\* An image that is not sound ends its preparation.
LEMMA SoundStep ==
  ASSUME IInv, NEW p \in Preparers, PreparerNext(p)
  PROVE  SoundSoFar(p)'
<1>0. TypeOK /\ PairInv(p) /\ SoundSoFar(p) /\ Len(proved[p]) \in Nat
  BY DEF IInv, TypeOK
<1>1. CASE InspectsImage(p)
  <2>1. PICK i \in TagOf(p) : /\ Len(proved'[p]) = Len(proved[p]) + 1
                             /\ proved'[p][Len(proved[p]) + 1] = i
                             /\ \A r \in 1 .. Len(proved[p]) : proved'[p][r] = proved[p][r]
    BY <1>1, Inspected
  <2>2. /\ pc[p] = "inspect" /\ pc'[p] = "verify" /\ release' = release
        /\ i.role = Roles[Len(proved[p]) + 1] /\ i.release = release[p]
    BY <1>0, <1>1, Inspected, TagType DEF Role
  <2>3. \A r \in 1 .. Len(proved[p]) : /\ proved[p][r].role = Roles[r]
                                       /\ proved[p][r].release = release[p]
                                       /\ proved[p][r].sound
    BY <1>0, <2>2 DEF SoundSoFar
  <2>4. \A r \in 1 .. Len(proved'[p]) : r \in 1 .. Len(proved[p]) \/ r = Len(proved[p]) + 1
    BY <1>0, <2>1
  <2> QED BY <2>1, <2>2, <2>3, <2>4 DEF SoundSoFar
<1>2. CASE Resolves(p)
  <2>1. proved'[p] = proved[p] /\ proved[p] = <<>>
    BY <1>0, <1>2 DEF Resolves, At, Goto, TypeOK, reading, PairInv
  <2>2. Len(proved'[p]) = 0
    BY <2>1
  <2> QED BY <2>2 DEF SoundSoFar
<1>3. CASE ~InspectsImage(p) /\ ~Resolves(p)
  <2>1. proved' = proved /\ release' = release
    BY <1>0, <1>3, ProofsStay
  <2>2. /\ pc'[p] \notin {"start", "verify"}
        /\ pc'[p] = "remove" =>
              pc[p] = "verify" /\ (failing'[p] \/ proved[p][Len(proved[p])].sound)
        /\ pc[p] = "remove" => pc'[p] \in {"failed", "killed"} \/ ~failing[p]
        /\ pc[p] = "verify" => pc'[p] \in {"remove", "killed"}
        /\ pc[p] \in {"failed", "killed"} => FALSE
    BY <1>3, Leads
  <2> QED BY <1>0, <2>1, <2>2 DEF SoundSoFar
<1> QED BY <1>1, <1>2, <1>3

\* Where the descriptor is written both images are proved, and they stay so.
LEMMA PairIsProven ==
  ASSUME TypeOK, NEW p \in Preparers, SoundSoFar(p), PairInv(p), pc[p] \in Paired
  PROVE  Proven(p)
<1>1. Len(proved[p]) = 2 /\ pc[p] \notin {"verify", "failed", "killed", "remove"}
  BY DEF PairInv, Paired, InPublish
<1> QED BY <1>1 DEF SoundSoFar, Proven

\* Only a proved pair is written, and only its writer moves or removes it, or another under the same name.
LEMMA FileStep ==
  ASSUME IInv, NEW p \in Preparers, PreparerNext(p)
  PROVE  FileInv(p)'
<1> USE NobodyAssumption DEF shared, podman, store, reading, Goto, At
<1>0. TypeOK /\ PairInv(p) /\ SoundSoFar(p) /\ FileInv(p)
  BY DEF IInv
<1>1. pc[p] \in Paired => Proven(p)
  BY <1>0, PairIsProven
<1>2. CASE OpensTemporary(p) \/ Writes(p) \/ Replaces(p) \/ LooksForRest(p) \/ UnlinksRest(p)
  <2>1. pc[p] \in Paired /\ proved' = proved /\ release' = release
        /\ pc'[p] \in InPublish \cup {"done", "failed"}
    BY <1>0, <1>2 DEF OpensTemporary, Writes, Replaces, LooksForRest, UnlinksRest, Outcome, TypeOK,
       Paired, InPublish
  <2>2. Proven(p)'
    BY <1>1, <2>1 DEF Proven
  <2> QED BY <2>1, <2>2 DEF FileInv
<1>3. CASE ~(OpensTemporary(p) \/ Writes(p) \/ Replaces(p) \/ LooksForRest(p) \/ UnlinksRest(p))
  <2>1. UNCHANGED <<temporary, descriptor>>
    BY <1>3 DEF PreparerNext, AssertsAlone, Resolves, Downloads, Digests, LooksForImage, Freezes,
       OpensInput, ReadsInput, Rechecks, Builds, InspectsImage, Verifies, Removes, ConfirmsRelease,
       LooksForTemporary, Fails, Dies
  <2>2. CASE ~(temporary = p \/ descriptor = p)
    BY <2>1, <2>2 DEF FileInv
  <2>3. CASE temporary = p \/ descriptor = p
    <3>1. pc[p] \in InPublish \cup {"done", "failed", "killed"} /\ Proven(p)
      BY <1>0, <2>3 DEF FileInv
    <3>2. ~InspectsImage(p) /\ ~Resolves(p)
      BY <3>1 DEF InspectsImage, Resolves, InPublish
    <3>3. proved' = proved /\ release' = release
      BY <1>0, <3>2, ProofsStay
    <3>4. pc'[p] = "killed"
      BY <1>0, <1>3, <3>1 DEF PreparerNext, AssertsAlone, Resolves, Downloads, Digests, LooksForImage,
         Freezes, OpensInput, ReadsInput, Rechecks, Builds, InspectsImage, Verifies, Removes,
         ConfirmsRelease, LooksForTemporary, Fails, Dies, InPublish, TypeOK
    <3> QED BY <3>1, <3>3, <3>4 DEF FileInv, Proven
  <2> QED BY <2>2, <2>3
<1> QED BY <1>2, <1>3

-----------------------------------------------------------------------------
(* The build context                                                        *)

\* The loop over the inputs goes to the next one, or it has seen all of them.
LEMMA NextFileGoes ==
  ASSUME TypeOK, NEW p \in Preparers, NEW again, NEW after, again # after, NextFile(p, again, after)
  PROVE  /\ pc'[p] \in {again, after}
         /\ pc'[p] = again => \A g \in Files : g < file'[p] => g < file[p] \/ g = file[p]
         /\ pc'[p] = after => \A g \in Files : g < file[p] \/ g = file[p]
         /\ pc'[p] = after => \A g \in Files : ~(g < file'[p])
<1> USE BoundsAssumption
<1>1. file[p] \in Nat /\ file[p] <= FileCount /\ FileCount \in Nat /\ \A g \in Files : g \in 1 .. FileCount
  BY DEF TypeOK, Files
<1>2. CASE file[p] < FileCount
  <2>1. pc'[p] = again /\ file'[p] = file[p] + 1
    BY <1>2 DEF NextFile, Goto, TypeOK
  <2> QED BY <1>1, <2>1
<1>3. CASE ~(file[p] < FileCount)
  <2>1. pc'[p] = after /\ file'[p] = 1
    BY <1>3 DEF NextFile, Goto, TypeOK
  <2> QED BY <1>1, <1>3, <2>1
<1> QED BY <1>2, <1>3

\* What was frozen and streamed, through the loops of write_archive.
LEMMA StreamStep ==
  ASSUME IInv, NEW p \in Preparers, PreparerNext(p)
  PROVE  StreamInv(p)'
<1> USE DEF shared, podman, store, reading, At
<1>0. /\ TypeOK /\ StreamInv(p)
      /\ file[p] \in Files
      /\ \A g \in Files : tree[g] \in Int /\ frozen[p][g] \in Int
  <2>1. TypeOK /\ StreamInv(p)
    BY DEF IInv
  <2>2. /\ file[p] \in Files /\ tree \in [Files -> Versions] /\ frozen[p] \in [Files -> Versions]
    BY <2>1 DEF TypeOK
  <2>3. Versions \subseteq Int
    BY BoundsAssumption DEF Versions
  <2> QED BY <2>1, <2>2, <2>3
<1>1. CASE Freezes(p)
  <2>1. frozen'[p] = [frozen[p] EXCEPT ![file[p]] = tree[file[p]]] /\ tree' = tree
    BY <1>0, <1>1 DEF Freezes, TypeOK
  <2>2. \A g \in Files : frozen'[p][g] <= tree'[g]
    BY <1>0, <2>1 DEF StreamInv, TypeOK
  <2>3. pc'[p] \in {"freeze", "check"} /\ (pc'[p] = "check" => \A g \in Files : ~(g < file'[p]))
    BY <1>0, <1>1, NextFileGoes DEF Freezes
  <2> QED BY <2>2, <2>3 DEF StreamInv
<1>2. CASE OpensInput(p)
  <2>1. pc[p] = "check" /\ pc'[p] \in {"read", "failed"}
    BY <1>0, <1>2 DEF OpensInput, Goto, TypeOK
  <2>2. UNCHANGED <<tree, frozen, streamed, file>>
    BY <1>2 DEF OpensInput
  <2> QED BY <1>0, <2>1, <2>2 DEF StreamInv, Streaming
<1>3. CASE ReadsInput(p)
  <2>1. PICK v : /\ v \in {frozen[p][file[p]], tree[file[p]]} \cup IF Unchanged(p) THEN {} ELSE {Torn}
                 /\ streamed' = [streamed EXCEPT ![p][file[p]] = v]
    BY <1>3 DEF ReadsInput
  <2>2. UNCHANGED <<tree, frozen>> /\ pc[p] = "read"
    BY <1>3 DEF ReadsInput
  <2>3. streamed'[p] = [streamed[p] EXCEPT ![file[p]] = v] /\ streamed[p] \in [Files -> Versions \cup {Torn}]
    BY <1>0, <2>1 DEF TypeOK
  <2>4. v = frozen[p][file[p]] \/ tree[file[p]] > frozen[p][file[p]]
    BY <1>0, <2>1 DEF Unchanged, StreamInv
  <2>5. \A g \in Files : g < file[p] \/ g = file[p] => Streaming(p, g)'
    BY <1>0, <2>2, <2>3, <2>4 DEF StreamInv, Streaming
  <2>6. /\ pc'[p] \in {"check", "recheck"}
        /\ pc'[p] = "check" => \A g \in Files : g < file'[p] => g < file[p] \/ g = file[p]
        /\ pc'[p] = "recheck" => \A g \in Files : g < file[p] \/ g = file[p]
        /\ pc'[p] = "recheck" => \A g \in Files : ~(g < file'[p])
    BY <1>0, <1>3, NextFileGoes DEF ReadsInput
  <2> QED BY <1>0, <2>2, <2>5, <2>6 DEF StreamInv
<1>4. CASE Rechecks(p)
  <2>1. UNCHANGED <<tree, frozen, streamed>> /\ pc[p] = "recheck"
    BY <1>4 DEF Rechecks
  <2>2. CASE Unchanged(p) /\ NextFile(p, "recheck", "build")
    <3>1. streamed[p][file[p]] = frozen[p][file[p]]
      BY <1>0, <2>1, <2>2 DEF StreamInv, Streaming, Unchanged
    <3>2. /\ pc'[p] \in {"recheck", "build"}
          /\ pc'[p] = "recheck" => \A g \in Files : g < file'[p] => g < file[p] \/ g = file[p]
          /\ pc'[p] = "build" => \A g \in Files : g < file[p] \/ g = file[p]
      BY <1>0, <2>2, NextFileGoes
    <3> QED BY <1>0, <2>1, <3>1, <3>2 DEF StreamInv, Streaming
  <2>3. CASE StreamFailed(p)
    <3>1. pc'[p] = "failed"
      BY <1>0, <2>3 DEF StreamFailed, Goto, TypeOK
    <3> QED BY <1>0, <2>1, <3>1 DEF StreamInv
  <2> QED BY <1>4, <2>2, <2>3 DEF Rechecks
<1>5. CASE Removes(p)
  <2>1. frozen'[p] = None /\ tree' = tree /\ pc'[p] \in {"failed", "download", "current"}
    BY <1>0, <1>5 DEF Removes, Forget, Goto, TypeOK
  <2>2. \A g \in Files : None[g] = 0 /\ tree[g] \in Nat
    BY <1>0, BoundsAssumption DEF None, TypeOK, Versions
  <2> QED BY <2>1, <2>2 DEF StreamInv
<1>6. CASE ~(Freezes(p) \/ OpensInput(p) \/ ReadsInput(p) \/ Rechecks(p) \/ Removes(p))
  <2>1. UNCHANGED <<tree, frozen>>
    BY <1>6 DEF PreparerNext, AssertsAlone, Resolves, Downloads, Digests, LooksForImage, Builds,
       InspectsImage, Verifies, ConfirmsRelease, LooksForTemporary, OpensTemporary, Writes, Replaces,
       LooksForRest, UnlinksRest, Fails, Dies
  <2>2. pc'[p] \notin {"check", "read", "recheck", "build"}
    <3>1. CASE AssertsAlone(p, "start", "resolve") \/ AssertsAlone(p, "alone", "publish")
      BY <1>0, <3>1 DEF AssertsAlone, Goto, TypeOK
    <3>2. CASE Resolves(p) \/ Downloads(p) \/ LooksForImage(p) \/ Builds(p) \/ InspectsImage(p) \/ Verifies(p)
      BY <1>0, <3>2 DEF Resolves, Downloads, LooksForImage, Builds, InspectsImage, Verifies, Goto, TypeOK
    <3>3. CASE Digests(p)
      BY <1>0, <3>3, NextFileGoes DEF Digests
    <3>4. CASE ConfirmsRelease(p) \/ LooksForTemporary(p) \/ OpensTemporary(p) \/ Writes(p) \/ Replaces(p)
                 \/ LooksForRest(p) \/ UnlinksRest(p)
      BY <1>0, <3>4 DEF ConfirmsRelease, LooksForTemporary, OpensTemporary, Writes, Replaces,
         LooksForRest, UnlinksRest, Outcome, Goto, TypeOK
    <3>5. CASE Fails(p) \/ Dies(p)
      BY <1>0, <3>5 DEF Fails, Dies, Goto, TypeOK
    <3> QED BY <1>6, <3>1, <3>2, <3>3, <3>4, <3>5 DEF PreparerNext
  <2> QED BY <1>0, <2>1, <2>2 DEF StreamInv
<1> QED BY <1>1, <1>2, <1>3, <1>4, <1>5, <1>6

-----------------------------------------------------------------------------
(* What stays behind                                                        *)

\* A preparer that sees no container has none, and none is added once it has its pair.
LEMMA LeftStep ==
  ASSUME IInv, NEW p \in Preparers, PreparerNext(p)
  PROVE  LeftInv(p)'
<1> USE NobodyAssumption DEF shared, podman, store, reading, At, Goto, InPublish
<1>0. TypeOK /\ LeftInv(p) /\ FileInv(p)
  BY DEF IInv
<1>1. CASE InspectsImage(p) \/ Verifies(p) \/ Removes(p)
  <2>1. /\ UNCHANGED <<temporary, descriptor>>
        /\ pc[p] \in {"inspect", "verify", "remove"}
        /\ pc'[p] \in {"verify", "remove", "failed", "download", "current"}
    BY <1>0, <1>1 DEF InspectsImage, Verifies, Removes, TypeOK
  <2>2. temporary # p /\ descriptor # p
    BY <1>0, <2>1 DEF FileInv
  <2> QED BY <2>1, <2>2 DEF LeftInv
<1>2. CASE AssertsAlone(p, "start", "resolve") \/ AssertsAlone(p, "alone", "publish")
  <2>1. /\ UNCHANGED <<containers, temporary, descriptor>>
        /\ pc[p] \in {"start", "alone"} /\ pc'[p] \in {"failed", "resolve", "publish"}
        /\ pc'[p] = "publish" => containers = {}
    BY <1>0, <1>2 DEF AssertsAlone, TypeOK
  <2> QED BY <1>0, <2>1 DEF LeftInv, FileInv
<1>3. CASE LooksForTemporary(p) \/ OpensTemporary(p) \/ Writes(p) \/ Replaces(p)
  BY <1>0, <1>3 DEF LooksForTemporary, OpensTemporary, Writes, Replaces, LeftInv, TypeOK
<1>4. CASE LooksForRest(p) \/ UnlinksRest(p)
  BY <1>0, <1>4 DEF LooksForRest, UnlinksRest, Outcome, LeftInv, TypeOK
<1>5. CASE Fails(p) \/ Dies(p)
  BY <1>0, <1>5 DEF Fails, Dies, LeftInv, TypeOK
<1>6. CASE \/ Resolves(p) \/ Downloads(p) \/ Digests(p) \/ LooksForImage(p) \/ Freezes(p) \/ OpensInput(p)
           \/ ReadsInput(p) \/ Rechecks(p) \/ Builds(p) \/ ConfirmsRelease(p)
  <2>1. /\ UNCHANGED <<containers, temporary, descriptor>>
        /\ pc'[p] \notin InPublish \cup {"publish", "open", "done"}
    BY <1>0, <1>6 DEF Resolves, Downloads, Digests, LooksForImage, Freezes, OpensInput, ReadsInput,
       Rechecks, Builds, ConfirmsRelease, NextFile, StreamFailed, TypeOK
  <2> QED BY <1>0, <2>1 DEF LeftInv
<1> QED BY <1>1, <1>2, <1>3, <1>4, <1>5, <1>6 DEF PreparerNext

-----------------------------------------------------------------------------
(* The world outside, and the whole                                         *)

\* Edits and new releases disturb nobody: inputs only grow newer.
LEMMA OutsideKeeps ==
  ASSUME IInv, Edits \/ NewRelease
  PROVE  IInv'
<1> USE DEF shared, podman, store, reading
<1>1. /\ UNCHANGED <<tagged, containers, temporary, descriptor, content, pc, release, file, digest,
                     frozen, streamed, proved, failing>>
      /\ tree' \in [Files -> Versions] /\ \A g \in Files : tree[g] <= tree'[g]
      /\ current' \in Releases
  <2>1. CASE Edits
    <3>1. PICK f \in Files : /\ \A g \in Files : tree[g] < MaxEdits
                            /\ tree' = [tree EXCEPT ![f] = @ + 1]
      BY <2>1 DEF Edits
    <3>2. \A g \in Files : tree[g] \in 0 .. MaxEdits
      BY DEF IInv, TypeOK, Versions
    <3>3. tree[f] + 1 \in Versions /\ \A g \in Files : tree[g] <= tree[g] /\ tree[g] <= tree[g] + 1
      BY <3>1, <3>2, BoundsAssumption DEF Versions
    <3> QED BY <2>1, <3>1, <3>3 DEF Edits, IInv, TypeOK
  <2>2. CASE NewRelease
    <3>1. \A g \in Files : tree[g] <= tree[g]
      BY BoundsAssumption DEF IInv, TypeOK, Versions
    <3> QED BY <2>2, <3>1, BoundsAssumption DEF NewRelease, IInv, TypeOK, Releases
  <2> QED BY <2>1, <2>2
<1>2. TypeOK'
  BY <1>1 DEF IInv, TypeOK
<1>3. ASSUME NEW p \in Preparers PROVE (SoundSoFar(p) /\ PairInv(p) /\ FileInv(p) /\ LeftInv(p))'
  BY <1>1 DEF IInv, SoundSoFar, PairInv, FileInv, Proven, LeftInv
<1>4. ASSUME NEW p \in Preparers PROVE StreamInv(p)'
  <2>1. \A g \in Files : /\ tree[g] \in Int /\ tree'[g] \in Int /\ frozen[p][g] \in Int
                         /\ tree[g] <= tree'[g]
    BY <1>1, BoundsAssumption DEF IInv, TypeOK, Versions
  <2>2. \A g \in Files : /\ frozen[p][g] <= tree[g] => frozen[p][g] <= tree'[g]
                         /\ tree[g] > frozen[p][g] => tree'[g] > frozen[p][g]
    BY <2>1
  <2>3. StreamInv(p)
    BY DEF IInv
  <2> QED BY <1>1, <2>2, <2>3 DEF StreamInv, Streaming
<1> QED BY <1>2, <1>3, <1>4 DEF IInv

\* Every step keeps the invariant.
LEMMA NextIInv == IInv /\ [Next]_vars => IInv'
<1>1. ASSUME IInv, NEW p \in Preparers, PreparerNext(p) PROVE IInv'
  <2>1. TypeOK'
    BY <1>1, TypeStep
  <2>2. ASSUME NEW q \in Preparers
        PROVE  (SoundSoFar(q) /\ PairInv(q) /\ FileInv(q) /\ StreamInv(q) /\ LeftInv(q))'
    <3>1. CASE q = p
      BY <1>1, <3>1, SoundStep, PairStep, FileStep, StreamStep, LeftStep
    <3>2. CASE q # p
      BY <1>1, <3>2, OthersInv
    <3> QED BY <3>1, <3>2
  <2> QED BY <2>1, <2>2 DEF IInv
<1>2. ASSUME IInv, UNCHANGED vars PROVE IInv'
  BY <1>2 DEF vars, shared, podman, store, reading, IInv, TypeOK, SoundSoFar, PairInv, FileInv, Proven,
     StreamInv, Streaming, LeftInv
<1> QED BY <1>1, <1>2, OutsideKeeps DEF Next

\* The inductive invariant holds in every reachable state.
THEOREM Invariance == Spec => []IInv
BY InitIInv, NextIInv, PTL DEF Spec

\* The variables keep their types.
THEOREM TypeCorrect == Spec => []TypeOK
<1>1. IInv => TypeOK
  BY DEF IInv
<1> QED BY <1>1, Invariance, PTL

\* Whoever wrote the descriptor that is published had run both images of its release and
\* found them sound, with any number of preparers that race, fail or die.
THEOREM PublishedIsProven == Spec => []DescriptorIsProven
<1>1. ASSUME IInv PROVE DescriptorIsProven
  <2>1. ASSUME descriptor # Nobody PROVE Proven(descriptor)
    <3>1. descriptor \in Preparers
      BY <1>1, <2>1 DEF IInv, TypeOK
    <3> QED BY <1>1, <3>1 DEF IInv, FileInv
  <2> QED BY <2>1, RolesType DEF DescriptorIsProven, Proven
<1> QED BY <1>1, Invariance, PTL

\* A build context that passed the second check holds what was frozen, for any number of
\* inputs and edits.
THEOREM ContextIsFrozen == Spec => []AcceptedIsFrozen
<1>1. ASSUME IInv PROVE AcceptedIsFrozen
  <2>1. ASSUME NEW p \in Preparers, pc[p] = "build" PROVE streamed[p] = frozen[p]
    <3>1. /\ streamed[p] \in [Files -> Versions \cup {Torn}] /\ frozen[p] \in [Files -> Versions]
          /\ \A g \in Files : streamed[p][g] = frozen[p][g]
      BY <1>1, <2>1 DEF IInv, TypeOK, StreamInv
    <3> QED BY <3>1
  <2> QED BY <2>1 DEF AcceptedIsFrozen
<1> QED BY <1>1, Invariance, PTL

\* A preparer that succeeded, or whose pair is published, left no labelled container, and
\* the temporary name is free of it: with any number of preparers, whatever `podman rm`
\* did and whichever removal raised, for them and for the others.
THEOREM PublishersLeaveNothing == Spec => []PublisherLeavesNothing
<1>1. ASSUME IInv PROVE PublisherLeavesNothing
  <2>1. \A r \in 1 .. Len(Roles) : Roles[r] \in {"target", "client"}
    BY RolesType
  <2> QED BY <1>1, <2>1 DEF IInv, LeftInv, PublisherLeavesNothing
<1> QED BY <1>1, Invariance, PTL

===============================================================================
