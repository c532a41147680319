------------------------- MODULE ModelInstallProofs -------------------------
(***************************************************************************)
(* What holds of models on disk for every set of files and any number of   *)
(* failures, crashes, power cuts and removals.                             *)
(***************************************************************************)
EXTENDS ModelInstall, TLAPS

USE InstallAssumption DEF Downloads

(* Directories stay directories when entries are deleted. *)
LEMMA KeepIsDirectory ==
    ASSUME NEW d \in Directory, NEW kept
    PROVE  /\ Keep(d, kept) \in Directory
           /\ \A f \in Files : Keep(d, kept).files[f] \in {"none", d.files[f]}
           /\ Keep(d, kept).manifest \in {NoManifest, d.manifest}
BY DEF Keep, Directory, Manifest, NoManifest, NoContent, Content

(* A directory that was never made. *)
LEMMA EmptyIsDirectory ==
    Empty \in Directory /\ Empty.manifest = NoManifest /\ NoManifest.archive = "none"
    /\ NoContent \in [Files -> Content]
BY DEF Empty, Directory, Manifest, NoManifest, NoContent, Content

(* A directory that lacks an entry does not verify. *)
LEMMA DeletedDoesNotVerify ==
    ASSUME NEW d \in Directory, NEW e \in Entries
    PROVE  ~Verified(Keep(d, Entries \ {e}))
<1>1. CASE e = "manifest"
  <2>1. Keep(d, Entries \ {e}).manifest = NoManifest
    BY <1>1 DEF Keep
  <2> QED
    BY <2>1, EmptyIsDirectory DEF Verified, IsPresent, Pinned
<1>2. CASE e \in Files
  <2>1. Keep(d, Entries \ {e}).files[e] = "none"
    BY <1>2 DEF Keep
  <2> QED
    BY <1>2, <2>1 DEF Verified, IsPresent
<1> QED
  BY <1>1, <1>2 DEF Entries

(* What verifies is the pinned model, if its manifest is true. *)
LEMMA VerifiedIsPinned ==
    ASSUME dir \in Directory, ManifestIsTrue, Verified(dir)
    PROVE  \A f \in Files : dir.files[f] = Pinned
BY DEF ManifestIsTrue, Verified, IsPresent, Pinned

(* A staged directory that was sealed verifies, and its manifest is true. *)
LEMMA SealedVerifies ==
    ASSUME NEW d \in Directory, d.manifest = ManifestOf(d),
           \A f \in Files : d.files[f] = Pinned
    PROVE  /\ Verified(d)
           /\ \A f \in Files : d.manifest.sha[f] = Pinned
BY DEF Verified, IsPresent, ManifestOf, SameSize, Pinned

(* Sealing changes the manifest only. *)
LEMMA ManifestOfIsManifest ==
    ASSUME NEW d \in Directory
    PROVE  /\ ManifestOf(d) \in Manifest
           /\ [d EXCEPT !.manifest = ManifestOf(d)] \in Directory
           /\ [d EXCEPT !.manifest = ManifestOf(d)].files = d.files
           /\ [d EXCEPT !.manifest = ManifestOf(d)].manifest = ManifestOf(d)
BY DEF ManifestOf, Directory, Manifest, Content, Pinned

(* Writing a file changes that file only. *)
LEMMA FileIsWritten ==
    ASSUME NEW d \in Directory, NEW f \in Files, NEW c \in Content
    PROVE  /\ [d EXCEPT !.files[f] = c] \in Directory
           /\ [d EXCEPT !.files[f] = c].files = [d.files EXCEPT ![f] = c]
           /\ [d EXCEPT !.files[f] = c].manifest = d.manifest
BY DEF Directory

(* What is left after one deletion. *)
LEMMA EntryDeleted ==
    ASSUME dir \in Directory, DeleteEntry
    PROVE  /\ dir' \in Directory /\ ~Verified(dir')
           /\ \A f \in Files : dir'.files[f] \in {"none", dir.files[f]}
           /\ dir'.manifest \in {NoManifest, dir.manifest}
BY KeepIsDirectory, DeletedDoesNotVerify DEF DeleteEntry

(* A power cut changes no hash: a manifest loses lines, files lose bytes. *)
LEMMA DamageDone ==
    ASSUME dir \in Directory, Damage
    PROVE  /\ dir' \in Directory
           /\ dir'.manifest.archive \in {"none", dir.manifest.archive}
           /\ \A f \in Files : dir'.manifest.sha[f] \in {"none", dir.manifest.sha[f]}
<1>1. PICK cut \in SUBSET Files, spoilt \in SUBSET Files, m \in Torn(dir.manifest) :
        dir' = [files |-> [f \in Files |->
                    IF dir.files[f] = "none" THEN "none"
                    ELSE IF f \in cut THEN "short"
                    ELSE IF f \in spoilt THEN "bad"
                    ELSE dir.files[f]],
                manifest |-> m]
  BY DEF Damage
<1>2. dir.files \in [Files -> Content] /\ dir.manifest \in Manifest
  BY DEF Directory
<1>3. /\ m \in Manifest
      /\ m.archive \in {"none", dir.manifest.archive}
      /\ \A f \in Files : m.sha[f] \in {"none", dir.manifest.sha[f]}
  <2>1. CASE m = NoManifest
    BY <2>1, EmptyIsDirectory DEF Directory, Empty, NoManifest, NoContent
  <2>2. ASSUME NEW shas \in SUBSET Files,
               m = [dir.manifest EXCEPT !.sha =
                       [f \in Files |-> IF f \in shas THEN dir.manifest.sha[f] ELSE "none"]]
        PROVE  /\ m \in Manifest /\ m.archive = dir.manifest.archive
               /\ \A f \in Files : m.sha[f] \in {"none", dir.manifest.sha[f]}
    BY <1>2, <2>2 DEF Manifest, Content
  <2> QED
    BY <2>1, <2>2 DEF Torn
<1>4. dir'.manifest = m /\ dir'.files \in [Files -> Content]
  BY <1>1, <1>2 DEF Content
<1>5. dir' \in Directory
  BY <1>1, <1>3, <1>4 DEF Directory
<1> QED
  BY <1>3, <1>4, <1>5

-----------------------------------------------------------------------------
(* Lemmas about single actions: each keeps the invariant.                  *)

(* A download begins only for a directory that does not verify. *)
LEMMA DownloadKeepsInv ==
    ASSUME InstallInv, Download
    PROVE  InstallInv'
<1> USE DEF Download, Fetch, Fault, Forget, Return, disk
<1>1. DirectoriesOK'
  BY EmptyIsDirectory DEF DirectoriesOK, InstallInv, TypeOK
<1>2. FilesOK'
  BY DEF DirectoriesOK, FilesOK, ControlOK, InstallInv, TypeOK, Targets, Content, Pinned
<1>3. ControlOK'
  BY DEF ControlOK, FilesOK, InstallInv, TypeOK, Targets
<1>4. CountersOK'
  BY DEF CountersOK, InstallInv, TypeOK
<1>5. OperationConsistent'
  BY DEF OperationConsistent, ControlOK, InstallInv, TypeOK, Targets
<1>6. ManifestIsTrue' /\ VerifiedOrGone'
  BY DEF ManifestIsTrue, VerifiedOrGone, InstallInv
<1>7. DownloadIsNeeded'
  BY DEF DownloadIsNeeded, OperationConsistent, InstallInv
<1>8. StagedIsPinned'
  BY DEF StagedIsPinned, OperationConsistent, InstallInv, Pinned
<1>9. BundledIsPinned'
  BY DEF BundledIsPinned, OperationConsistent, ControlOK, FilesOK, TypeOK, InstallInv, Pinned
<1>10. LoadsOnlyGenuine'
  BY DEF LoadsOnlyGenuine, InstallInv
<1>11. ReportedMeansUsable'
  BY DEF ReportedMeansUsable, BundleVerified, OperationConsistent, InstallInv
<1> QED
  BY <1>1, <1>2, <1>3, <1>4, <1>5, <1>6, <1>7, <1>8, <1>9, <1>10, <1>11 DEF InstallInv, TypeOK

(* All files of the bundle are still to be looked at. *)
LEMMA DownloadBundleKeepsInv ==
    ASSUME InstallInv, DownloadBundle
    PROVE  InstallInv'
<1> USE DEF DownloadBundle, disk, bounds
<1>1. DirectoriesOK'
  BY EmptyIsDirectory DEF DirectoriesOK, InstallInv, TypeOK
<1>2. FilesOK'
  BY DEF DirectoriesOK, FilesOK, ControlOK, InstallInv, TypeOK, Targets, Content, Pinned
<1>3. ControlOK'
  BY DEF ControlOK, FilesOK, InstallInv, TypeOK, Targets
<1>4. CountersOK'
  BY DEF CountersOK, InstallInv, TypeOK
<1>5. OperationConsistent'
  BY DEF OperationConsistent, ControlOK, InstallInv, TypeOK, Targets
<1>6. ManifestIsTrue' /\ VerifiedOrGone'
  BY DEF ManifestIsTrue, VerifiedOrGone, InstallInv
<1>7. DownloadIsNeeded'
  BY DEF DownloadIsNeeded, OperationConsistent, InstallInv
<1>8. StagedIsPinned'
  BY DEF StagedIsPinned, OperationConsistent, InstallInv, Pinned
<1>9. BundledIsPinned'
  BY DEF BundledIsPinned, OperationConsistent, ControlOK, FilesOK, TypeOK, InstallInv, Pinned
<1>10. LoadsOnlyGenuine'
  BY DEF LoadsOnlyGenuine, InstallInv
<1>11. ReportedMeansUsable'
  BY DEF ReportedMeansUsable, BundleVerified, OperationConsistent, InstallInv
<1> QED
  BY <1>1, <1>2, <1>3, <1>4, <1>5, <1>6, <1>7, <1>8, <1>9, <1>10, <1>11 DEF InstallInv, TypeOK

(* A file leaves the list only if it is the pinned one. *)
LEMMA AssetKeepsInv ==
    ASSUME NEW f \in BundleFiles, InstallInv, Asset(f)
    PROVE  InstallInv'
<1> USE DEF Asset, Fault, disk
<1>1. DirectoriesOK'
  BY EmptyIsDirectory DEF DirectoriesOK, InstallInv, TypeOK
<1>2. FilesOK'
  BY DEF DirectoriesOK, FilesOK, ControlOK, InstallInv, TypeOK, Targets, Content, Pinned
<1>3. ControlOK'
  BY DEF ControlOK, FilesOK, InstallInv, TypeOK, Targets
<1>4. CountersOK'
  BY DEF CountersOK, InstallInv, TypeOK
<1>5. OperationConsistent'
  BY DEF OperationConsistent, ControlOK, InstallInv, TypeOK, Targets
<1>6. ManifestIsTrue' /\ VerifiedOrGone'
  BY DEF ManifestIsTrue, VerifiedOrGone, InstallInv
<1>7. DownloadIsNeeded'
  BY DEF DownloadIsNeeded, OperationConsistent, InstallInv
<1>8. StagedIsPinned'
  BY DEF StagedIsPinned, OperationConsistent, InstallInv, Pinned
<1>9. BundledIsPinned'
  BY DEF BundledIsPinned, OperationConsistent, ControlOK, FilesOK, TypeOK, InstallInv, Pinned
<1>10. LoadsOnlyGenuine'
  BY DEF LoadsOnlyGenuine, InstallInv
<1>11. ReportedMeansUsable'
  BY DEF ReportedMeansUsable, BundleVerified, OperationConsistent, InstallInv
<1> QED
  BY <1>1, <1>2, <1>3, <1>4, <1>5, <1>6, <1>7, <1>8, <1>9, <1>10, <1>11 DEF InstallInv, TypeOK

(* The list is empty: every file is the pinned one. *)
LEMMA PublishBundleKeepsInv ==
    ASSUME InstallInv, PublishBundle
    PROVE  InstallInv'
<1> USE DEF PublishBundle, Forget, Return, Fault
<1>1. DirectoriesOK'
  BY EmptyIsDirectory DEF DirectoriesOK, InstallInv, TypeOK
<1>2. FilesOK'
  BY DEF DirectoriesOK, FilesOK, ControlOK, InstallInv, TypeOK, Targets, Content, Pinned
<1>3. ControlOK'
  BY DEF ControlOK, FilesOK, InstallInv, TypeOK, Targets
<1>4. CountersOK'
  BY DEF CountersOK, InstallInv, TypeOK
<1>5. OperationConsistent'
  BY DEF OperationConsistent, ControlOK, InstallInv, TypeOK, Targets
<1>6. ManifestIsTrue' /\ VerifiedOrGone'
  BY DEF ManifestIsTrue, VerifiedOrGone, InstallInv
<1>7. DownloadIsNeeded'
  BY DEF DownloadIsNeeded, OperationConsistent, InstallInv
<1>8. StagedIsPinned'
  BY DEF StagedIsPinned, OperationConsistent, InstallInv, Pinned
<1>9. BundledIsPinned'
  BY DEF BundledIsPinned, OperationConsistent, ControlOK, FilesOK, TypeOK, InstallInv, Pinned
<1>10. LoadsOnlyGenuine'
  BY DEF LoadsOnlyGenuine, InstallInv
<1>11. ReportedMeansUsable'
  BY DEF ReportedMeansUsable, BundleVerified, BundledIsPinned, OperationConsistent, InstallInv
<1> QED
  BY <1>1, <1>2, <1>3, <1>4, <1>5, <1>6, <1>7, <1>8, <1>9, <1>10, <1>11 DEF InstallInv, TypeOK

(* Only a .part file is touched. *)
LEMMA ConnectKeepsInv ==
    ASSUME InstallInv, Connect
    PROVE  InstallInv'
<1> USE DEF Connect, Part, Goto, FetchFails, FetchFault, Leave, Return, Forget, Fault
<1>1. DirectoriesOK'
  BY EmptyIsDirectory DEF DirectoriesOK, InstallInv, TypeOK
<1>2. FilesOK'
  BY DEF DirectoriesOK, FilesOK, ControlOK, InstallInv, TypeOK, Targets, Content, Pinned
<1>3. ControlOK'
  BY DEF ControlOK, FilesOK, InstallInv, TypeOK, Targets
<1>4. CountersOK'
  BY DEF CountersOK, InstallInv, TypeOK
<1>5. OperationConsistent'
  BY DEF OperationConsistent, ControlOK, InstallInv, TypeOK, Targets
<1>6. ManifestIsTrue' /\ VerifiedOrGone'
  BY DEF ManifestIsTrue, VerifiedOrGone, InstallInv
<1>7. DownloadIsNeeded'
  BY DEF DownloadIsNeeded, OperationConsistent, InstallInv
<1>8. StagedIsPinned'
  BY DEF StagedIsPinned, OperationConsistent, InstallInv, Pinned
<1>9. BundledIsPinned'
  BY DEF BundledIsPinned, OperationConsistent, ControlOK, FilesOK, TypeOK, InstallInv, Pinned
<1>10. LoadsOnlyGenuine'
  BY DEF LoadsOnlyGenuine, InstallInv
<1>11. ReportedMeansUsable'
  BY DEF ReportedMeansUsable, BundleVerified, OperationConsistent, InstallInv
<1> QED
  BY <1>1, <1>2, <1>3, <1>4, <1>5, <1>6, <1>7, <1>8, <1>9, <1>10, <1>11 DEF InstallInv, TypeOK

(* Only a .part file is touched. *)
LEMMA ReceiveKeepsInv ==
    ASSUME InstallInv, Receive
    PROVE  InstallInv'
<1> USE DEF Receive, Part, DropPart, Goto, FetchFails, FetchFault, Leave, Return, Forget, Fault
<1>1. DirectoriesOK'
  BY EmptyIsDirectory DEF DirectoriesOK, InstallInv, TypeOK
<1>2. FilesOK'
  <2>1. parts' = parts \/ \E c \in Content : parts' = [parts EXCEPT ![target] = c]
    BY DEF Content, Pinned
  <2>2. UNCHANGED <<written, archive, bundle, lines>>
    OBVIOUS
  <2> HIDE DEF Receive
  <2> QED
    BY <2>1, <2>2 DEF FilesOK, InstallInv, TypeOK
<1>3. ControlOK'
  BY DEF ControlOK, FilesOK, InstallInv, TypeOK, Targets
<1>4. CountersOK'
  BY DEF CountersOK, InstallInv, TypeOK
<1>5. OperationConsistent'
  BY DEF OperationConsistent, ControlOK, InstallInv, TypeOK, Targets
<1>6. ManifestIsTrue' /\ VerifiedOrGone'
  BY DEF ManifestIsTrue, VerifiedOrGone, InstallInv
<1>7. DownloadIsNeeded'
  BY DEF DownloadIsNeeded, OperationConsistent, InstallInv
<1>8. StagedIsPinned'
  BY DEF StagedIsPinned, OperationConsistent, InstallInv, Pinned
<1>9. BundledIsPinned'
  BY DEF BundledIsPinned, OperationConsistent, ControlOK, FilesOK, TypeOK, InstallInv, Pinned
<1>10. LoadsOnlyGenuine'
  BY DEF LoadsOnlyGenuine, InstallInv
<1>11. ReportedMeansUsable'
  BY DEF ReportedMeansUsable, BundleVerified, OperationConsistent, InstallInv
<1> QED
  BY <1>1, <1>2, <1>3, <1>4, <1>5, <1>6, <1>7, <1>8, <1>9, <1>10, <1>11 DEF InstallInv, TypeOK

(* What is put in place was compared with the pin. *)
LEMMA PublishKeepsInv ==
    ASSUME InstallInv, Publish
    PROVE  InstallInv'
<1> USE DEF Publish, Part, DropPart, Put, Goto, FetchFails, FetchFault, Leave, Return, Forget,
            Matches, Fault
<1>1. DirectoriesOK'
  BY EmptyIsDirectory DEF DirectoriesOK, InstallInv, TypeOK
<1>2. FilesOK'
  BY DEF DirectoriesOK, FilesOK, ControlOK, InstallInv, TypeOK, Targets, Content, Pinned
<1>3. ControlOK'
  BY DEF ControlOK, FilesOK, InstallInv, TypeOK, Targets
<1>4. CountersOK'
  BY DEF CountersOK, InstallInv, TypeOK
<1>5. OperationConsistent'
  BY DEF OperationConsistent, ControlOK, InstallInv, TypeOK, Targets
<1>6. ManifestIsTrue' /\ VerifiedOrGone'
  BY DEF ManifestIsTrue, VerifiedOrGone, InstallInv
<1>7. DownloadIsNeeded'
  BY DEF DownloadIsNeeded, OperationConsistent, InstallInv
<1>8. StagedIsPinned'
  BY DEF StagedIsPinned, OperationConsistent, InstallInv, Pinned
<1>9. BundledIsPinned'
  BY DEF BundledIsPinned, OperationConsistent, ControlOK, FilesOK, TypeOK, InstallInv, Pinned
<1>10. LoadsOnlyGenuine'
  BY DEF LoadsOnlyGenuine, InstallInv
<1>11. ReportedMeansUsable'
  BY DEF ReportedMeansUsable, BundleVerified, OperationConsistent, InstallInv
<1> QED
  BY <1>1, <1>2, <1>3, <1>4, <1>5, <1>6, <1>7, <1>8, <1>9, <1>10, <1>11 DEF InstallInv, TypeOK

(* Nothing but a .part file is deleted. *)
LEMMA CancelledKeepsInv ==
    ASSUME InstallInv, Cancelled
    PROVE  InstallInv'
<1> USE DEF Cancelled, Part, DropPart, Leave, Return, Forget, Fault
<1>1. DirectoriesOK'
  BY EmptyIsDirectory DEF DirectoriesOK, InstallInv, TypeOK
<1>2. FilesOK'
  BY DEF DirectoriesOK, FilesOK, ControlOK, InstallInv, TypeOK, Targets, Content, Pinned
<1>3. ControlOK'
  BY DEF ControlOK, FilesOK, InstallInv, TypeOK, Targets
<1>4. CountersOK'
  BY DEF CountersOK, InstallInv, TypeOK
<1>5. OperationConsistent'
  BY DEF OperationConsistent, ControlOK, InstallInv, TypeOK, Targets
<1>6. ManifestIsTrue' /\ VerifiedOrGone'
  BY DEF ManifestIsTrue, VerifiedOrGone, InstallInv
<1>7. DownloadIsNeeded'
  BY DEF DownloadIsNeeded, OperationConsistent, InstallInv
<1>8. StagedIsPinned'
  BY DEF StagedIsPinned, OperationConsistent, InstallInv, Pinned
<1>9. BundledIsPinned'
  BY DEF BundledIsPinned, OperationConsistent, ControlOK, FilesOK, TypeOK, InstallInv, Pinned
<1>10. LoadsOnlyGenuine'
  BY DEF LoadsOnlyGenuine, InstallInv
<1>11. ReportedMeansUsable'
  BY DEF ReportedMeansUsable, BundleVerified, OperationConsistent, InstallInv
<1> QED
  BY <1>1, <1>2, <1>3, <1>4, <1>5, <1>6, <1>7, <1>8, <1>9, <1>10, <1>11 DEF InstallInv, TypeOK

(* Every file is to be copied, whatever the deletion left. *)
LEMMA UnstageKeepsInv ==
    ASSUME InstallInv, Unstage
    PROVE  InstallInv'
<1> USE DEF Unstage, Fault
<1>1. DirectoriesOK'
  BY EmptyIsDirectory, KeepIsDirectory DEF DirectoriesOK, InstallInv, TypeOK
<1>2. FilesOK'
  BY DEF DirectoriesOK, FilesOK, ControlOK, InstallInv, TypeOK, Targets, Content, Pinned
<1>3. ControlOK'
  BY DEF ControlOK, FilesOK, InstallInv, TypeOK, Targets
<1>4. CountersOK'
  BY DEF CountersOK, InstallInv, TypeOK
<1>5. OperationConsistent'
  BY DEF OperationConsistent, ControlOK, InstallInv, TypeOK, Targets
<1>6. ManifestIsTrue' /\ VerifiedOrGone'
  BY DEF ManifestIsTrue, VerifiedOrGone, InstallInv
<1>7. DownloadIsNeeded'
  BY DEF DownloadIsNeeded, OperationConsistent, InstallInv
<1>8. StagedIsPinned'
  BY DEF StagedIsPinned, OperationConsistent, InstallInv, Pinned
<1>9. BundledIsPinned'
  BY DEF BundledIsPinned, OperationConsistent, ControlOK, FilesOK, TypeOK, InstallInv, Pinned
<1>10. LoadsOnlyGenuine'
  BY DEF LoadsOnlyGenuine, InstallInv
<1>11. ReportedMeansUsable'
  BY DEF ReportedMeansUsable, BundleVerified, OperationConsistent, InstallInv
<1> QED
  BY <1>1, <1>2, <1>3, <1>4, <1>5, <1>6, <1>7, <1>8, <1>9, <1>10, <1>11 DEF InstallInv, TypeOK

(* The archive is pinned, so is what is copied from it. *)
LEMMA ExtractKeepsInv ==
    ASSUME NEW f \in Files, InstallInv, Extract(f)
    PROVE  InstallInv'
<1> USE DEF Extract, Leave, Return, Forget, Fault
<1>1. DirectoriesOK'
  <2>1. archive \in Content /\ "short" \in Content
    BY DEF InstallInv, TypeOK, FilesOK, Content
  <2> QED
    BY <2>1, FileIsWritten DEF DirectoriesOK, InstallInv, TypeOK
<1>2. FilesOK'
  BY DEF DirectoriesOK, FilesOK, ControlOK, InstallInv, TypeOK, Targets, Content, Pinned
<1>3. ControlOK'
  BY DEF ControlOK, FilesOK, InstallInv, TypeOK, Targets
<1>4. CountersOK'
  BY DEF CountersOK, InstallInv, TypeOK
<1>5. OperationConsistent'
  BY DEF OperationConsistent, ControlOK, InstallInv, TypeOK, Targets
<1>6. ManifestIsTrue' /\ VerifiedOrGone'
  BY DEF ManifestIsTrue, VerifiedOrGone, InstallInv
<1>7. DownloadIsNeeded'
  BY DEF DownloadIsNeeded, OperationConsistent, InstallInv
<1>8. StagedIsPinned'
  <2>1. CASE pc' = "extract"
    <3>1. archive = Pinned /\ Pinned \in Content /\ staging \in Directory
      BY DEF InstallInv, StagedIsPinned, TypeOK, DirectoriesOK, Content, Pinned
    <3>2. staging'.files = [staging.files EXCEPT ![f] = Pinned]
      <4>1. staging' = [staging EXCEPT !.files[f] = archive]
        BY <2>1 DEF InstallInv, OperationConsistent
      <4> HIDE DEF Extract
      <4> QED
        BY <3>1, <4>1, FileIsWritten
    <3>3. staging.files \in [Files -> Content]
      BY <3>1 DEF Directory
    <3> QED
      BY <2>1, <3>1, <3>2, <3>3 DEF StagedIsPinned, InstallInv
  <2>2. CASE pc' # "extract"
    BY <2>2 DEF StagedIsPinned, OperationConsistent, InstallInv
  <2> QED
    BY <2>1, <2>2
<1>9. BundledIsPinned'
  BY DEF BundledIsPinned, OperationConsistent, ControlOK, FilesOK, TypeOK, InstallInv, Pinned
<1>10. LoadsOnlyGenuine'
  BY DEF LoadsOnlyGenuine, InstallInv
<1>11. ReportedMeansUsable'
  BY DEF ReportedMeansUsable, BundleVerified, OperationConsistent, InstallInv
<1> QED
  BY <1>1, <1>2, <1>3, <1>4, <1>5, <1>6, <1>7, <1>8, <1>9, <1>10, <1>11 DEF InstallInv, TypeOK

(* The manifest is written from files that are all pinned. *)
LEMMA SealKeepsInv ==
    ASSUME InstallInv, Seal
    PROVE  InstallInv'
<1> USE DEF Seal, Goto, Leave, Return, Forget, Fault
<1>1. DirectoriesOK'
  BY ManifestOfIsManifest DEF DirectoriesOK, InstallInv, TypeOK
<1>2. FilesOK'
  BY DEF DirectoriesOK, FilesOK, ControlOK, InstallInv, TypeOK, Targets, Content, Pinned
<1>3. ControlOK'
  BY DEF ControlOK, FilesOK, InstallInv, TypeOK, Targets
<1>4. CountersOK'
  BY DEF CountersOK, InstallInv, TypeOK
<1>5. OperationConsistent'
  BY DEF OperationConsistent, ControlOK, InstallInv, TypeOK, Targets
<1>6. ManifestIsTrue' /\ VerifiedOrGone'
  BY DEF ManifestIsTrue, VerifiedOrGone, InstallInv
<1>7. DownloadIsNeeded'
  BY DEF DownloadIsNeeded, OperationConsistent, InstallInv
<1>8. StagedIsPinned'
  <2>1. CASE pc' = "discard"
    <3>1. staging'.files = staging.files /\ staging'.manifest = ManifestOf(staging)
      BY <2>1, ManifestOfIsManifest DEF InstallInv, TypeOK, DirectoriesOK, OperationConsistent
    <3>2. ManifestOf(staging') = ManifestOf(staging)
      BY <3>1 DEF ManifestOf
    <3> QED
      BY <2>1, <3>1, <3>2 DEF StagedIsPinned, OperationConsistent, InstallInv
  <2>2. CASE pc' # "discard"
    BY <2>2 DEF StagedIsPinned, OperationConsistent, InstallInv
  <2> QED
    BY <2>1, <2>2
<1>9. BundledIsPinned'
  BY DEF BundledIsPinned, OperationConsistent, ControlOK, FilesOK, TypeOK, InstallInv, Pinned
<1>10. LoadsOnlyGenuine'
  BY DEF LoadsOnlyGenuine, InstallInv
<1>11. ReportedMeansUsable'
  BY DEF ReportedMeansUsable, BundleVerified, OperationConsistent, InstallInv
<1> QED
  BY <1>1, <1>2, <1>3, <1>4, <1>5, <1>6, <1>7, <1>8, <1>9, <1>10, <1>11 DEF InstallInv, TypeOK

(* A directory that loses entries does not verify. *)
LEMMA DiscardKeepsInv ==
    ASSUME InstallInv, Discard
    PROVE  InstallInv'
<1> USE DEF Discard, Goto, Fault
<1>1. DirectoriesOK'
  BY EntryDeleted DEF DirectoriesOK, InstallInv, TypeOK
<1>2. FilesOK'
  BY DEF DirectoriesOK, FilesOK, ControlOK, InstallInv, TypeOK, Targets, Content, Pinned
<1>3. ControlOK'
  BY DEF ControlOK, FilesOK, InstallInv, TypeOK, Targets
<1>4. CountersOK'
  BY DEF CountersOK, InstallInv, TypeOK
<1>5. OperationConsistent'
  BY DEF OperationConsistent, ControlOK, InstallInv, TypeOK, Targets
<1>6. ManifestIsTrue' /\ VerifiedOrGone'
  BY EntryDeleted, EmptyIsDirectory DEF ManifestIsTrue, VerifiedOrGone, InstallInv, TypeOK, DirectoriesOK, Pinned
<1>7. DownloadIsNeeded'
  BY EntryDeleted DEF DownloadIsNeeded, OperationConsistent, InstallInv, TypeOK, DirectoriesOK
<1>8. StagedIsPinned'
  BY DEF StagedIsPinned, OperationConsistent, InstallInv, Pinned
<1>9. BundledIsPinned'
  BY DEF BundledIsPinned, OperationConsistent, ControlOK, FilesOK, TypeOK, InstallInv, Pinned
<1>10. LoadsOnlyGenuine'
  BY DEF LoadsOnlyGenuine, InstallInv
<1>11. ReportedMeansUsable'
  BY DEF ReportedMeansUsable, BundleVerified, OperationConsistent, InstallInv
<1> QED
  BY <1>1, <1>2, <1>3, <1>4, <1>5, <1>6, <1>7, <1>8, <1>9, <1>10, <1>11 DEF InstallInv, TypeOK

(* The sealed directory verifies where it is put. *)
LEMMA MoveKeepsInv ==
    ASSUME InstallInv, Move
    PROVE  InstallInv'
<1> USE DEF Move, Leave, Return, Forget, Fault
<1>1. DirectoriesOK'
  BY EmptyIsDirectory DEF DirectoriesOK, InstallInv, TypeOK
<1>2. FilesOK'
  <2>1. FilesOK
    BY DEF InstallInv, TypeOK
  <2>2. written' \subseteq {"dir", "staging", "lines"}
    <3>1. written \subseteq {"dir", "staging", "lines"}
      BY <2>1 DEF FilesOK
    <3>2. \/ written' = written
          \/ written' = {IF w = "staging" THEN "dir" ELSE w : w \in written}
      OBVIOUS
    <3> HIDE DEF Move
    <3>3. \A w \in written : (IF w = "staging" THEN "dir" ELSE w) \in {"dir", "staging", "lines"}
      BY <3>1
    <3> QED
      BY <3>1, <3>2, <3>3
  <2>3. UNCHANGED <<archive, parts, bundle, lines>>
    OBVIOUS
  <2> HIDE DEF Move
  <2> QED
    BY <2>1, <2>2, <2>3 DEF FilesOK
<1>3. ControlOK'
  BY DEF ControlOK, FilesOK, InstallInv, TypeOK, Targets
<1>4. CountersOK'
  BY DEF CountersOK, InstallInv, TypeOK
<1>5. OperationConsistent'
  BY DEF OperationConsistent, ControlOK, InstallInv, TypeOK, Targets
<1>6. ManifestIsTrue' /\ VerifiedOrGone'
  BY SealedVerifies DEF ManifestIsTrue, VerifiedOrGone, StagedIsPinned, InstallInv, TypeOK, DirectoriesOK
<1>7. DownloadIsNeeded'
  BY DEF DownloadIsNeeded, OperationConsistent, InstallInv
<1>8. StagedIsPinned'
  BY DEF StagedIsPinned, OperationConsistent, InstallInv, Pinned
<1>9. BundledIsPinned'
  BY DEF BundledIsPinned, OperationConsistent, ControlOK, FilesOK, TypeOK, InstallInv, Pinned
<1>10. LoadsOnlyGenuine'
  BY DEF LoadsOnlyGenuine, InstallInv
<1>11. ReportedMeansUsable'
  BY SealedVerifies DEF ReportedMeansUsable, BundleVerified, StagedIsPinned, OperationConsistent, InstallInv, TypeOK, DirectoriesOK
<1> QED
  BY <1>1, <1>2, <1>3, <1>4, <1>5, <1>6, <1>7, <1>8, <1>9, <1>10, <1>11 DEF InstallInv, TypeOK

(* The archive and the staged directory are needed no more. *)
LEMMA CleanupKeepsInv ==
    ASSUME InstallInv, Cleanup
    PROVE  InstallInv'
<1> USE DEF Cleanup, Return, Forget, Fault
<1>1. DirectoriesOK'
  BY EmptyIsDirectory, KeepIsDirectory DEF DirectoriesOK, InstallInv, TypeOK
<1>2. FilesOK'
  BY DEF DirectoriesOK, FilesOK, ControlOK, InstallInv, TypeOK, Targets, Content, Pinned
<1>3. ControlOK'
  BY DEF ControlOK, FilesOK, InstallInv, TypeOK, Targets
<1>4. CountersOK'
  BY DEF CountersOK, InstallInv, TypeOK
<1>5. OperationConsistent'
  BY DEF OperationConsistent, ControlOK, InstallInv, TypeOK, Targets
<1>6. ManifestIsTrue' /\ VerifiedOrGone'
  BY DEF ManifestIsTrue, VerifiedOrGone, InstallInv
<1>7. DownloadIsNeeded'
  BY DEF DownloadIsNeeded, OperationConsistent, InstallInv
<1>8. StagedIsPinned'
  BY DEF StagedIsPinned, OperationConsistent, InstallInv, Pinned
<1>9. BundledIsPinned'
  BY DEF BundledIsPinned, OperationConsistent, ControlOK, FilesOK, TypeOK, InstallInv, Pinned
<1>10. LoadsOnlyGenuine'
  BY DEF LoadsOnlyGenuine, InstallInv
<1>11. ReportedMeansUsable'
  BY DEF ReportedMeansUsable, BundleVerified, OperationConsistent, InstallInv
<1> QED
  BY <1>1, <1>2, <1>3, <1>4, <1>5, <1>6, <1>7, <1>8, <1>9, <1>10, <1>11 DEF InstallInv, TypeOK

(* Nothing is deleted yet. *)
LEMMA RemoveKeepsInv ==
    ASSUME NEW id \in {"remove_model", "remove_bundle"}, InstallInv, Remove(id)
    PROVE  InstallInv'
<1> USE DEF Remove, disk
<1>1. DirectoriesOK'
  BY EmptyIsDirectory DEF DirectoriesOK, InstallInv, TypeOK
<1>2. FilesOK'
  BY DEF DirectoriesOK, FilesOK, ControlOK, InstallInv, TypeOK, Targets, Content, Pinned
<1>3. ControlOK'
  BY DEF ControlOK, FilesOK, InstallInv, TypeOK, Targets
<1>4. CountersOK'
  BY DEF CountersOK, InstallInv, TypeOK
<1>5. OperationConsistent'
  BY DEF OperationConsistent, ControlOK, InstallInv, TypeOK, Targets
<1>6. ManifestIsTrue' /\ VerifiedOrGone'
  BY DEF ManifestIsTrue, VerifiedOrGone, InstallInv
<1>7. DownloadIsNeeded'
  BY DEF DownloadIsNeeded, OperationConsistent, InstallInv
<1>8. StagedIsPinned'
  BY DEF StagedIsPinned, OperationConsistent, InstallInv, Pinned
<1>9. BundledIsPinned'
  BY DEF BundledIsPinned, OperationConsistent, ControlOK, FilesOK, TypeOK, InstallInv, Pinned
<1>10. LoadsOnlyGenuine'
  BY DEF LoadsOnlyGenuine, InstallInv
<1>11. ReportedMeansUsable'
  BY DEF ReportedMeansUsable, BundleVerified, OperationConsistent, InstallInv
<1> QED
  BY <1>1, <1>2, <1>3, <1>4, <1>5, <1>6, <1>7, <1>8, <1>9, <1>10, <1>11 DEF InstallInv, TypeOK

(* Entries are deleted: what was verified is there or gone. *)
LEMMA RemoveModelKeepsInv ==
    ASSUME InstallInv, RemoveModel
    PROVE  InstallInv'
<1> USE DEF RemoveModel, Return, Forget, Fault, control
<1>1. DirectoriesOK'
  BY EntryDeleted DEF DirectoriesOK, InstallInv, TypeOK
<1>2. FilesOK'
  BY DEF DirectoriesOK, FilesOK, ControlOK, InstallInv, TypeOK, Targets, Content, Pinned
<1>3. ControlOK'
  BY DEF ControlOK, FilesOK, InstallInv, TypeOK, Targets
<1>4. CountersOK'
  BY DEF CountersOK, InstallInv, TypeOK
<1>5. OperationConsistent'
  BY DEF OperationConsistent, ControlOK, InstallInv, TypeOK, Targets
<1>6. ManifestIsTrue' /\ VerifiedOrGone'
  BY EntryDeleted, EmptyIsDirectory DEF ManifestIsTrue, VerifiedOrGone, InstallInv, TypeOK, DirectoriesOK, Pinned
<1>7. DownloadIsNeeded'
  BY DEF DownloadIsNeeded, OperationConsistent, InstallInv
<1>8. StagedIsPinned'
  BY DEF StagedIsPinned, OperationConsistent, InstallInv, Pinned
<1>9. BundledIsPinned'
  BY DEF BundledIsPinned, OperationConsistent, ControlOK, FilesOK, TypeOK, InstallInv, Pinned
<1>10. LoadsOnlyGenuine'
  BY DEF LoadsOnlyGenuine, InstallInv
<1>11. ReportedMeansUsable'
  BY DEF ReportedMeansUsable, BundleVerified, OperationConsistent, InstallInv
<1> QED
  BY <1>1, <1>2, <1>3, <1>4, <1>5, <1>6, <1>7, <1>8, <1>9, <1>10, <1>11 DEF InstallInv, TypeOK

(* No bundle is being downloaded. *)
LEMMA RemoveBundleKeepsInv ==
    ASSUME InstallInv, RemoveBundle
    PROVE  InstallInv'
<1> USE DEF RemoveBundle, Return, Forget, Fault, control
<1>1. DirectoriesOK'
  BY EmptyIsDirectory DEF DirectoriesOK, InstallInv, TypeOK
<1>2. FilesOK'
  <2>1. FilesOK /\ "none" \in Content
    BY DEF InstallInv, TypeOK, Content
  <2>2. bundle' \in [BundleFiles -> Content]
    BY <2>1 DEF FilesOK
  <2>3. parts' \in [Targets -> Content]
    BY <2>1 DEF FilesOK
  <2>4. lines' \subseteq BundleFiles
    BY <2>1 DEF FilesOK
  <2> QED
    BY <2>1, <2>2, <2>3, <2>4 DEF FilesOK
<1>3. ControlOK'
  BY DEF ControlOK, FilesOK, InstallInv, TypeOK, Targets
<1>4. CountersOK'
  BY DEF CountersOK, InstallInv, TypeOK
<1>5. OperationConsistent'
  BY DEF OperationConsistent, ControlOK, InstallInv, TypeOK, Targets
<1>6. ManifestIsTrue' /\ VerifiedOrGone'
  BY DEF ManifestIsTrue, VerifiedOrGone, InstallInv
<1>7. DownloadIsNeeded'
  BY DEF DownloadIsNeeded, OperationConsistent, InstallInv
<1>8. StagedIsPinned'
  BY DEF StagedIsPinned, OperationConsistent, InstallInv, Pinned
<1>9. BundledIsPinned'
  BY DEF BundledIsPinned, OperationConsistent, ControlOK, FilesOK, TypeOK, InstallInv, Pinned
<1>10. LoadsOnlyGenuine'
  BY DEF LoadsOnlyGenuine, InstallInv
<1>11. ReportedMeansUsable'
  BY DEF ReportedMeansUsable, BundleVerified, OperationConsistent, InstallInv
<1> QED
  BY <1>1, <1>2, <1>3, <1>4, <1>5, <1>6, <1>7, <1>8, <1>9, <1>10, <1>11 DEF InstallInv, TypeOK

(* The disk is only read. *)
LEMMA RequestSessionKeepsInv ==
    ASSUME InstallInv, RequestSession
    PROVE  InstallInv'
<1> USE DEF RequestSession, disk, control, bounds
<1>1. DirectoriesOK'
  BY EmptyIsDirectory DEF DirectoriesOK, InstallInv, TypeOK
<1>2. FilesOK'
  BY DEF DirectoriesOK, FilesOK, ControlOK, InstallInv, TypeOK, Targets, Content, Pinned
<1>3. ControlOK'
  BY DEF ControlOK, FilesOK, InstallInv, TypeOK, Targets
<1>4. CountersOK'
  BY DEF CountersOK, InstallInv, TypeOK
<1>5. OperationConsistent'
  BY DEF OperationConsistent, ControlOK, InstallInv, TypeOK, Targets
<1>6. ManifestIsTrue' /\ VerifiedOrGone'
  BY DEF ManifestIsTrue, VerifiedOrGone, InstallInv
<1>7. DownloadIsNeeded'
  BY DEF DownloadIsNeeded, OperationConsistent, InstallInv
<1>8. StagedIsPinned'
  BY DEF StagedIsPinned, OperationConsistent, InstallInv, Pinned
<1>9. BundledIsPinned'
  BY DEF BundledIsPinned, OperationConsistent, ControlOK, FilesOK, TypeOK, InstallInv, Pinned
<1>10. LoadsOnlyGenuine'
  BY DEF LoadsOnlyGenuine, InstallInv
<1>11. ReportedMeansUsable'
  BY DEF ReportedMeansUsable, BundleVerified, OperationConsistent, InstallInv
<1> QED
  BY <1>1, <1>2, <1>3, <1>4, <1>5, <1>6, <1>7, <1>8, <1>9, <1>10, <1>11 DEF InstallInv, TypeOK

(* The disk is only read. *)
LEMMA BeginSessionKeepsInv ==
    ASSUME InstallInv, BeginSession
    PROVE  InstallInv'
<1> USE DEF BeginSession, disk, control, bounds
<1>1. DirectoriesOK'
  BY EmptyIsDirectory DEF DirectoriesOK, InstallInv, TypeOK
<1>2. FilesOK'
  BY DEF DirectoriesOK, FilesOK, ControlOK, InstallInv, TypeOK, Targets, Content, Pinned
<1>3. ControlOK'
  BY DEF ControlOK, FilesOK, InstallInv, TypeOK, Targets
<1>4. CountersOK'
  BY DEF CountersOK, InstallInv, TypeOK
<1>5. OperationConsistent'
  BY DEF OperationConsistent, ControlOK, InstallInv, TypeOK, Targets
<1>6. ManifestIsTrue' /\ VerifiedOrGone'
  BY DEF ManifestIsTrue, VerifiedOrGone, InstallInv
<1>7. DownloadIsNeeded'
  BY DEF DownloadIsNeeded, OperationConsistent, InstallInv
<1>8. StagedIsPinned'
  BY DEF StagedIsPinned, OperationConsistent, InstallInv, Pinned
<1>9. BundledIsPinned'
  BY DEF BundledIsPinned, OperationConsistent, ControlOK, FilesOK, TypeOK, InstallInv, Pinned
<1>10. LoadsOnlyGenuine'
  BY DEF LoadsOnlyGenuine, InstallInv
<1>11. ReportedMeansUsable'
  BY DEF ReportedMeansUsable, BundleVerified, OperationConsistent, InstallInv
<1> QED
  BY <1>1, <1>2, <1>3, <1>4, <1>5, <1>6, <1>7, <1>8, <1>9, <1>10, <1>11 DEF InstallInv, TypeOK

(* What verifies is the pinned model. *)
LEMMA VerifyModelKeepsInv ==
    ASSUME InstallInv, VerifyModel
    PROVE  InstallInv'
<1> USE DEF VerifyModel, Fault, disk, control
<1>1. DirectoriesOK'
  BY EmptyIsDirectory DEF DirectoriesOK, InstallInv, TypeOK
<1>2. FilesOK'
  BY DEF DirectoriesOK, FilesOK, ControlOK, InstallInv, TypeOK, Targets, Content, Pinned
<1>3. ControlOK'
  BY DEF ControlOK, FilesOK, InstallInv, TypeOK, Targets
<1>4. CountersOK'
  BY DEF CountersOK, InstallInv, TypeOK
<1>5. OperationConsistent'
  BY DEF OperationConsistent, ControlOK, InstallInv, TypeOK, Targets
<1>6. ManifestIsTrue' /\ VerifiedOrGone'
  BY VerifiedIsPinned DEF ManifestIsTrue, VerifiedOrGone, InstallInv, TypeOK, DirectoriesOK
<1>7. DownloadIsNeeded'
  BY DEF DownloadIsNeeded, OperationConsistent, InstallInv
<1>8. StagedIsPinned'
  BY DEF StagedIsPinned, OperationConsistent, InstallInv, Pinned
<1>9. BundledIsPinned'
  BY DEF BundledIsPinned, OperationConsistent, ControlOK, FilesOK, TypeOK, InstallInv, Pinned
<1>10. LoadsOnlyGenuine'
  BY DEF LoadsOnlyGenuine, InstallInv
<1>11. ReportedMeansUsable'
  BY DEF ReportedMeansUsable, BundleVerified, OperationConsistent, InstallInv
<1> QED
  BY <1>1, <1>2, <1>3, <1>4, <1>5, <1>6, <1>7, <1>8, <1>9, <1>10, <1>11 DEF InstallInv, TypeOK

(* What was verified is loaded, or a file is missing. *)
LEMMA LoadModelKeepsInv ==
    ASSUME InstallInv, LoadModel
    PROVE  InstallInv'
<1> USE DEF LoadModel, disk, control, bounds
<1>1. DirectoriesOK'
  BY DEF DirectoriesOK, InstallInv, TypeOK, Directory
<1>2. FilesOK'
  BY DEF DirectoriesOK, FilesOK, ControlOK, InstallInv, TypeOK, Targets, Content, Pinned
<1>3. ControlOK'
  BY DEF ControlOK, FilesOK, InstallInv, TypeOK, Targets
<1>4. CountersOK'
  BY DEF CountersOK, InstallInv, TypeOK
<1>5. OperationConsistent'
  BY DEF OperationConsistent, ControlOK, InstallInv, TypeOK, Targets
<1>6. ManifestIsTrue' /\ VerifiedOrGone'
  BY DEF ManifestIsTrue, VerifiedOrGone, InstallInv
<1>7. DownloadIsNeeded'
  BY DEF DownloadIsNeeded, OperationConsistent, InstallInv
<1>8. StagedIsPinned'
  BY DEF StagedIsPinned, OperationConsistent, InstallInv, Pinned
<1>9. BundledIsPinned'
  BY DEF BundledIsPinned, OperationConsistent, ControlOK, FilesOK, TypeOK, InstallInv, Pinned
<1>10. LoadsOnlyGenuine'
  BY DEF LoadsOnlyGenuine, VerifiedOrGone, InstallInv
<1>11. ReportedMeansUsable'
  BY DEF ReportedMeansUsable, BundleVerified, OperationConsistent, InstallInv
<1> QED
  BY <1>1, <1>2, <1>3, <1>4, <1>5, <1>6, <1>7, <1>8, <1>9, <1>10, <1>11 DEF InstallInv, TypeOK

(* Nothing is loaded any more. *)
LEMMA EndSessionKeepsInv ==
    ASSUME InstallInv, EndSession
    PROVE  InstallInv'
<1> USE DEF EndSession, disk, control, bounds
<1>1. DirectoriesOK'
  BY EmptyIsDirectory DEF DirectoriesOK, InstallInv, TypeOK
<1>2. FilesOK'
  BY DEF DirectoriesOK, FilesOK, ControlOK, InstallInv, TypeOK, Targets, Content, Pinned
<1>3. ControlOK'
  BY DEF ControlOK, FilesOK, InstallInv, TypeOK, Targets
<1>4. CountersOK'
  BY DEF CountersOK, InstallInv, TypeOK
<1>5. OperationConsistent'
  BY DEF OperationConsistent, ControlOK, InstallInv, TypeOK, Targets
<1>6. ManifestIsTrue' /\ VerifiedOrGone'
  BY DEF ManifestIsTrue, VerifiedOrGone, InstallInv
<1>7. DownloadIsNeeded'
  BY DEF DownloadIsNeeded, OperationConsistent, InstallInv
<1>8. StagedIsPinned'
  BY DEF StagedIsPinned, OperationConsistent, InstallInv, Pinned
<1>9. BundledIsPinned'
  BY DEF BundledIsPinned, OperationConsistent, ControlOK, FilesOK, TypeOK, InstallInv, Pinned
<1>10. LoadsOnlyGenuine'
  BY DEF LoadsOnlyGenuine, InstallInv
<1>11. ReportedMeansUsable'
  BY DEF ReportedMeansUsable, BundleVerified, OperationConsistent, InstallInv
<1> QED
  BY <1>1, <1>2, <1>3, <1>4, <1>5, <1>6, <1>7, <1>8, <1>9, <1>10, <1>11 DEF InstallInv, TypeOK

(* No operation is left that relies on what it had established. *)
LEMMA CrashKeepsInv ==
    ASSUME InstallInv, Crash
    PROVE  InstallInv'
<1> USE DEF Crash, Restart, Forget, Fault
<1>1. DirectoriesOK'
  <2>1. "short" \in Content /\ (pc = "extract" => todo \subseteq Files)
    BY DEF Content, InstallInv, StagedIsPinned
  <2> QED
    BY <2>1, EmptyIsDirectory, FileIsWritten DEF DirectoriesOK, InstallInv, TypeOK
<1>2. FilesOK'
  BY DEF DirectoriesOK, FilesOK, ControlOK, InstallInv, TypeOK, Targets, Content, Pinned
<1>3. ControlOK'
  BY DEF ControlOK, FilesOK, InstallInv, TypeOK, Targets
<1>4. CountersOK'
  BY DEF CountersOK, InstallInv, TypeOK
<1>5. OperationConsistent'
  BY DEF OperationConsistent, ControlOK, InstallInv, TypeOK, Targets
<1>6. ManifestIsTrue' /\ VerifiedOrGone'
  BY DEF ManifestIsTrue, VerifiedOrGone, InstallInv
<1>7. DownloadIsNeeded'
  BY DEF DownloadIsNeeded, OperationConsistent, InstallInv
<1>8. StagedIsPinned'
  BY DEF StagedIsPinned, OperationConsistent, InstallInv, Pinned
<1>9. BundledIsPinned'
  BY DEF BundledIsPinned, OperationConsistent, ControlOK, FilesOK, TypeOK, InstallInv, Pinned
<1>10. LoadsOnlyGenuine'
  BY DEF LoadsOnlyGenuine, InstallInv
<1>11. ReportedMeansUsable'
  BY DEF ReportedMeansUsable, BundleVerified, OperationConsistent, InstallInv
<1> QED
  BY <1>1, <1>2, <1>3, <1>4, <1>5, <1>6, <1>7, <1>8, <1>9, <1>10, <1>11 DEF InstallInv, TypeOK

(* Lines and bytes are lost, no hash is changed. *)
LEMMA PowerCutKeepsInv ==
    ASSUME InstallInv, PowerCut
    PROVE  InstallInv'
<1> USE DEF PowerCut, Restart, Forget, Fault
<1>1. DirectoriesOK'
  BY DamageDone, EmptyIsDirectory DEF DirectoriesOK, InstallInv, TypeOK
<1>2. FilesOK'
  BY DEF DirectoriesOK, FilesOK, ControlOK, InstallInv, TypeOK, Targets, Content, Pinned
<1>3. ControlOK'
  BY DEF ControlOK, FilesOK, InstallInv, TypeOK, Targets
<1>4. CountersOK'
  BY DEF CountersOK, InstallInv, TypeOK
<1>5. OperationConsistent'
  BY DEF OperationConsistent, ControlOK, InstallInv, TypeOK, Targets
<1>6. ManifestIsTrue' /\ VerifiedOrGone'
  <2>1. session' = "idle" /\ (dir' = dir \/ Damage)
    OBVIOUS
  <2>2. dir \in Directory /\ ManifestIsTrue
    BY DEF InstallInv, TypeOK, DirectoriesOK
  <2> HIDE DEF PowerCut
  <2>3. /\ dir'.manifest.archive \in {"none", dir.manifest.archive}
        /\ \A f \in Files : dir'.manifest.sha[f] \in {"none", dir.manifest.sha[f]}
    BY <2>1, <2>2, DamageDone
  <2> QED
    BY <2>1, <2>2, <2>3 DEF ManifestIsTrue, VerifiedOrGone, Pinned
<1>7. DownloadIsNeeded'
  BY DEF DownloadIsNeeded, OperationConsistent, InstallInv
<1>8. StagedIsPinned'
  BY DEF StagedIsPinned, OperationConsistent, InstallInv, Pinned
<1>9. BundledIsPinned'
  BY DEF BundledIsPinned, OperationConsistent, ControlOK, FilesOK, TypeOK, InstallInv, Pinned
<1>10. LoadsOnlyGenuine'
  BY DEF LoadsOnlyGenuine, InstallInv
<1>11. ReportedMeansUsable'
  BY DEF ReportedMeansUsable, BundleVerified, OperationConsistent, InstallInv
<1> QED
  BY <1>1, <1>2, <1>3, <1>4, <1>5, <1>6, <1>7, <1>8, <1>9, <1>10, <1>11 DEF InstallInv, TypeOK

-----------------------------------------------------------------------------
(* Whatever an earlier version left does not name the pinned archive. *)
LEMMA InitEstablishesInv == Init => InstallInv
<1> SUFFICES ASSUME Init PROVE InstallInv
  OBVIOUS
<1>1. Outdated \in Directory /\ Outdated.manifest.archive = "old"
  BY DEF Outdated, Directory, Manifest, Content
<1>2. dir \in Directory /\ dir.manifest.archive # Pinned
  BY <1>1, EmptyIsDirectory DEF Init, Pinned
<1>3. DirectoriesOK
  BY <1>2, EmptyIsDirectory DEF Init, DirectoriesOK
<1>4. FilesOK
  BY DEF Init, FilesOK, Content, Targets
<1>5. ControlOK /\ CountersOK
  BY DEF Init, ControlOK, CountersOK, Targets
<1> QED
  BY <1>2, <1>3, <1>4, <1>5
  DEF Init, InstallInv, TypeOK, OperationConsistent, ManifestIsTrue, StagedIsPinned,
      BundledIsPinned, VerifiedOrGone, DownloadIsNeeded, LoadsOnlyGenuine, ReportedMeansUsable

(* A step that changes nothing. *)
LEMMA StutterKeepsInv ==
    ASSUME InstallInv, UNCHANGED vars
    PROVE  InstallInv'
<1> USE DEF vars, disk, control, bounds
<1>1. TypeOK'
  BY DEF InstallInv, TypeOK, DirectoriesOK, FilesOK, ControlOK, CountersOK
<1>2. OperationConsistent' /\ StagedIsPinned' /\ BundledIsPinned'
  BY DEF InstallInv, OperationConsistent, StagedIsPinned, BundledIsPinned
<1>3. ManifestIsTrue' /\ VerifiedOrGone' /\ DownloadIsNeeded'
  BY DEF InstallInv, ManifestIsTrue, VerifiedOrGone, DownloadIsNeeded
<1>4. LoadsOnlyGenuine' /\ ReportedMeansUsable'
  BY DEF InstallInv, LoadsOnlyGenuine, ReportedMeansUsable, BundleVerified
<1> QED
  BY <1>1, <1>2, <1>3, <1>4 DEF InstallInv

(* Every step of the specification. *)
LEMMA NextKeepsInv == InstallInv /\ [Next]_vars => InstallInv'
<1> SUFFICES ASSUME InstallInv, [Next]_vars PROVE InstallInv'
  OBVIOUS
<1>1. CASE UNCHANGED vars
  BY <1>1, StutterKeepsInv
<1>2. CASE Next
  BY <1>2, DownloadKeepsInv, DownloadBundleKeepsInv, AssetKeepsInv,
     PublishBundleKeepsInv, ConnectKeepsInv, ReceiveKeepsInv, PublishKeepsInv,
     CancelledKeepsInv, UnstageKeepsInv, ExtractKeepsInv, SealKeepsInv,
     DiscardKeepsInv, MoveKeepsInv, CleanupKeepsInv, RemoveKeepsInv,
     RemoveModelKeepsInv, RemoveBundleKeepsInv, RequestSessionKeepsInv,
     BeginSessionKeepsInv, VerifyModelKeepsInv, LoadModelKeepsInv,
     EndSessionKeepsInv, CrashKeepsInv, PowerCutKeepsInv
  DEF Next, Working, Fetching, Installing, Bundling, Session
<1> QED
  BY <1>1, <1>2

(***************************************************************************)
(* The inductive invariant of installation holds for every set of files    *)
(* and any number of faults.                                               *)
(***************************************************************************)
THEOREM InstallInvariant == Spec => []InstallInv
<1>1. Init => InstallInv
  BY InitEstablishesInv
<1>2. InstallInv /\ [Next]_vars => InstallInv'
  BY NextKeepsInv
<1> QED
  BY <1>1, <1>2, PTL DEF Spec

(***************************************************************************)
(* A session loads nothing but the pinned model (CaptionSession's worker   *)
(* verifies before EngineFactory loads).                                   *)
(***************************************************************************)
THEOREM GenuineLoads == Spec => []LoadsOnlyGenuine
<1>1. InstallInv => LoadsOnlyGenuine
  BY DEF InstallInv
<1> QED
  BY <1>1, InstallInvariant, PTL

(***************************************************************************)
(* When download() or downloadBundle() has returned true the model         *)
(* verifies, and goes on to until remove() or a power cut.                 *)
(***************************************************************************)
THEOREM ReportsAreTrue == Spec => []ReportedMeansUsable
<1>1. InstallInv => ReportedMeansUsable
  BY DEF InstallInv
<1> QED
  BY <1>1, InstallInvariant, PTL

(* A bundle loses a file that verifies to remove() and to nothing else. *)
LEMMA BundleFilesStayPinned ==
    ASSUME InstallInv, Next, BundleVerified, op # "remove"
    PROVE  BundleVerified' \/ PowerCut
<1> USE DEF BundleVerified
<1>1. CASE Download \/ DownloadBundle \/ Connect \/ Receive \/ Cancelled \/ Session
  BY <1>1 DEF Download, DownloadBundle, Connect, Receive, Cancelled, Session, RequestSession,
              BeginSession, VerifyModel, LoadModel, EndSession, disk
<1>2. CASE Publish
  BY <1>2 DEF Publish, Put, Matches, InstallInv, TypeOK, FilesOK, ControlOK, Pinned
<1>3. CASE Installing
  BY <1>3 DEF Installing, Unstage, Extract, Seal, Discard, Move, Cleanup
<1>4. CASE Bundling
  BY <1>4 DEF Bundling, Asset, PublishBundle, disk
<1>5. CASE RemoveModel \/ RemoveBundle
  BY <1>5 DEF RemoveModel, RemoveBundle, InstallInv, OperationConsistent, TypeOK, ControlOK
<1>6. CASE \E id \in {"remove_model", "remove_bundle"} : Remove(id)
  BY <1>6 DEF Remove, disk
<1>7. CASE Crash
  BY <1>7 DEF Crash
<1> QED
  BY <1>1, <1>2, <1>3, <1>4, <1>5, <1>6, <1>7 DEF Next, Working, Fetching

(* A speech model that verifies stays as it is, because nothing downloads  *)
(* over it unless it could not be read, and then a replacement is ready.   *)
LEMMA VerifiedDirectoryStays ==
    ASSUME InstallInv, Next, Verified(dir), op # "remove"
    PROVE  dir' = dir \/ PowerCut \/ (op = "replace" /\ Verified(staging))
<1>1. CASE Download \/ DownloadBundle \/ Fetching \/ Cancelled \/ Session
  BY <1>1 DEF Download, DownloadBundle, Fetching, Connect, Receive, Publish, Cancelled, Session,
              RequestSession, BeginSession, VerifyModel, LoadModel, EndSession, disk
<1>2. CASE Installing
  <2>1. CASE Discard \/ Move
    <3>1. /\ pc \in {"discard", "discarding", "move"} /\ op \in Downloads
          /\ staging \in Directory
      BY <2>1 DEF Discard, Move, InstallInv, OperationConsistent, TypeOK, DirectoriesOK
    <3>2. Verified(staging)
      BY <3>1, SealedVerifies DEF InstallInv, StagedIsPinned
    <3>3. op # "download"
      BY <3>1 DEF InstallInv, DownloadIsNeeded
    <3> QED
      BY <3>1, <3>2, <3>3
  <2>2. CASE Unstage \/ (\E f \in Files : Extract(f)) \/ Seal \/ Cleanup
    BY <2>2 DEF Unstage, Extract, Seal, Cleanup
  <2> QED
    BY <1>2, <2>1, <2>2 DEF Installing
<1>3. CASE Bundling
  BY <1>3 DEF Bundling, Asset, PublishBundle, disk
<1>4. CASE RemoveModel \/ RemoveBundle
  BY <1>4 DEF RemoveModel, RemoveBundle, InstallInv, OperationConsistent, TypeOK, ControlOK
<1>5. CASE \E id \in {"remove_model", "remove_bundle"} : Remove(id)
  BY <1>5 DEF Remove, disk
<1>6. CASE Crash
  BY <1>6 DEF Crash
<1> QED
  BY <1>1, <1>2, <1>3, <1>4, <1>5, <1>6 DEF Next, Working

(***************************************************************************)
(* Only remove() and a power cut take a verified model away, and a         *)
(* download() that could not read it, once its replacement verifies; a     *)
(* bundle's file is only ever replaced by one that was checked.            *)
(***************************************************************************)
THEOREM UsableModelsStay == Spec => UsableIsNeverLost
<1> DEFINE Kept == /\ Verified(dir) => \/ Verified(dir)' \/ op = "remove" \/ PowerCut
                                       \/ op = "replace" /\ Verified(staging)
                   /\ BundleVerified => BundleVerified' \/ op = "remove" \/ PowerCut
<1>1. InstallInv /\ [Next]_vars => [Kept]_vars
  BY BundleFilesStayPinned, VerifiedDirectoryStays
<1> HIDE DEF Kept
<1>2. Spec => [][Kept]_vars
  BY <1>1, InstallInvariant, PTL DEF Spec
<1> QED
  BY <1>2 DEF UsableIsNeverLost, Kept
=============================================================================
