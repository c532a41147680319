---------------------------- MODULE ModelInstall ----------------------------
(***************************************************************************)
(* Models on disk (ModelRepository.kt, ModelStore.kt, VerifiedFiles.kt,    *)
(* TranslationModels.kt): a speech model, which comes as one archive and   *)
(* is installed as a directory, and a bundle, whose files are downloaded   *)
(* one by one.  A mutex lets one operation at a time change the disk; the  *)
(* process or the device may stop at any step, and any access to the disk  *)
(* may fail.  A session verifies and loads the speech model without the    *)
(* mutex.                                                                  *)
(*                                                                         *)
(* Of a file only its relation to the pin matters: absent, cut short,      *)
(* of the right size but wrong, of an earlier pin, or the pinned one.      *)
(***************************************************************************)
EXTENDS Naturals, FiniteSets

CONSTANTS Files,            \* ModelInfo.requiredFiles
          BundleFiles,      \* ModelBundle.files
          MaxFaults,        \* bound: failures, cancellations, crashes, power cuts
          MaxRemoves        \* bound: removals

ASSUME InstallAssumption ==
    /\ Files # {} /\ BundleFiles # {}
    /\ "archive" \notin BundleFiles /\ "manifest" \notin Files
    /\ MaxFaults \in Nat /\ MaxRemoves \in Nat

Content == {"none", "short", "bad", "old", "new"}

Pinned == "new"

SameSize(c, d) == c = d \/ {c, d} \subseteq {"bad", "old", "new"}

(* What .part files are written for. *)
Targets == {"archive"} \cup BundleFiles

NoContent == [f \in Files |-> "none"]

(* verified.properties of a speech model: the archive it came from and,    *)
(* per file, a line with its size and a line with its hash; "none" where   *)
(* there is no such line.                                                  *)
Manifest == [archive : Content, size : [Files -> Content], sha : [Files -> Content]]

NoManifest == [archive |-> "none", size |-> NoContent, sha |-> NoContent]

Directory == [files : [Files -> Content], manifest : Manifest]

Empty == [files |-> NoContent, manifest |-> NoManifest]

VARIABLES dir, staging,     \* the installed directory, and <id>.installing
          written,          \* which of them has data that may not be on disk yet
          archive, parts,   \* <id>.archive, and the .part file of each target
          bundle,           \* the files of the bundle
          lines,            \* the files its manifest lists with the pinned hash
          op, pc, target, attempt, todo,
          result,           \* what the last operation returned, while it is true
          session, loaded,  \* the session that uses the speech model
          faults, removes   \* bounds

disk == <<dir, staging, written, archive, parts, bundle, lines>>
control == <<op, pc, target, attempt, todo, result>>
bounds == <<faults, removes>>
vars == <<disk, control, session, loaded, bounds>>

-----------------------------------------------------------------------------
(* What counts as a model.                                                 *)

(* isPresent(): all files are there with the size their manifest says. *)
IsPresent(d) ==
    /\ d.manifest.archive = Pinned
    /\ \A f \in Files : d.files[f] # "none" /\ SameSize(d.files[f], d.manifest.size[f])

(* Mutant: the model is loaded without hashing it again. *)
Verified_BySize(d) == IsPresent(d)

(* verify() *)
Verified(d) == IsPresent(d) /\ \A f \in Files : d.files[f] = d.manifest.sha[f]

(* writeManifest(): it hashes what it finds. *)
ManifestOf(d) == [archive |-> Pinned, size |-> d.files, sha |-> d.files]

(* present() and verify() of a bundle compare with the pins in the app. *)
BundleVerified == \A f \in BundleFiles : bundle[f] = Pinned /\ f \in lines

Entries == Files \cup {"manifest"}

(* What a deletion leaves of a directory. *)
Keep(d, kept) ==
    [files |-> [f \in Files |-> IF f \in kept THEN d.files[f] ELSE "none"],
     manifest |-> IF "manifest" \in kept THEN d.manifest ELSE NoManifest]

DeleteEntry == \E e \in Entries : dir' = Keep(dir, Entries \ {e}) /\ dir' # dir

-----------------------------------------------------------------------------
(* Every operation.                                                        *)

Fault == faults < MaxFaults /\ faults' = faults + 1

Goto(label) == pc' = label /\ UNCHANGED <<op, target, attempt, todo, result>>

(* Nothing is kept of an operation but the disk. *)
Forget == op' = "none" /\ pc' = "idle" /\ target' = "archive" /\ attempt' = 1 /\ todo' = {}

Return(value) == Forget /\ result' = value

(* A download() for a model that does not verify, or that could not be     *)
(* read when it was verified and is installed anew.                        *)
Downloads == {"download", "replace"}

(* The finally of download() comes before it returns; a bundle has none. *)
Leave(value) ==
    IF op \in Downloads
    THEN pc' = "cleanup" /\ result' = value /\ UNCHANGED <<op, target, attempt, todo>>
    ELSE Return(value)

Fetch(kind) ==
    /\ op' = kind /\ pc' = "fetch" /\ target' = "archive"
    /\ attempt' = 1 /\ result' = "none"
    /\ UNCHANGED todo

(* Mutant: what is there is downloaded again. *)
Download_Always ==
    /\ op = "none"
    /\ Fetch("download")
    /\ UNCHANGED <<disk, session, loaded, bounds>>

(* The screen looks for a session once, before a row of downloads: one may *)
(* have begun since.  verify() may meet an error where nothing is wrong.   *)
Download ==
    /\ op = "none"
    /\ \/ Verified(dir) /\ Return("installed") /\ UNCHANGED faults
       \/ ~Verified(dir) /\ Fetch("download") /\ UNCHANGED faults
       \/ Verified(dir) /\ Fetch("replace") /\ Fault
    /\ UNCHANGED <<disk, session, loaded, removes>>

DownloadBundle ==
    /\ op = "none"
    /\ op' = "bundle" /\ pc' = "asset" /\ todo' = BundleFiles
    /\ result' = "none"
    /\ UNCHANGED <<disk, target, attempt, session, loaded, bounds>>

(* One round of the loop over the files: one that checks out is kept. *)
Asset(f) ==
    /\ pc = "asset" /\ f \in todo
    /\ \/ /\ bundle[f] = Pinned
          /\ todo' = todo \ {f}
          /\ UNCHANGED <<pc, target, attempt, faults>>
       \/ /\ IF bundle[f] = Pinned THEN Fault ELSE UNCHANGED faults
          /\ pc' = "fetch" /\ target' = f /\ attempt' = 1
          /\ UNCHANGED todo
    /\ UNCHANGED <<disk, op, result, session, loaded, removes>>

(* The manifest of the bundle is written aside and replaces the old one in *)
(* one move, or is not.                                                    *)
PublishBundle ==
    /\ pc = "asset" /\ todo = {}
    /\ \/ /\ lines' = BundleFiles /\ written' = written \cup {"lines"}
          /\ Return("bundled") /\ UNCHANGED faults
       \/ Return("failed") /\ Fault /\ UNCHANGED <<lines, written>>
    /\ UNCHANGED <<dir, staging, archive, parts, bundle, session, loaded, removes>>

-----------------------------------------------------------------------------
(* downloadFile() and writeVerified().                                     *)

Part(c) == parts' = [parts EXCEPT ![target] = c]

(* part.delete(), whose result nobody reads *)
DropPart == Part("none") \/ UNCHANGED parts

(* The attempts at one file fail for one reason. *)
FetchFault == IF attempt = 1 THEN Fault ELSE UNCHANGED faults

FetchFails ==
    IF attempt < 3
    THEN pc' = "fetch" /\ attempt' = attempt + 1 /\ UNCHANGED <<op, target, todo, result>>
    ELSE Leave("failed")

(* The connection is made and the .part file opened, or there is none. *)
Connect ==
    /\ pc = "fetch"
    /\ \/ Part("short") /\ Goto("receive") /\ UNCHANGED faults
       \/ FetchFails /\ FetchFault /\ UNCHANGED parts
    /\ UNCHANGED <<dir, staging, written, archive, bundle, lines, session, loaded, removes>>

(* The stream ends, with the right bytes or others, and is synced to disk; *)
(* or it breaks, and the .part file is deleted.                            *)
Receive ==
    /\ pc = "receive"
    /\ \/ Part(Pinned) /\ Goto("check") /\ UNCHANGED faults
       \/ \E c \in {"short", "bad"} : Part(c) /\ Goto("check") /\ FetchFault
       \/ DropPart /\ FetchFails /\ FetchFault
    /\ UNCHANGED <<dir, staging, written, archive, bundle, lines, session, loaded, removes>>

(* Mutant: only the size is compared. *)
Matches_Size(c) == SameSize(c, Pinned)

(* check() of size and hash *)
Matches(c) == c = Pinned

Put ==
    IF target = "archive"
    THEN archive' = parts[target] /\ UNCHANGED bundle
    ELSE bundle' = [bundle EXCEPT ![target] = parts[target]] /\ UNCHANGED archive

(* The .part file is checked and moved into place, or deleted because it   *)
(* is another or could not be read or moved.                               *)
Publish ==
    /\ pc = "check"
    /\ \/ /\ Matches(parts[target])
          /\ Put /\ Part("none")
          /\ Goto(IF target = "archive" THEN "unstage" ELSE "asset")
          /\ UNCHANGED faults
       \/ /\ IF Matches(parts[target]) THEN FetchFault ELSE UNCHANGED faults
          /\ DropPart /\ FetchFails
          /\ UNCHANGED <<archive, bundle>>
    /\ UNCHANGED <<dir, staging, written, lines, session, loaded, removes>>

(* Cancellation is seen before an attempt, inside the stream, between the  *)
(* entries of the archive, and before the old directory is discarded.      *)
Cancelled ==
    /\ pc \in {"fetch", "receive", "extract", "discard"}
    /\ IF pc = "receive" THEN DropPart ELSE UNCHANGED parts
    /\ Leave("cancelled") /\ Fault
    /\ UNCHANGED <<dir, staging, written, archive, bundle, lines, session, loaded, removes>>

-----------------------------------------------------------------------------
(* The installation of the archive.                                        *)

(* Mutant: a directory left by a crash is filled up. *)
Unstage_KeepsLeftovers ==
    /\ pc = "unstage"
    /\ todo' = {f \in Files : staging.files[f] = "none"}
    /\ pc' = "extract"
    /\ UNCHANGED <<disk, op, target, attempt, result, session, loaded, bounds>>

(* staging.deleteRecursively(), whose result nobody reads; mkdirs() *)
Unstage ==
    /\ pc = "unstage"
    /\ \/ staging' = Empty /\ UNCHANGED faults
       \/ \E kept \in SUBSET Entries : staging' = Keep(staging, kept) /\ Fault
    /\ todo' = Files /\ pc' = "extract"
    /\ UNCHANGED <<dir, written, archive, parts, bundle, lines, op, target, attempt, result,
                   session, loaded, removes>>

(* An entry of the archive is copied, or the copy fails half-way. *)
Extract(f) ==
    /\ pc = "extract" /\ f \in todo
    /\ written' = written \cup {"staging"}
    /\ \/ /\ staging' = [staging EXCEPT !.files[f] = archive]
          /\ todo' = todo \ {f}
          /\ UNCHANGED <<op, pc, target, attempt, result, faults>>
       \/ /\ staging' = [staging EXCEPT !.files[f] = "short"]
          /\ Leave("failed") /\ Fault
    /\ UNCHANGED <<dir, archive, parts, bundle, lines, session, loaded, removes>>

(* writeManifest() and the check of the result; either may fail. *)
Seal ==
    /\ pc = "extract" /\ todo = {}
    /\ LET sealed == [staging EXCEPT !.manifest = ManifestOf(staging)] IN
       \/ staging' = sealed /\ IsPresent(sealed) /\ Goto("discard") /\ UNCHANGED faults
       \/ staging' = sealed /\ ~IsPresent(sealed) /\ Leave("failed") /\ UNCHANGED faults
       \/ staging' \in {staging, sealed} /\ Leave("failed") /\ Fault
    /\ UNCHANGED <<dir, written, archive, parts, bundle, lines, session, loaded, removes>>

(* Mutant: what is left of the old directory stays where it is. *)
Discard_Skipped ==
    /\ pc = "discard" /\ Goto("move")
    /\ UNCHANGED <<disk, session, loaded, bounds>>

(* dir.deleteRecursively(), one entry after the other; whether it succeeds *)
(* is not looked at.                                                       *)
Discard ==
    /\ pc \in {"discard", "discarding"}
    /\ \/ /\ dir # Empty /\ Goto("discarding")
          /\ DeleteEntry /\ UNCHANGED faults
       \/ dir = Empty /\ Goto("move") /\ UNCHANGED <<dir, faults>>
       \/ dir # Empty /\ Goto("move") /\ Fault /\ UNCHANGED dir
    /\ UNCHANGED <<staging, written, archive, parts, bundle, lines, session, loaded, removes>>

(* Mutant: what is left of the old directory is moved onto. *)
Move_Merges ==
    /\ pc = "move"
    /\ dir' = [staging EXCEPT !.files = [f \in Files |->
                  IF dir.files[f] = "none" THEN staging.files[f] ELSE dir.files[f]]]
    /\ staging' = Empty
    /\ written' = {IF w = "staging" THEN "dir" ELSE w : w \in written}
    /\ Leave("installed")
    /\ UNCHANGED <<archive, parts, bundle, lines, session, loaded, bounds>>

(* The move is refused if something is left of the old directory, and may  *)
(* fail if not.                                                            *)
Move ==
    /\ pc = "move"
    /\ \/ /\ dir = Empty
          /\ dir' = staging /\ staging' = Empty
          /\ written' = {IF w = "staging" THEN "dir" ELSE w : w \in written}
          /\ Leave("installed") /\ UNCHANGED faults
       \/ /\ IF dir = Empty THEN Fault ELSE UNCHANGED faults
          /\ Leave("failed") /\ UNCHANGED <<dir, staging, written>>
    /\ UNCHANGED <<archive, parts, bundle, lines, session, loaded, removes>>

(* The finally of download(): two deletions whose results nobody reads. *)
Cleanup ==
    /\ pc = "cleanup"
    /\ \/ /\ archive' = "none" /\ staging' = Empty
          /\ written' = written \ {"staging"} /\ UNCHANGED faults
       \/ /\ archive' \in {"none", archive}
          /\ \E kept \in SUBSET Entries : staging' = Keep(staging, kept)
          /\ Fault /\ UNCHANGED written
    /\ Return(result)
    /\ UNCHANGED <<dir, parts, bundle, lines, session, loaded, removes>>

-----------------------------------------------------------------------------
(* remove()                                                                *)

Remove(id) ==
    /\ op = "none" /\ session \in {"idle", "requested"}
    /\ removes < MaxRemoves /\ removes' = removes + 1
    /\ op' = "remove" /\ pc' = id /\ result' = "none"
    /\ UNCHANGED <<disk, target, attempt, todo, session, loaded, faults>>

(* deleteRecursively(), which may fail before the directory is empty. *)
RemoveModel ==
    /\ pc = "remove_model"
    /\ \/ DeleteEntry /\ UNCHANGED <<control, faults>>
       \/ dir = Empty /\ Return("none") /\ UNCHANGED <<dir, faults>>
       \/ dir # Empty /\ Return("failed") /\ Fault /\ UNCHANGED dir
    /\ UNCHANGED <<staging, written, archive, parts, bundle, lines, session, loaded, removes>>

RemoveBundle ==
    /\ pc = "remove_bundle"
    /\ \/ /\ \E f \in BundleFiles :
               /\ bundle[f] # "none"
               /\ bundle' = [bundle EXCEPT ![f] = "none"]
          /\ UNCHANGED <<lines, parts, control, faults>>
       \/ lines # {} /\ lines' = {} /\ UNCHANGED <<bundle, parts, control, faults>>
       \/ /\ lines = {} /\ \A f \in BundleFiles : bundle[f] = "none"
          /\ parts' = [t \in Targets |-> IF t \in BundleFiles THEN "none" ELSE parts[t]]
          /\ Return("none") /\ UNCHANGED <<bundle, lines, faults>>
       \/ Return("failed") /\ Fault /\ UNCHANGED <<bundle, lines, parts>>
    /\ UNCHANGED <<dir, staging, written, archive, session, loaded, removes>>

-----------------------------------------------------------------------------
(* A session that needs the speech model.                                  *)

(* The screen asks for a session if the model is present ... *)
RequestSession ==
    /\ session = "idle" /\ IsPresent(dir)
    /\ session' = "requested"
    /\ UNCHANGED <<disk, control, loaded, bounds>>

(* ... the service begins it (CaptionState.running) ... *)
BeginSession ==
    /\ session = "requested"
    /\ session' = "running"
    /\ UNCHANGED <<disk, control, loaded, bounds>>

(* ... its worker verifies the model, which an error ends as well ... *)
VerifyModel ==
    /\ session = "running"
    /\ \/ Verified(dir) /\ session' = "verified" /\ UNCHANGED faults
       \/ ~Verified(dir) /\ session' = "idle" /\ UNCHANGED faults
       \/ Verified(dir) /\ session' = "idle" /\ Fault
    /\ UNCHANGED <<disk, control, loaded, removes>>

(* ... and loads it, which fails if a file is missing. *)
LoadModel ==
    /\ session = "verified"
    /\ IF \A f \in Files : dir.files[f] # "none"
       THEN session' = "loaded" /\ loaded' = dir.files
       ELSE session' = "idle" /\ UNCHANGED loaded
    /\ UNCHANGED <<disk, control, bounds>>

EndSession ==
    /\ session = "loaded"
    /\ session' = "idle" /\ loaded' = NoContent
    /\ UNCHANGED <<disk, control, bounds>>

-----------------------------------------------------------------------------
(* Faults of the process and the device.                                   *)

Restart ==
    /\ Fault
    /\ Forget
    /\ session' = "idle" /\ loaded' = NoContent
    /\ UNCHANGED removes

(* The process is killed.  The disk stays as it is, with the entry of the  *)
(* archive half-written that was being copied.                             *)
Crash ==
    /\ op # "none" \/ session # "idle"
    /\ Restart
    /\ \/ UNCHANGED staging
       \/ \E f \in todo : pc = "extract" /\ staging' = [staging EXCEPT !.files[f] = "short"]
    /\ UNCHANGED <<dir, written, archive, parts, bundle, lines, result>>

(* A manifest that lost lines: one without its archive or a size is to     *)
(* every check what no manifest is.                                        *)
Torn(m) ==
    {NoManifest} \cup
    {[m EXCEPT !.sha = [f \in Files |-> IF f \in shas THEN m.sha[f] ELSE "none"]] :
        shas \in SUBSET Files}

(* The power fails: of what was not synced any file may be cut, or keep    *)
(* its size and lose its bytes, and the manifest may lose any lines.       *)
Damage ==
    \E cut, spoilt \in SUBSET Files, m \in Torn(dir.manifest) :
        dir' = [files |-> [f \in Files |->
                    IF dir.files[f] = "none" THEN "none"
                    ELSE IF f \in cut THEN "short"
                    ELSE IF f \in spoilt THEN "bad"
                    ELSE dir.files[f]],
                manifest |-> m]

PowerCut ==
    /\ written \cap {"dir", "lines"} # {}
    /\ Restart
    /\ result' = "none"
    /\ IF "dir" \in written THEN Damage ELSE UNCHANGED dir
    /\ IF "lines" \in written THEN lines' \in SUBSET lines ELSE UNCHANGED lines
    /\ written' = {}
    /\ UNCHANGED <<staging, archive, parts, bundle>>

-----------------------------------------------------------------------------
(* Nothing was installed, or an earlier version of the app installed what  *)
(* it had pinned.                                                          *)
Outdated ==
    LET old == [f \in Files |-> "old"]
    IN  [files |-> old, manifest |-> [archive |-> "old", size |-> old, sha |-> old]]

Init ==
    /\ dir \in {Empty, Outdated} /\ staging = Empty /\ written = {}
    /\ archive = "none" /\ parts = [t \in Targets |-> "none"]
    /\ bundle \in [BundleFiles -> {"none", "old"}] /\ lines = {}
    /\ op = "none" /\ pc = "idle" /\ target = "archive" /\ attempt = 1 /\ todo = {}
    /\ result = "none"
    /\ session = "idle" /\ loaded = NoContent
    /\ faults = 0 /\ removes = 0

Fetching == Connect \/ Receive \/ Publish

Installing == Unstage \/ (\E f \in Files : Extract(f)) \/ Seal \/ Discard \/ Move \/ Cleanup

Bundling == (\E f \in BundleFiles : Asset(f)) \/ PublishBundle

Session == RequestSession \/ BeginSession \/ VerifyModel \/ LoadModel \/ EndSession

Working == Fetching \/ Installing \/ Bundling \/ RemoveModel \/ RemoveBundle

Next ==
    \/ Download \/ DownloadBundle \/ Working \/ Cancelled
    \/ \E id \in {"remove_model", "remove_bundle"} : Remove(id)
    \/ Session \/ Crash \/ PowerCut

(* An operation that runs goes on; nobody has to begin one. *)
Spec == Init /\ [][Next]_vars /\ WF_vars(Working)

-----------------------------------------------------------------------------
DirectoriesOK == dir \in Directory /\ staging \in Directory /\ loaded \in [Files -> Content]

FilesOK ==
    /\ written \subseteq {"dir", "staging", "lines"}
    /\ archive \in Content /\ parts \in [Targets -> Content]
    /\ bundle \in [BundleFiles -> Content] /\ lines \subseteq BundleFiles

ControlOK ==
    /\ op \in {"none", "bundle", "remove"} \cup Downloads
    /\ pc \in {"idle", "asset", "fetch", "receive", "check", "unstage", "extract", "discard",
               "discarding", "move", "cleanup", "remove_model", "remove_bundle"}
    /\ target \in Targets /\ todo \subseteq Files \cup BundleFiles
    /\ result \in {"none", "installed", "bundled", "failed", "cancelled"}
    /\ session \in {"idle", "requested", "running", "verified", "loaded"}

CountersOK == attempt \in 1..3 /\ faults \in Nat /\ removes \in Nat

TypeOK == DirectoriesOK /\ FilesOK /\ ControlOK /\ CountersOK

(* Where an operation is and what it works on. *)
OperationConsistent ==
    /\ op = "none" <=> pc = "idle"
    /\ op \in Downloads <=> pc \in {"unstage", "extract", "discard", "discarding", "move", "cleanup"}
                            \/ (pc \in {"fetch", "receive", "check"} /\ target = "archive")
    /\ op = "bundle" <=> pc = "asset"
                         \/ (pc \in {"fetch", "receive", "check"} /\ target \in BundleFiles)
    /\ pc \notin {"idle", "cleanup"} => result = "none"

(* A manifest that names the pinned archive has the hashes of its files. *)
ManifestIsTrue ==
    dir.manifest.archive = Pinned => \A f \in Files : dir.manifest.sha[f] \in {"none", Pinned}

(* What is copied from an archive that was checked is the pinned content,  *)
(* and a staged directory that is about to be moved is complete.           *)
StagedIsPinned ==
    /\ pc \in {"unstage", "extract"} => archive = Pinned
    /\ pc = "extract" =>
         todo \subseteq Files /\ \A f \in Files \ todo : staging.files[f] = Pinned
    /\ pc \in {"discard", "discarding", "move"} =>
         staging.manifest = ManifestOf(staging) /\ \A f \in Files : staging.files[f] = Pinned

BundledIsPinned ==
    op = "bundle" => todo \subseteq BundleFiles /\ \A f \in BundleFiles \ todo : bundle[f] = Pinned

(* What was verified is still there, or gone. *)
VerifiedOrGone == session = "verified" => \A f \in Files : dir.files[f] \in {"none", Pinned}

(* A download that no read error began is for a model that does not        *)
(* verify.                                                                 *)
DownloadIsNeeded == op = "download" /\ pc # "cleanup" => ~Verified(dir)

(***************************************************************************)
(* What a session loads is the pinned model, all of it, whatever crashes,  *)
(* power cuts, failed downloads and removals went before, and although the *)
(* manifest is written by the app from what it extracted (docs/MODELS.md:  *)
(* "installed contents have a manifest and are rehashed before native      *)
(* model loading").                                                        *)
(***************************************************************************)
LoadsOnlyGenuine == session = "loaded" => \A f \in Files : loaded[f] = Pinned

(***************************************************************************)
(* An operation that returns true leaves a model that can be used, and it  *)
(* stays so through crashes of the process.                                *)
(***************************************************************************)
ReportedMeansUsable ==
    /\ result = "installed" => Verified(dir)
    /\ result = "bundled" => BundleVerified

(***************************************************************************)
(* The inductive invariant: what each step of a download has established   *)
(* when the next one, or a crash, comes.                                   *)
(***************************************************************************)
InstallInv ==
    /\ TypeOK
    /\ OperationConsistent
    /\ ManifestIsTrue
    /\ StagedIsPinned
    /\ BundledIsPinned
    /\ VerifiedOrGone
    /\ DownloadIsNeeded
    /\ LoadsOnlyGenuine
    /\ ReportedMeansUsable

(***************************************************************************)
(* A model that verifies is not lost by a download that fails, is          *)
(* cancelled or crashes; only remove() and a power cut take it away, and a *)
(* download that could not read it, which discards it no sooner than its   *)
(* replacement verifies (the comment on deleteRecursively: "Only discard   *)
(* an invalid installation after the replacement is fully verified").      *)
(***************************************************************************)
UsableIsNeverLost ==
    [][/\ Verified(dir) => \/ Verified(dir)' \/ op = "remove" \/ PowerCut
                           \/ op = "replace" /\ Verified(staging)
       /\ BundleVerified => BundleVerified' \/ op = "remove" \/ PowerCut]_vars

(***************************************************************************)
(* No state that failures and crashes leave behind keeps a model from      *)
(* being installed by somebody who asks again.                             *)
(***************************************************************************)
AskingAgainInstalls ==
    /\ []<><<Download>>_vars => []<>Verified(dir)
    /\ []<><<DownloadBundle>>_vars => []<>BundleVerified
=============================================================================
