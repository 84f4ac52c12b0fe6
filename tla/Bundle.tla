------------------------------- MODULE Bundle -------------------------------
(***************************************************************************)
(* create_bundle, file by file, and what follows it in run_task up to the  *)
(* run record; list artifact-bundles, which may run at any moment.         *)
(*                                                                         *)
(* A run collects two kinds of files under artifacts/<run id>/: its own    *)
(* (the runner's output, the invocation) and copies, in runner-artifacts/, *)
(* of what the runner left in the workspace.  The runner's command has     *)
(* returned, but a process that it started may live on and still change    *)
(* the workspace.                                                          *)
(***************************************************************************)
EXTENDS TextFiles, Naturals, FiniteSets

CONSTANTS
    Runs,         \* run ids, one for each run command
    Lingering,    \* the runs whose runner left a process behind
    Names,        \* names of files, in their order; both kinds may use the same
    OwnName,      \* the name of the run's own file (one stands for all)
    Texts,        \* contents ...
    OwnText,      \* ... that of the run's own file
    Left,         \* what runners leave in their workspaces
    Blend         \* a copy of a file that changed while it was copied

ASSUME LingeringAssumption == Lingering \subseteq Runs
ASSUME NoRun == {Absent, Torn} \cap Runs = {}
ASSUME NamesAssumption == Names \subseteq Nat
ASSUME OwnAssumption == OwnName \in Names /\ OwnText \in Texts
ASSUME LeftAssumption == Left \subseteq [Names -> Texts \cup {Absent}]
ASSUME ContentsDiffer ==
    /\ Cardinality({Absent, Torn, Mixed, Blend}) = 4
    /\ {Absent, Torn, Mixed, Blend} \cap Texts = {}

Places == {"own", "runner"} \X Names
Bytes == Texts \cup {Blend}

(* A manifest gives the place and the digest, here the bytes themselves,   *)
(* of every artifact.  The keys of the two kinds differ as places do.      *)
Keys == Places
Manifests == UNION {[keys -> [path: Places, sha256: Bytes]] : keys \in SUBSET Keys}

ASSUME NoManifest == {Absent, Torn} \cap Manifests = {}

VARIABLES
    source,       \* the files in the workspace of each run
    stored,       \* the files under artifacts/
    manifest,     \* bundle.json
    record,       \* the run record
    pc,           \* where the run command is
    found,        \* the workspace files it has yet to copy
    copying,      \* what it has begun to copy: name and content
    digests,      \* the manifest in its memory
    reader,       \* where the listing is
    todo,         \* the runs it has yet to read or to load
    listed,       \* the manifests it has read
    before,       \* the runs whose manifest was whole when it began
    unsettled     \* the runs it may have met between manifest and record

runFiles == <<source, stored, manifest, record>>
memory == <<pc, found, copying, digests>>
listing == <<reader, todo, listed, before>>
bundleVars == <<runFiles, memory, listing, unsettled>>

NoFunction == [x \in {} |-> Absent]
Readable(file) == file \notin {Absent, Torn}

BundleInit ==
    /\ source \in [Runs -> Left]
    /\ stored = [r \in Runs |-> [place \in Places |-> Absent]]
    /\ manifest = [r \in Runs |-> Absent]
    /\ record = [r \in Runs |-> Absent]
    /\ pc = [r \in Runs |-> "open_own"]
    /\ found = [r \in Runs |-> {}]
    /\ copying = [r \in Runs |-> <<>>]
    /\ digests = [r \in Runs |-> NoFunction]
    /\ reader = "idle" /\ todo = {}
    /\ listed = NoFunction /\ before = {}
    /\ unsettled = {}

-----------------------------------------------------------------------------
(* The run command. *)

GoTo(r, label) == pc' = [pc EXCEPT ![r] = label]

Store(r, place, content) == stored' = [stored EXCEPT ![r][place] = content]

Digest(r, key, place, bytes) ==
    digests' = [digests EXCEPT ![r] =
        [k \in DOMAIN digests[r] \cup {key} |->
            IF k = key THEN [path |-> place, sha256 |-> bytes]
            ELSE digests[r][k]]]

(* A listing under way notices the runs whose manifest is there but whose  *)
(* record is not.                                                          *)
Unsettled(r) == manifest[r] # Absent /\ record[r] \in {Absent, Torn}
Notice == unsettled' = IF reader \in {"reading", "loading"}
                       THEN unsettled \cup {r \in Runs : Unsettled(r)'}
                       ELSE unsettled

OwnPlace == <<"own", OwnName>>

OpenOwn(r) ==
    /\ pc[r] = "open_own"
    /\ Store(r, OwnPlace, Torn)
    /\ GoTo(r, "write_own")
    /\ UNCHANGED <<source, manifest, record, found, copying, digests>>

(* The digest is taken from the file.  Nobody else writes it. *)
WriteOwn(r) ==
    /\ pc[r] = "write_own"
    /\ Store(r, OwnPlace, OwnText)
    /\ Digest(r, OwnPlace, OwnPlace, OwnText)
    /\ GoTo(r, "scan")
    /\ UNCHANGED <<source, manifest, record, found, copying>>

(* The files that the workspace holds now, as a list: what appears later   *)
(* is not collected.                                                       *)
Scan(r) ==
    /\ pc[r] = "scan"
    /\ found' = [found EXCEPT ![r] = {n \in Names : source[r][n] # Absent}]
    /\ GoTo(r, "copy")
    /\ UNCHANGED <<runFiles, copying, digests>>

(* Wrong variant: copies go beside the run's own files. *)
DestinationBesideOwn(n) == <<"own", n>>

Destination(n) == <<"runner", n>>

AfterCollection == "open_manifest"

(* The copies are made in the order of the names. *)
Least(n, names) == \A other \in names : n <= other

(* shutil.copy2 opens the source, which may be gone, and empties the       *)
(* destination ...                                                         *)
OpenCopy(r) ==
    /\ pc[r] = "copy"
    /\ \E n \in found[r] :
          /\ Least(n, found[r])
          /\ source[r][n] # Absent
          /\ copying' = [copying EXCEPT ![r] = <<n, source[r][n]>>]
          /\ Store(r, Destination(n), Torn)
    /\ GoTo(r, "copying")
    /\ UNCHANGED <<source, manifest, record, found, digests>>

(* ... and writes there what it reads, of the one, the other or both, if   *)
(* the source is being changed.  Then it copies the file's times.          *)
Copied(seen, now) == IF seen = now THEN {seen} ELSE {seen, now, Blend}

FinishCopy(r) ==
    /\ pc[r] = "copying"
    /\ LET n == copying[r][1]
       IN /\ source[r][n] # Absent
          /\ \E bytes \in Copied(copying[r][2], source[r][n]) :
               Store(r, Destination(n), bytes)
    /\ GoTo(r, "digest")
    /\ UNCHANGED <<source, manifest, record, found, copying, digests>>

(* FileNotFoundError, before or after the copy: nobody catches it, and the *)
(* task stays running.                                                     *)
CopyRaises(r) ==
    /\ \/ /\ pc[r] = "copy"
          /\ \E n \in found[r] : Least(n, found[r]) /\ source[r][n] = Absent
       \/ /\ pc[r] = "copying"
          /\ source[r][copying[r][1]] = Absent
    /\ GoTo(r, "dead")
    /\ UNCHANGED <<runFiles, found, copying, digests>>

(* Wrong variant: the digest is taken from the workspace. *)
DigestSource(r) ==
    /\ pc[r] = "digest"
    /\ LET n == copying[r][1]
       IN /\ Digest(r, <<"runner", n>>, Destination(n), source[r][n])
          /\ found' = [found EXCEPT ![r] = @ \ {n}]
    /\ GoTo(r, "copy")
    /\ copying' = [copying EXCEPT ![r] = <<>>]
    /\ UNCHANGED runFiles

(* The digest is taken from the copy. *)
DigestCopy(r) ==
    /\ pc[r] = "digest"
    /\ LET n == copying[r][1]
       IN /\ Digest(r, <<"runner", n>>, Destination(n),
                 stored[r][Destination(n)])
          /\ found' = [found EXCEPT ![r] = @ \ {n}]
    /\ GoTo(r, "copy")
    /\ copying' = [copying EXCEPT ![r] = <<>>]
    /\ UNCHANGED runFiles

Collected(r) ==
    /\ pc[r] = "copy"
    /\ found[r] = {}
    /\ GoTo(r, AfterCollection)
    /\ UNCHANGED <<runFiles, found, copying, digests>>

OpenManifest(r) ==
    /\ pc[r] = "open_manifest"
    /\ manifest' = [manifest EXCEPT ![r] = Torn]
    /\ GoTo(r, "write_manifest")
    /\ UNCHANGED <<source, stored, record, found, copying, digests>>

WriteManifest(r) ==
    /\ pc[r] = "write_manifest"
    /\ manifest' = [manifest EXCEPT ![r] = digests[r]]
    /\ GoTo(r, "open_record")
    /\ UNCHANGED <<source, stored, record, found, copying, digests>>

OpenRecord(r) ==
    /\ pc[r] = "open_record"
    /\ record' = [record EXCEPT ![r] = Torn]
    /\ GoTo(r, "write_record")
    /\ UNCHANGED <<source, stored, manifest, found, copying, digests>>

WriteRecord(r) ==
    /\ pc[r] = "write_record"
    /\ record' = [record EXCEPT ![r] = r]
    /\ GoTo(r, "done")
    /\ UNCHANGED <<source, stored, manifest, found, copying, digests>>

(* A kill or a power cut. *)
Dies(r) ==
    /\ pc[r] \notin {"done", "dead"}
    /\ GoTo(r, "dead")
    /\ UNCHANGED <<runFiles, found, copying, digests>>

(* Wrong variant: the files of the workspace are linked, not copied, so    *)
(* who writes to them also writes to what is kept, at any time.            *)
LingerThroughLinks(r) ==
    /\ r \in Lingering
    /\ pc[r] \notin {"open_own", "write_own"}
    /\ \E n \in Names, content \in Texts :
         /\ source' = [source EXCEPT ![r][n] = content]
         /\ IF stored[r][Destination(n)] = Absent THEN UNCHANGED stored
            ELSE Store(r, Destination(n), content)
    /\ UNCHANGED <<manifest, record, memory>>

(* The process the runner left behind writes, adds or removes a file.      *)
(* After the collection nobody reads the workspace.                        *)
Linger(r) ==
    /\ r \in Lingering
    /\ pc[r] \in {"scan", "copy", "copying", "digest"}
    /\ \E n \in Names, content \in Texts \cup {Absent} :
         source' = [source EXCEPT ![r][n] = content]
    /\ UNCHANGED <<stored, manifest, record, memory>>

RunStep(r) ==
    \/ OpenOwn(r) \/ WriteOwn(r) \/ Scan(r) \/ OpenCopy(r) \/ FinishCopy(r)
    \/ CopyRaises(r) \/ DigestCopy(r) \/ Collected(r)
    \/ OpenManifest(r) \/ WriteManifest(r) \/ OpenRecord(r) \/ WriteRecord(r)
    \/ Dies(r) \/ Linger(r)

-----------------------------------------------------------------------------
(* list artifact-bundles, at any moment. *)

Manifested == {r \in Runs : Readable(manifest[r])}

(* Wrong variant: the runs are listed, not the bundles. *)
GlobRecords ==
    /\ reader = "idle"
    /\ reader' = "reading"
    /\ todo' = {r \in Runs : Readable(record[r])}
    /\ before' = Manifested
    /\ unsettled' = {r \in Runs : Unsettled(r)}
    /\ UNCHANGED <<runFiles, memory, listed>>

(* The manifests that exist, readable or not. *)
Glob ==
    /\ reader = "idle"
    /\ reader' = "reading"
    /\ todo' = {r \in Runs : manifest[r] # Absent}
    /\ before' = Manifested
    /\ unsettled' = {r \in Runs : Unsettled(r)}
    /\ UNCHANGED <<runFiles, memory, listed>>

(* One that is torn fails the listing. *)
ReadManifest(r) ==
    /\ reader = "reading"
    /\ r \in todo
    /\ IF Readable(manifest[r])
       THEN /\ listed' = [x \in DOMAIN listed \cup {r} |->
                             IF x = r THEN manifest[r] ELSE listed[x]]
            /\ todo' = todo \ {r}
            /\ UNCHANGED reader
       ELSE reader' = "failed" /\ UNCHANGED <<listed, todo>>
    /\ UNCHANGED <<runFiles, memory, before, unsettled>>

(* With --task-id there is more to read. *)
ManifestsRead ==
    /\ reader = "reading"
    /\ todo = {}
    /\ \/ reader' = "loading" /\ todo' = DOMAIN listed
       \/ reader' = "returned" /\ UNCHANGED todo
    /\ UNCHANGED <<runFiles, memory, listed, before, unsettled>>

(* To filter by task, the record of every listed run is loaded, of any     *)
(* task: one that is missing or torn fails the listing.                    *)
LoadRun(r) ==
    /\ reader = "loading"
    /\ r \in todo
    /\ IF Readable(record[r])
       THEN todo' = todo \ {r} /\ UNCHANGED reader
       ELSE reader' = "failed" /\ UNCHANGED todo
    /\ UNCHANGED <<runFiles, memory, listed, before, unsettled>>

RunsLoaded ==
    /\ reader = "loading"
    /\ todo = {}
    /\ reader' = "returned"
    /\ UNCHANGED <<runFiles, memory, todo, listed, before, unsettled>>

BundleNext ==
    \/ \E r \in Runs : RunStep(r) /\ Notice /\ UNCHANGED listing
    \/ Glob
    \/ \E r \in Runs : ReadManifest(r) \/ LoadRun(r)
    \/ ManifestsRead
    \/ RunsLoaded

BundleSpec == BundleInit /\ [][BundleNext]_bundleVars

-----------------------------------------------------------------------------
(* The type invariant. *)
BundleTypeOK ==
    /\ source \in [Runs -> [Names -> Texts \cup {Absent}]]
    /\ stored \in [Runs -> [Places -> Bytes \cup {Absent, Torn}]]
    /\ \A r \in Runs : manifest[r] \in Manifests \cup {Absent, Torn}
    /\ \A r \in Runs : record[r] \in {r, Absent, Torn}
    /\ pc \in [Runs -> {"open_own", "write_own", "scan", "copy", "copying",
                        "digest", "open_manifest", "write_manifest",
                        "open_record", "write_record", "done", "dead"}]
    /\ found \in [Runs -> SUBSET Names]
    /\ \A r \in Runs : copying[r] \in (Names \X Texts) \cup {<<>>}
    /\ \A r \in Runs : digests[r] \in Manifests
    /\ reader \in {"idle", "reading", "loading", "returned", "failed"}
    /\ todo \subseteq Runs
    /\ DOMAIN listed \subseteq Runs /\ before \subseteq Runs
    /\ unsettled \subseteq Runs

(* "The stored digest for each artifact covers that artifact's persisted   *)
(* bytes": whatever a process the runner left behind does to the workspace *)
(* while its files are collected, and whatever they are called, the files  *)
(* that a manifest lists are there and have the digests it gives.          *)
DigestsCoverCopies ==
    \A r \in Runs : Readable(manifest[r]) =>
        /\ OwnPlace \in DOMAIN manifest[r]
        /\ \A key \in DOMAIN manifest[r] :
             LET artifact == manifest[r][key]
             IN stored[r][artifact.path] = artifact.sha256

(* A listing that comes to its end has every bundle that was complete when *)
(* it began, as it still is ("immutable once persisted"); and one fails    *)
(* only because of a run that was, while it listed, between the opening of *)
(* its manifest and the end of its record: under way, or dead there, which *)
(* makes every later listing fail.                                         *)
ListingSound ==
    /\ reader = "returned" =>
         /\ before \subseteq DOMAIN listed
         /\ \A r \in DOMAIN listed : listed[r] = manifest[r]
    /\ reader = "failed" => unsettled # {}

-----------------------------------------------------------------------------
(* The abstract archive.  A bundle is kept from the moment its manifest is *)
(* whole, and what it holds is what the stored files hold, read at the     *)
(* places the manifest gives; what a list says is what it read: digests.   *)

KeptBundles ==
    [r \in Manifested |->
        [key \in DOMAIN manifest[r] |-> stored[r][manifest[r][key].path]]]

FiledRuns == {r \in Runs : record[r] # Absent}

ListingPhase == [idle |-> "idle", reading |-> "asked", loading |-> "asked",
                 returned |-> "answered", failed |-> "failed"][reader]

ListedDigests ==
    IF reader = "returned"
    THEN [r \in DOMAIN listed |->
            [key \in DOMAIN listed[r] |-> listed[r][key].sha256]]
    ELSE NoFunction

A == INSTANCE Archive
        WITH kept <- KeptBundles, filed <- FiledRuns, phase <- ListingPhase,
             floor <- before, answer <- ListedDigests

(* "immutable once persisted": the files, the manifests and the records of *)
(* overlapping runs, written in many steps, any of which may be the last,  *)
(* are an archive in which whole bundles appear at once and never change,  *)
(* and whose lists tell the digests of what is kept.                       *)
ArchiveSpec == A!Spec
=============================================================================
