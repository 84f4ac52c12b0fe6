---------------------------- MODULE BundleProofs ----------------------------
(***************************************************************************)
(* What a bundle promises a reviewer, for any number of runs, files and    *)
(* contents: the digests of a manifest are those of the bytes that are     *)
(* kept, and a run record has its whole bundle.                            *)
(*                                                                         *)
(* The run commands share nothing but the directory, so the invariant      *)
(* speaks of each run by itself: what its memory says of its files holds   *)
(* at every step, since a place that has its digest is not written again.  *)
(***************************************************************************)
EXTENDS Bundle, FiniteSetTheorems, TLAPS

Early == {"open_own", "write_own", "scan", "copy", "copying", "digest",
          "open_manifest"}
Late == {"open_record", "write_record", "done"}
Labels == Early \cup Late \cup {"write_manifest", "dead"}
Artifact == [path: Places, sha256: Bytes]

Types ==
    /\ source \in [Runs -> [Names -> Texts \cup {Absent}]]
    /\ stored \in [Runs -> [Places -> Bytes \cup {Absent, Torn}]]
    /\ manifest \in [Runs -> Manifests \cup {Absent, Torn}]
    /\ record \in [Runs -> Runs \cup {Absent, Torn}]
    /\ pc \in [Runs -> Labels]
    /\ found \in [Runs -> SUBSET Names]
    /\ copying \in [Runs -> (Names \X Texts) \cup {<<>>}]
    /\ digests \in [Runs -> Manifests]

(* The manifest in memory is true of the files. *)
Digested(r) ==
    \A key \in DOMAIN digests[r] :
        /\ digests[r][key].path = key
        /\ stored[r][key] = digests[r][key].sha256

(* What has its digest, and what has yet to get it. *)
Collecting(r) ==
    /\ pc[r] \in {"open_own", "write_own"} => DOMAIN digests[r] = {}
    /\ pc[r] = "scan" => DOMAIN digests[r] = {OwnPlace}
    /\ pc[r] \notin {"open_own", "write_own", "dead"} =>
         OwnPlace \in DOMAIN digests[r]
    /\ pc[r] \in {"copy", "copying", "digest"} =>
         \A n \in found[r] : Destination(n) \notin DOMAIN digests[r]
    /\ pc[r] \in {"copying", "digest"} =>
         copying[r] \in Names \X Texts /\ copying[r][1] \in found[r]
    /\ pc[r] = "digest" => stored[r][Destination(copying[r][1])] \in Bytes

(* The manifest in its file, and the record after it. *)
Filed(r) ==
    /\ pc[r] \in Early => manifest[r] = Absent
    /\ pc[r] = "write_manifest" => manifest[r] = Torn
    /\ pc[r] \in Late => manifest[r] = digests[r]
    /\ Readable(manifest[r]) =>
         manifest[r] = digests[r] /\ OwnPlace \in DOMAIN digests[r]
    /\ pc[r] \in Early \cup {"write_manifest"} => record[r] = Absent
    /\ record[r] # Absent => manifest[r] = digests[r]

RunInv(r) == Digested(r) /\ Collecting(r) /\ Filed(r)

BInv == Types /\ \A r \in Runs : RunInv(r)

-----------------------------------------------------------------------------
(* Manifests. *)

LEMMA ManifestShape ==
  ASSUME NEW m \in Manifests
  PROVE  /\ DOMAIN m \subseteq Keys
         /\ \A key \in DOMAIN m : m[key] \in Artifact
BY DEF Manifests, Artifact

LEMMA ManifestAdd ==
  ASSUME NEW m \in Manifests, NEW key \in Keys,
         NEW place \in Places, NEW bytes \in Bytes
  PROVE  [k \in DOMAIN m \cup {key} |->
            IF k = key THEN [path |-> place, sha256 |-> bytes] ELSE m[k]]
         \in Manifests
<1> DEFINE keys == DOMAIN m \cup {key}
<1>1. keys \in SUBSET Keys
  BY ManifestShape
<1>2. \A k \in keys : k # key => m[k] \in [path: Places, sha256: Bytes]
  BY ManifestShape DEF Artifact
<1>3. [path |-> place, sha256 |-> bytes] \in [path: Places, sha256: Bytes]
  OBVIOUS
<1>4. [k \in keys |-> IF k = key THEN [path |-> place, sha256 |-> bytes] ELSE m[k]]
      \in [keys -> [path: Places, sha256: Bytes]]
  BY <1>2, <1>3
<1> QED
  BY <1>1, <1>4 DEF Manifests

LEMMA ManifestIsRead == \A m \in Manifests : Readable(m)
BY NoManifest DEF Readable

LEMMA PlacesAreOfNames ==
  /\ OwnPlace \in Places
  /\ \A n \in Names : Destination(n) \in Places /\ Destination(n) # OwnPlace
BY OwnAssumption DEF OwnPlace, Places, Destination

(* A step of one run leaves the others alone. *)
Others(r) ==
    /\ \A s \in Runs \ {r} :
         /\ stored'[s] = stored[s] /\ manifest'[s] = manifest[s]
         /\ record'[s] = record[s] /\ pc'[s] = pc[s]
         /\ found'[s] = found[s] /\ copying'[s] = copying[s]
         /\ digests'[s] = digests[s]

LEMMA OneRun ==
  ASSUME BInv, NEW r \in Runs, Types', Others(r), RunInv(r)'
  PROVE  BInv'
<1>1. ASSUME NEW s \in Runs, s # r
      PROVE  RunInv(s)'
  <2>1. RunInv(s)
    BY DEF BInv
  <2>2. Digested(s)'
    BY <1>1, <2>1 DEF Others, RunInv, Digested
  <2>3. Collecting(s)'
    BY <1>1, <2>1 DEF Others, RunInv, Collecting, Destination, OwnPlace
  <2>4. Filed(s)'
    BY <1>1, <2>1 DEF Others, RunInv, Filed, Readable, OwnPlace
  <2> QED
    BY <2>2, <2>3, <2>4 DEF RunInv
<1> QED
  BY <1>1 DEF BInv

-----------------------------------------------------------------------------
(* The initial states. *)

LEMMA BundleStarts ==
  ASSUME BundleInit
  PROVE  BInv
<1>1. NoFunction \in Manifests
  BY DEF NoFunction, Manifests
<1>2. DOMAIN NoFunction = {}
  BY DEF NoFunction
<1>3. Types
  BY <1>1, LeftAssumption
     DEF BundleInit, Types, Labels, Early, Bytes
<1>4. ASSUME NEW r \in Runs
      PROVE  RunInv(r)
  BY <1>2 DEF BundleInit, RunInv, Digested, Collecting, Filed, Early, Late, Readable
<1> QED
  BY <1>3, <1>4 DEF BInv

-----------------------------------------------------------------------------
(* The steps of a run command. *)

LEMMA OpenOwnKeeps ==
  ASSUME BInv, NEW r \in Runs, OpenOwn(r)
  PROVE  BInv'
<1>1. Types'
  BY PlacesAreOfNames DEF BInv, Types, OpenOwn, Store, GoTo, Labels, Early
<1>2. Others(r)
  BY DEF BInv, Types, OpenOwn, Store, GoTo, Others
<1>3. RunInv(r)'
  BY DEF BInv, Types, RunInv, Digested, Collecting, Filed, OpenOwn, Store, GoTo,
         Early, Late, Readable
<1> QED
  BY <1>1, <1>2, <1>3, OneRun

LEMMA WriteOwnKeeps ==
  ASSUME BInv, NEW r \in Runs, WriteOwn(r)
  PROVE  BInv'
<1> DEFINE old == digests[r]
           new == [k \in DOMAIN old \cup {OwnPlace} |->
                     IF k = OwnPlace THEN [path |-> OwnPlace, sha256 |-> OwnText]
                     ELSE old[k]]
<1>1. old \in Manifests /\ DOMAIN old = {}
  BY DEF BInv, Types, RunInv, Collecting, WriteOwn
<1>2. OwnText \in Bytes
  BY OwnAssumption DEF Bytes
<1>3. new \in Manifests
  BY <1>1, <1>2, ManifestAdd, PlacesAreOfNames DEF Keys
<1>4. digests' = [digests EXCEPT ![r] = new]
  BY DEF WriteOwn, Digest
<1>5. /\ digests'[r] = new
      /\ stored'[r] = [stored[r] EXCEPT ![OwnPlace] = OwnText]
      /\ pc'[r] = "scan"
      /\ UNCHANGED <<manifest, record>>
  BY <1>4 DEF BInv, Types, WriteOwn, Store, GoTo
<1>6. Types'
  BY <1>2, <1>3, <1>4, PlacesAreOfNames
     DEF BInv, Types, WriteOwn, Store, GoTo, Labels, Early
<1>7. Others(r)
  BY <1>4 DEF BInv, Types, WriteOwn, Store, GoTo, Others
<1>8. DOMAIN new = {OwnPlace} /\ new[OwnPlace] = [path |-> OwnPlace, sha256 |-> OwnText]
  BY <1>1
<1> HIDE DEF new, old
<1>9. Digested(r)'
  <2>1. stored'[r][OwnPlace] = OwnText
    BY <1>5, PlacesAreOfNames DEF BInv, Types
  <2> QED
    BY <1>5, <1>8, <2>1 DEF Digested
<1>10. RunInv(r)'
  BY <1>5, <1>8, <1>9 DEF BInv, RunInv, Collecting, Filed, Early, Late, Readable, WriteOwn
<1> QED
  BY <1>6, <1>7, <1>10, OneRun

LEMMA ScanKeeps ==
  ASSUME BInv, NEW r \in Runs, Scan(r)
  PROVE  BInv'
<1>1. Types'
  BY DEF BInv, Types, Scan, GoTo, runFiles, Labels, Early
<1>2. Others(r)
  BY DEF BInv, Types, Scan, GoTo, runFiles, Others
<1>3. \A n \in found'[r] : Destination(n) # OwnPlace
  BY PlacesAreOfNames DEF BInv, Types, Scan
<1>4. RunInv(r)'
  BY <1>3 DEF BInv, Types, RunInv, Digested, Collecting, Filed, Scan, GoTo,
              runFiles, Early, Late, Readable
<1> QED
  BY <1>1, <1>2, <1>4, OneRun

LEMMA OpenCopyKeeps ==
  ASSUME BInv, NEW r \in Runs, OpenCopy(r)
  PROVE  BInv'
<1>1. PICK n \in found[r] :
        /\ source[r][n] # Absent
        /\ copying' = [copying EXCEPT ![r] = <<n, source[r][n]>>]
        /\ Store(r, Destination(n), Torn)
  BY DEF OpenCopy
<1>2. n \in Names /\ source[r][n] \in Texts
  BY <1>1 DEF BInv, Types
<1>3. Destination(n) \in Places /\ Destination(n) \notin DOMAIN digests[r]
  BY <1>2, PlacesAreOfNames DEF BInv, RunInv, Collecting, OpenCopy
<1>4. Types'
  BY <1>1, <1>2, <1>3 DEF BInv, Types, OpenCopy, Store, GoTo, Labels, Early
<1>5. Others(r)
  BY <1>1 DEF BInv, Types, OpenCopy, Store, GoTo, Others
<1>6. /\ pc[r] = "copy" /\ pc'[r] = "copying"
      /\ copying'[r] = <<n, source[r][n]>>
      /\ \A place \in Places \ {Destination(n)} :
           stored'[r][place] = stored[r][place]
      /\ UNCHANGED <<manifest, record, found, digests>>
  BY <1>1, <1>3 DEF BInv, Types, OpenCopy, Store, GoTo
<1>7. DOMAIN digests[r] \subseteq Places
  BY ManifestShape DEF BInv, Types, Keys
<1>8. Digested(r)'
  BY <1>3, <1>6, <1>7 DEF BInv, RunInv, Digested
<1>9. RunInv(r)'
  BY <1>1, <1>2, <1>6, <1>8
     DEF BInv, RunInv, Collecting, Filed, Early, Late, Readable
<1> QED
  BY <1>4, <1>5, <1>9, OneRun

LEMMA FinishCopyKeeps ==
  ASSUME BInv, NEW r \in Runs, FinishCopy(r)
  PROVE  BInv'
<1> DEFINE n == copying[r][1]
<1>1. PICK bytes \in Copied(copying[r][2], source[r][n]) :
        /\ source[r][n] # Absent
        /\ Store(r, Destination(n), bytes)
  BY DEF FinishCopy
<1>2. copying[r] \in Names \X Texts /\ n \in found[r]
  BY DEF BInv, RunInv, Collecting, FinishCopy
<1>3. n \in Names /\ copying[r][2] \in Texts
  BY <1>2
<1>4. bytes \in Bytes
  BY <1>1, <1>3 DEF BInv, Types, Copied, Bytes
<1>5. Destination(n) \in Places /\ Destination(n) \notin DOMAIN digests[r]
  BY <1>2, <1>3, PlacesAreOfNames DEF BInv, RunInv, Collecting, FinishCopy
<1> HIDE DEF n
<1>6. Types'
  BY <1>1, <1>4, <1>5 DEF BInv, Types, FinishCopy, Store, GoTo, Labels, Early
<1>7. Others(r)
  BY <1>1 DEF BInv, Types, FinishCopy, Store, GoTo, Others
<1>8. /\ pc[r] = "copying" /\ pc'[r] = "digest"
      /\ stored'[r][Destination(n)] = bytes
      /\ \A place \in Places \ {Destination(n)} :
           stored'[r][place] = stored[r][place]
      /\ UNCHANGED <<manifest, record, found, copying, digests>>
  BY <1>1, <1>5 DEF BInv, Types, FinishCopy, Store, GoTo
<1>9. DOMAIN digests[r] \subseteq Places
  BY ManifestShape DEF BInv, Types, Keys
<1>10. Digested(r)'
  BY <1>5, <1>8, <1>9 DEF BInv, RunInv, Digested
<1>11. Collecting(r)'
  BY <1>2, <1>4, <1>8 DEF BInv, RunInv, Collecting, n
<1>12. Filed(r)'
  BY <1>8 DEF BInv, RunInv, Filed, Early, Late, Readable
<1> QED
  BY <1>6, <1>7, <1>10, <1>11, <1>12, OneRun DEF RunInv

LEMMA DigestCopyKeeps ==
  ASSUME BInv, NEW r \in Runs, DigestCopy(r)
  PROVE  BInv'
<1> DEFINE n == copying[r][1]
           key == Destination(n)
           bytes == stored[r][key]
           new == [k \in DOMAIN digests[r] \cup {key} |->
                     IF k = key THEN [path |-> key, sha256 |-> bytes]
                     ELSE digests[r][k]]
<1>1. copying[r] \in Names \X Texts /\ bytes \in Bytes
  BY DEF BInv, RunInv, Collecting, DigestCopy
<1>2. n \in Names /\ key \in Places
  BY <1>1, PlacesAreOfNames
<1>3. key = <<"runner", n>>
  BY DEF Destination
<1>4. digests' = [digests EXCEPT ![r] = new]
  BY <1>3 DEF DigestCopy, Digest
<1>5. digests[r] \in Manifests
  BY DEF BInv, Types
<1>6. new \in Manifests
  BY <1>1, <1>2, <1>5, ManifestAdd DEF Keys
<1>7. /\ DOMAIN new = DOMAIN digests[r] \cup {key}
      /\ \A k \in DOMAIN digests[r] : k # key => new[k] = digests[r][k]
      /\ new[key].path = key /\ new[key].sha256 = bytes
  OBVIOUS
<1>8. found'[r] = found[r] \ {n}
  BY DEF BInv, Types, DigestCopy
<1>9. \A m \in found'[r] : Destination(m) \notin DOMAIN digests[r] \cup {key}
  BY <1>8 DEF BInv, RunInv, Collecting, DigestCopy, Destination
<1> HIDE DEF n, key, bytes, new
<1>10. Types'
  BY <1>4, <1>6 DEF BInv, Types, DigestCopy, GoTo, runFiles, Labels, Early
<1>11. Others(r)
  BY <1>4 DEF BInv, Types, DigestCopy, GoTo, runFiles, Others
<1>12. /\ digests'[r] = new
       /\ pc[r] = "digest" /\ pc'[r] = "copy"
       /\ UNCHANGED <<stored, manifest, record>>
  BY <1>4 DEF BInv, Types, DigestCopy, GoTo, runFiles
<1>13. Digested(r)'
  BY <1>7, <1>12 DEF BInv, RunInv, Digested, bytes
<1>14. Collecting(r)'
  BY <1>7, <1>9, <1>12 DEF BInv, RunInv, Collecting
<1>15. Filed(r)'
  BY <1>12, NoManifest DEF BInv, RunInv, Filed, Early, Late, Readable
<1> QED
  BY <1>10, <1>11, <1>13, <1>14, <1>15, OneRun DEF RunInv

(* The steps that write neither a copy nor a digest. *)
LEMMA PlainKeeps ==
  ASSUME BInv, NEW r \in Runs,
         \/ CopyRaises(r) \/ Collected(r) \/ Dies(r) \/ Linger(r)
         \/ OpenManifest(r) \/ WriteManifest(r)
         \/ OpenRecord(r) \/ WriteRecord(r)
  PROVE  BInv'
<1> USE DEF BInv, Types, runFiles, memory, GoTo, Labels, Early, Late
<1>1. digests[r] \in Manifests /\ Readable(digests[r])
  BY ManifestIsRead
<1>2. Types'
  <2>1. CASE CopyRaises(r) \/ Collected(r) \/ Dies(r)
    BY <2>1 DEF CopyRaises, Collected, Dies, AfterCollection
  <2>2. CASE Linger(r)
    BY <2>2 DEF Linger
  <2>3. CASE OpenManifest(r) \/ WriteManifest(r)
    BY <2>3, <1>1 DEF OpenManifest, WriteManifest
  <2>4. CASE OpenRecord(r)
    BY <2>4 DEF OpenRecord
  <2>5. CASE WriteRecord(r)
    BY <2>5 DEF WriteRecord
  <2> QED
    BY <2>1, <2>2, <2>3, <2>4, <2>5
<1>3. Others(r)
  BY DEF Others, CopyRaises, Collected, Dies, Linger, OpenManifest, WriteManifest,
         OpenRecord, WriteRecord
<1>4. UNCHANGED <<stored, copying, digests>>
  BY DEF CopyRaises, Collected, Dies, Linger, OpenManifest, WriteManifest,
         OpenRecord, WriteRecord
<1>5. Digested(r)'
  BY <1>4 DEF RunInv, Digested
<1>6. Collecting(r)'
  BY <1>4 DEF RunInv, Collecting, CopyRaises, Collected, Dies, Linger, OpenManifest,
         WriteManifest, OpenRecord, WriteRecord, AfterCollection
<1>7. Filed(r)'
  BY <1>1, <1>4 DEF RunInv, Filed, Collecting, Readable, CopyRaises, Collected, Dies,
         Linger, OpenManifest, WriteManifest, OpenRecord, WriteRecord, AfterCollection
<1> QED
  BY <1>2, <1>3, <1>5, <1>6, <1>7, OneRun DEF RunInv

(* A listing reads. *)
LEMMA ReadingKeeps ==
  ASSUME BInv, UNCHANGED <<runFiles, memory>>
  PROVE  BInv'
<1>1. Types'
  BY DEF BInv, Types, runFiles, memory
<1>2. ASSUME NEW r \in Runs PROVE RunInv(r)'
  <2>1. RunInv(r)
    BY DEF BInv
  <2> QED
    BY <2>1 DEF RunInv, Digested, Collecting, Filed, runFiles, memory,
                Destination, OwnPlace, Readable
<1> QED
  BY <1>1, <1>2 DEF BInv

LEMMA BundleStep ==
  ASSUME BInv, [BundleNext]_bundleVars
  PROVE  BInv'
<1>1. ASSUME NEW r \in Runs, RunStep(r)
      PROVE  BInv'
  BY <1>1, OpenOwnKeeps, WriteOwnKeeps, ScanKeeps, OpenCopyKeeps, FinishCopyKeeps,
     DigestCopyKeeps, PlainKeeps DEF RunStep
<1>2. CASE Glob \/ ManifestsRead \/ RunsLoaded
  BY <1>2, ReadingKeeps DEF Glob, ManifestsRead, RunsLoaded, runFiles, memory
<1>3. ASSUME NEW r \in Runs, ReadManifest(r) \/ LoadRun(r)
      PROVE  BInv'
  BY <1>3, ReadingKeeps DEF ReadManifest, LoadRun, runFiles, memory
<1>4. CASE UNCHANGED bundleVars
  BY <1>4, ReadingKeeps DEF bundleVars
<1> QED
  BY <1>1, <1>2, <1>3, <1>4 DEF BundleNext

(* At every step of create_bundle, and wherever it dies: what a run command*)
(* holds in memory of its files is true of them.                           *)
THEOREM BundleInvariance == BundleSpec => []BInv
BY BundleStarts, BundleStep, PTL DEF BundleSpec

-----------------------------------------------------------------------------
(* Whatever happens to the workspace while its files are collected, and    *)
(* whatever they are called: what a manifest lists is there, with the      *)
(* digest that the manifest gives.                                         *)
THEOREM DigestsAlwaysCoverCopies == BundleSpec => []DigestsCoverCopies
<1>1. ASSUME BInv PROVE DigestsCoverCopies
  BY <1>1 DEF BInv, RunInv, Filed, Digested, DigestsCoverCopies
<1> QED
  BY <1>1, BundleInvariance, PTL

(* What the archive says of the runs that are filed. *)
RunHasEvidence ==
    \A r \in Runs : record[r] # Absent => Readable(manifest[r])

(* A run record has its whole bundle, wherever run commands die: a reviewer *)
(* who finds the run finds the evidence.                                    *)
THEOREM RunsAlwaysHaveEvidence == BundleSpec => []RunHasEvidence
<1>1. ASSUME BInv PROVE RunHasEvidence
  BY <1>1, ManifestIsRead DEF BInv, Types, RunInv, Filed, RunHasEvidence
<1> QED
  BY <1>1, BundleInvariance, PTL

-----------------------------------------------------------------------------
(* The listing.  What it has read stays what it read, since a manifest     *)
(* that is whole is never written again; and it has noticed every run that *)
(* was between manifest and record while it listed.                        *)

ListingInv ==
    /\ todo \subseteq Runs
    /\ \A r \in todo : manifest[r] # Absent
    /\ \A r \in DOMAIN listed :
         r \in Runs /\ Readable(manifest[r]) /\ listed[r] = manifest[r]
    /\ reader = "reading" => before \subseteq DOMAIN listed \cup todo
    /\ reader \in {"loading", "returned"} => before \subseteq DOMAIN listed
    /\ reader = "loading" => todo \subseteq DOMAIN listed
    /\ reader \in {"reading", "loading"} =>
         \A r \in Runs : Unsettled(r) => r \in unsettled
    /\ reader = "failed" => unsettled # {}

LEMMA WholeManifestsStay ==
  ASSUME BInv, NEW r \in Runs, RunStep(r)
  PROVE  \A s \in Runs :
           /\ Readable(manifest[s]) => manifest'[s] = manifest[s]
           /\ manifest[s] # Absent => manifest'[s] # Absent
<1>1. CASE OpenManifest(r)
  <2>1. manifest[r] = Absent /\ manifest' = [manifest EXCEPT ![r] = Torn]
    BY <1>1 DEF BInv, RunInv, Filed, OpenManifest, Early
  <2> QED
    BY <2>1 DEF BInv, Types, Readable
<1>2. CASE WriteManifest(r)
  <2>1. manifest[r] = Torn /\ manifest' = [manifest EXCEPT ![r] = digests[r]]
    BY <1>2 DEF BInv, RunInv, Filed, WriteManifest
  <2>2. Readable(digests[r])
    BY ManifestIsRead DEF BInv, Types
  <2> QED
    BY <2>1, <2>2 DEF BInv, Types, Readable
<1>3. CASE UNCHANGED manifest
  BY <1>3
<1> QED
  BY <1>1, <1>2, <1>3 DEF RunStep, OpenOwn, WriteOwn, Scan, OpenCopy, FinishCopy,
     CopyRaises, DigestCopy, Collected, OpenRecord, WriteRecord, Dies, Linger, runFiles

LEMMA TornHasNoRecord ==
  ASSUME BInv, NEW r \in Runs, manifest[r] # Absent, ~Readable(manifest[r])
  PROVE  Unsettled(r)
<1>1. record[r] = Absent
  BY ManifestIsRead DEF BInv, Types, RunInv, Filed
<1> QED
  BY <1>1 DEF Unsettled

LEMMA ListingStarts ==
  ASSUME BundleInit
  PROVE  ListingInv
BY DEF BundleInit, ListingInv, NoFunction

LEMMA ListingStep ==
  ASSUME BInv, BInv', ListingInv, [BundleNext]_bundleVars
  PROVE  ListingInv'
<1>1. ASSUME NEW r \in Runs, RunStep(r), Notice, UNCHANGED listing
      PROVE  ListingInv'
  <2>1. \A s \in Runs :
          /\ Readable(manifest[s]) => manifest'[s] = manifest[s]
          /\ manifest[s] # Absent => manifest'[s] # Absent
    BY <1>1, WholeManifestsStay
  <2>2. UNCHANGED <<reader, todo, listed, before>>
    BY <1>1 DEF listing
  <2>3. \A s \in todo : manifest'[s] # Absent
    BY <2>1 DEF ListingInv
  <2>4. \A s \in DOMAIN listed :
          s \in Runs /\ Readable(manifest'[s]) /\ listed[s] = manifest'[s]
    BY <2>1 DEF ListingInv
  <2>5. reader \in {"reading", "loading"} =>
          \A s \in Runs : Unsettled(s)' => s \in unsettled'
    BY <1>1 DEF Notice
  <2>6. unsettled \subseteq unsettled'
    BY <1>1 DEF Notice
  <2> QED
    BY <2>2, <2>3, <2>4, <2>5, <2>6 DEF ListingInv, Readable
<1>2. CASE Glob
  BY <1>2 DEF Glob, ListingInv, Manifested, Readable, Unsettled, runFiles
<1>3. ASSUME NEW r \in Runs, ReadManifest(r)
      PROVE  ListingInv'
  <2>1. CASE Readable(manifest[r])
    BY <1>3, <2>1 DEF ReadManifest, ListingInv, Readable, Unsettled, runFiles
  <2>2. CASE ~Readable(manifest[r])
    <3>1. r \in unsettled
      BY <1>3, <2>2, TornHasNoRecord DEF ReadManifest, ListingInv
    <3> QED
      BY <1>3, <2>2, <3>1 DEF ReadManifest, ListingInv, Readable, Unsettled, runFiles
  <2> QED
    BY <2>1, <2>2
<1>4. CASE ManifestsRead
  BY <1>4 DEF ManifestsRead, ListingInv, Readable, Unsettled, runFiles
<1>5. ASSUME NEW r \in Runs, LoadRun(r)
      PROVE  ListingInv'
  <2>1. CASE Readable(record[r])
    BY <1>5, <2>1 DEF LoadRun, ListingInv, Readable, Unsettled, runFiles
  <2>2. CASE ~Readable(record[r])
    <3>1. Unsettled(r)
      BY <1>5, <2>2 DEF LoadRun, ListingInv, Readable, Unsettled
    <3>2. r \in unsettled
      BY <1>5, <3>1 DEF LoadRun, ListingInv
    <3> QED
      BY <1>5, <2>2, <3>2 DEF LoadRun, ListingInv, Readable, Unsettled, runFiles
  <2> QED
    BY <2>1, <2>2
<1>6. CASE RunsLoaded
  BY <1>6 DEF RunsLoaded, ListingInv, Readable, Unsettled, runFiles
<1>7. CASE UNCHANGED bundleVars
  BY <1>7 DEF bundleVars, runFiles, memory, listing, ListingInv, Readable, Unsettled
<1> QED
  BY <1>1, <1>2, <1>3, <1>4, <1>5, <1>6, <1>7 DEF BundleNext

(* A listing that ends has every bundle that was whole when it began, as   *)
(* it still is; one that fails has met a run between its manifest and its  *)
(* record.                                                                 *)
THEOREM ListingsAreSound == BundleSpec => []ListingSound
<1>1. BInv /\ BInv' /\ ListingInv /\ [BundleNext]_bundleVars => ListingInv'
  BY ListingStep
<1>2. ListingInv => ListingSound
  BY DEF ListingInv, ListingSound
<1> QED
  BY <1>1, <1>2, BundleInvariance, ListingStarts, PTL DEF BundleSpec

-----------------------------------------------------------------------------
(* The types.  A record, once opened, is that of its run. *)

Bounds ==
    /\ \A r \in Runs : record[r] \in {r, Absent, Torn}
    /\ reader \in {"idle", "reading", "loading", "returned", "failed"}
    /\ before \subseteq Runs
    /\ unsettled \subseteq Runs

LEMMA BoundsStep ==
  ASSUME BInv, Bounds, [BundleNext]_bundleVars
  PROVE  Bounds'
<1>1. ASSUME NEW r \in Runs, RunStep(r), Notice, UNCHANGED listing
      PROVE  Bounds'
  <2>1. \A s \in Runs : record'[s] \in {s, record[s], Torn}
    BY <1>1 DEF RunStep, BInv, Types, OpenOwn, WriteOwn, Scan, OpenCopy, FinishCopy,
       CopyRaises, DigestCopy, Collected, OpenManifest, WriteManifest, OpenRecord,
       WriteRecord, Dies, Linger, runFiles
  <2>2. unsettled' \subseteq Runs
    BY <1>1 DEF Bounds, Notice
  <2> QED
    BY <1>1, <2>1, <2>2 DEF Bounds, listing
<1>2. CASE Glob
  BY <1>2 DEF Glob, Bounds, Manifested, runFiles
<1>3. ASSUME NEW r \in Runs, ReadManifest(r) \/ LoadRun(r)
      PROVE  Bounds'
  BY <1>3 DEF ReadManifest, LoadRun, Bounds, runFiles
<1>4. CASE ManifestsRead \/ RunsLoaded
  BY <1>4 DEF ManifestsRead, RunsLoaded, Bounds, runFiles
<1>5. CASE UNCHANGED bundleVars
  BY <1>5 DEF bundleVars, runFiles, listing, Bounds
<1> QED
  BY <1>1, <1>2, <1>3, <1>4, <1>5 DEF BundleNext

(* At every step of a listing: what was whole when it began is listed or   *)
(* still to be read, and what is listed is what the file holds.            *)
THEOREM ListingInvariance == BundleSpec => [](ListingInv /\ Bounds)
<1>1. BundleInit => ListingInv /\ Bounds
  BY ListingStarts DEF BundleInit, Bounds
<1>2. /\ BInv /\ BInv' /\ ListingInv /\ Bounds /\ [BundleNext]_bundleVars
      => ListingInv' /\ Bounds'
  BY ListingStep, BoundsStep
<1> QED
  BY <1>1, <1>2, BundleInvariance, PTL DEF BundleSpec

(* The files, the memory of every run command and the listing keep their   *)
(* types; a digest is never taken of a file that is not there.             *)
THEOREM BundleTypesCorrect == BundleSpec => []BundleTypeOK
<1>1. ASSUME BInv, ListingInv, Bounds
      PROVE  BundleTypeOK
  <2>1. pc \in [Runs -> {"open_own", "write_own", "scan", "copy", "copying",
                        "digest", "open_manifest", "write_manifest",
                        "open_record", "write_record", "done", "dead"}]
    BY <1>1 DEF BInv, Types, Labels, Early, Late
  <2> QED
    BY <1>1, <2>1 DEF BInv, Types, ListingInv, Bounds, BundleTypeOK
<1> QED
  BY <1>1, BundleInvariance, ListingInvariance, PTL

-----------------------------------------------------------------------------
(* The abstract archive.  Only two steps of a run command are seen there:  *)
(* the one that completes the manifest keeps the bundle, and the one that  *)
(* opens the record files the run.  No other changes the bytes of a bundle *)
(* that is kept, since what is written to belongs to a run without one.    *)

BundleBytes(r) ==
    [key \in DOMAIN manifest[r] |-> stored[r][manifest[r][key].path]]

LEMMA OnlyEarlyStores ==
  ASSUME BInv, NEW r \in Runs, RunStep(r)
  PROVE  \A s \in Manifested : stored'[s] = stored[s] /\ manifest'[s] = manifest[s]
<1>1. ASSUME NEW s \in Manifested PROVE manifest'[s] = manifest[s]
  BY <1>1, WholeManifestsStay DEF Manifested
<1>2. CASE UNCHANGED stored
  BY <1>1, <1>2
<1>3. CASE OpenOwn(r) \/ WriteOwn(r) \/ OpenCopy(r) \/ FinishCopy(r)
  <2>1. r \notin Manifested
    BY <1>3 DEF BInv, RunInv, Filed, Early, Readable, Manifested, OpenOwn, WriteOwn,
       OpenCopy, FinishCopy
  <2>2. \A s \in Runs \ {r} : stored'[s] = stored[s]
    BY <1>3 DEF BInv, Types, OpenOwn, WriteOwn, OpenCopy, FinishCopy, Store
  <2> QED
    BY <1>1, <2>1, <2>2 DEF Manifested
<1> QED
  BY <1>2, <1>3 DEF RunStep, Scan, CopyRaises, DigestCopy, Collected, OpenManifest,
     WriteManifest, OpenRecord, WriteRecord, Dies, Linger, runFiles

LEMMA KeptBundlesStay ==
  ASSUME BInv, NEW r \in Runs, RunStep(r)
  PROVE  /\ Manifested \subseteq Manifested'
         /\ \A s \in Manifested : KeptBundles'[s] = KeptBundles[s]
<1>1. \A s \in Manifested : stored'[s] = stored[s] /\ manifest'[s] = manifest[s]
  BY OnlyEarlyStores
<1>2. Manifested \subseteq Manifested'
  BY <1>1 DEF Manifested, Readable
<1> QED
  BY <1>1, <1>2 DEF KeptBundles

(* A step that adds neither a bundle nor a record is not seen. *)
LEMMA UnseenStep ==
  ASSUME BInv, NEW r \in Runs, RunStep(r), UNCHANGED listing,
         Manifested' = Manifested, FiledRuns' = FiledRuns
  PROVE  UNCHANGED A!archive
<1>1. KeptBundles' = KeptBundles
  <2>1. \A s \in Manifested : KeptBundles'[s] = KeptBundles[s]
    BY KeptBundlesStay
  <2> QED BY <2>1 DEF KeptBundles
<1> QED
  BY <1>1 DEF A!archive, listing, ListingPhase, ListedDigests

LEMMA ManifestKeeps ==
  ASSUME BInv, NEW r \in Runs, WriteManifest(r), UNCHANGED listing
  PROVE  A!Keep(r)
<1>1. /\ manifest[r] = Torn /\ manifest' = [manifest EXCEPT ![r] = digests[r]]
      /\ UNCHANGED <<stored, record>>
  BY DEF BInv, RunInv, Filed, WriteManifest
<1>2. Readable(digests[r])
  BY ManifestIsRead DEF BInv, Types
<1>3. r \notin Manifested /\ Manifested' = Manifested \cup {r}
  BY <1>1, <1>2 DEF BInv, Types, Manifested, Readable
<1>4. \A s \in Manifested : KeptBundles'[s] = KeptBundles[s]
  BY KeptBundlesStay DEF RunStep
<1>5. DOMAIN KeptBundles = Manifested /\ DOMAIN KeptBundles' = Manifested'
  BY DEF KeptBundles
<1>6. UNCHANGED <<FiledRuns, ListingPhase, before, ListedDigests>>
  BY <1>1 DEF FiledRuns, ListingPhase, ListedDigests, listing
<1> QED
  BY <1>3, <1>4, <1>5, <1>6 DEF A!Keep

LEMMA TornIsThere == Torn # Absent
<1> SUFFICES ASSUME Torn = Absent PROVE FALSE
  OBVIOUS
<1>1. IsFiniteSet({Absent}) /\ Cardinality({Absent}) = 1
  BY FS_Singleton
<1>2. /\ IsFiniteSet({Absent} \cup {Mixed})
      /\ Cardinality({Absent} \cup {Mixed}) \in {1, 2}
  BY <1>1, FS_AddElement
<1>3. Cardinality(({Absent} \cup {Mixed}) \cup {Blend}) \in {1, 2, 3}
  BY <1>2, FS_AddElement
<1>4. {Absent, Torn, Mixed, Blend} = ({Absent} \cup {Mixed}) \cup {Blend}
  OBVIOUS
<1> QED
  BY <1>3, <1>4, ContentsDiffer

LEMMA RecordFiles ==
  ASSUME BInv, NEW r \in Runs, OpenRecord(r), UNCHANGED listing
  PROVE  A!File(r)
<1>1. record' = [record EXCEPT ![r] = Torn] /\ UNCHANGED <<stored, manifest>>
  BY DEF OpenRecord
<1>2. r \in Manifested
  BY ManifestIsRead DEF BInv, Types, RunInv, Filed, OpenRecord, Late, Manifested
<1>3. FiledRuns' = FiledRuns \cup {r}
  BY <1>1, TornIsThere DEF BInv, Types, FiledRuns
<1>4. UNCHANGED <<KeptBundles, ListingPhase, before, ListedDigests>>
  BY <1>1 DEF KeptBundles, Manifested, Readable, ListingPhase, ListedDigests, listing
<1> QED
  BY <1>2, <1>3, <1>4 DEF A!File, KeptBundles

(* Every step of a run command, as the archive sees it. *)
LEMMA RunStepSeen ==
  ASSUME BInv, NEW r \in Runs, RunStep(r), UNCHANGED listing
  PROVE  [A!Next]_A!archive
<1>1. CASE WriteManifest(r)
  BY <1>1, ManifestKeeps DEF A!Next
<1>2. CASE OpenRecord(r)
  BY <1>2, RecordFiles DEF A!Next
<1>3. CASE WriteRecord(r)
  <2>1. /\ record' = [record EXCEPT ![r] = r] /\ UNCHANGED <<stored, manifest>>
        /\ r \in FiledRuns \/ record[r] = Absent
    BY <1>3 DEF WriteRecord, FiledRuns
  <2>2. r \in Manifested
    BY <1>3, ManifestIsRead
       DEF BInv, Types, RunInv, Filed, WriteRecord, Late, Manifested
  <2>3. FiledRuns' = FiledRuns \cup {r}
    BY <2>1, NoRun DEF BInv, Types, FiledRuns
  <2>4. UNCHANGED <<KeptBundles, ListingPhase, before, ListedDigests>>
    BY <2>1 DEF KeptBundles, Manifested, Readable, ListingPhase, ListedDigests,
                listing
  <2> QED BY <2>2, <2>3, <2>4 DEF A!File, A!Next, KeptBundles
<1>4. CASE OpenManifest(r)
  <2>1. manifest[r] = Absent /\ manifest' = [manifest EXCEPT ![r] = Torn]
    BY <1>4 DEF BInv, RunInv, Filed, OpenManifest, Early
  <2>2. Manifested' = Manifested /\ FiledRuns' = FiledRuns
    BY <1>4, <2>1 DEF BInv, Types, Manifested, FiledRuns, Readable, OpenManifest
  <2> QED BY <2>2, UnseenStep
<1>5. CASE UNCHANGED <<manifest, record>>
  BY <1>5, UnseenStep DEF Manifested, FiledRuns, Readable
<1> QED
  BY <1>1, <1>2, <1>3, <1>4, <1>5 DEF RunStep, OpenOwn, WriteOwn, Scan, OpenCopy,
     FinishCopy, CopyRaises, DigestCopy, Collected, Dies, Linger, runFiles

(* The end of a listing: it has read what was kept when it began, and the  *)
(* digests it read are those of what is kept now.                          *)
LEMMA ReturnTells ==
  ASSUME BInv, ListingInv, reader \in {"reading", "loading"}, reader' = "returned",
         todo = {}, UNCHANGED <<runFiles, memory, listed, before>>
  PROVE  A!Tell
<1>1. ListingPhase = "asked" /\ ListingPhase' = "answered"
  BY DEF ListingPhase
<1>2. UNCHANGED <<KeptBundles, FiledRuns, before>>
  BY DEF KeptBundles, FiledRuns, Manifested, Readable, runFiles
<1>3. DOMAIN listed \subseteq Manifested /\ before \subseteq DOMAIN listed
  BY DEF ListingInv, Manifested
<1>4. \A r \in DOMAIN listed :
        [key \in DOMAIN listed[r] |-> listed[r][key].sha256] = KeptBundles[r]
  <2>1. SUFFICES ASSUME NEW r \in DOMAIN listed
                 PROVE  [key \in DOMAIN listed[r] |-> listed[r][key].sha256]
                        = [key \in DOMAIN manifest[r] |->
                              stored[r][manifest[r][key].path]]
    BY <1>3 DEF KeptBundles
  <2>2. /\ r \in Runs /\ listed[r] = manifest[r] /\ Readable(manifest[r])
        /\ manifest[r] = digests[r]
    BY <2>1 DEF ListingInv, BInv, RunInv, Filed
  <2>3. \A key \in DOMAIN manifest[r] :
          stored[r][manifest[r][key].path] = manifest[r][key].sha256
    BY <2>2 DEF BInv, RunInv, Digested
  <2> QED BY <2>2, <2>3
<1>5. ListedDigests' = [r \in DOMAIN listed |-> KeptBundles[r]]
  BY <1>4 DEF ListedDigests
<1> QED
  BY <1>1, <1>2, <1>3, <1>5 DEF A!Tell, KeptBundles

LEMMA ListingSeen ==
  ASSUME BInv, ListingInv,
         \/ Glob \/ ManifestsRead \/ RunsLoaded
         \/ \E r \in Runs : ReadManifest(r) \/ LoadRun(r)
  PROVE  [A!Next]_A!archive
<1>1. UNCHANGED <<KeptBundles, FiledRuns>>
  BY DEF Glob, ManifestsRead, RunsLoaded, ReadManifest, LoadRun, KeptBundles,
         FiledRuns, Manifested, Readable, runFiles
<1>2. CASE Glob
  <2>1. ListingPhase = "idle" /\ ListingPhase' = "asked" /\ before' = Manifested
        /\ ListedDigests' = ListedDigests
    BY <1>2 DEF Glob, ListingPhase, ListedDigests
  <2> QED BY <1>1, <2>1 DEF A!Ask, A!Next, KeptBundles
<1>3. CASE (ManifestsRead \/ RunsLoaded) /\ reader' = "returned"
  <2>1. A!Tell
    BY <1>3, ReturnTells DEF ManifestsRead, RunsLoaded
  <2> QED BY <2>1 DEF A!Next
<1>4. CASE /\ reader \in {"reading", "loading"} /\ reader' = "failed"
           /\ before' = before
  <2>1. ListingPhase = "asked" /\ ListingPhase' = "failed"
        /\ ListedDigests' = ListedDigests
    BY <1>4 DEF ListingPhase, ListedDigests
  <2> QED BY <1>1, <1>4, <2>1 DEF A!Fail, A!Next
<1>5. CASE /\ reader \in {"reading", "loading"} /\ reader' \in {"reading", "loading"}
           /\ before' = before
  <2>1. ListingPhase' = ListingPhase /\ ListedDigests' = ListedDigests
    BY <1>5 DEF ListingPhase, ListedDigests
  <2> QED BY <1>1, <1>5, <2>1 DEF A!archive
<1> QED
  BY <1>2, <1>3, <1>4, <1>5 DEF ManifestsRead, RunsLoaded, ReadManifest, LoadRun

(* Runs that overlap, and die anywhere, implement the abstract archive:    *)
(* bundles appear whole and never change, a run is filed only with its     *)
(* bundle, and a list tells the digests of what is kept.                   *)
THEOREM ImplementsArchive == BundleSpec => ArchiveSpec
<1>1. BundleInit => A!Init
  BY DEF BundleInit, A!Init, KeptBundles, Manifested, Readable, FiledRuns,
         ListingPhase, ListedDigests, NoFunction
<1>2. BInv /\ ListingInv /\ [BundleNext]_bundleVars => [A!Next]_A!archive
  <2> SUFFICES ASSUME BInv, ListingInv, [BundleNext]_bundleVars
               PROVE  [A!Next]_A!archive
    OBVIOUS
  <2>1. CASE UNCHANGED bundleVars
    BY <2>1 DEF bundleVars, runFiles, listing, A!archive, KeptBundles, Manifested,
                Readable, FiledRuns, ListingPhase, ListedDigests
  <2>2. CASE \E r \in Runs : RunStep(r) /\ Notice /\ UNCHANGED listing
    BY <2>2, RunStepSeen
  <2> QED BY <2>1, <2>2, ListingSeen DEF BundleNext
<1> QED
  BY <1>1, <1>2, BundleInvariance, ListingInvariance, PTL
     DEF BundleSpec, ArchiveSpec, A!Spec
=============================================================================
