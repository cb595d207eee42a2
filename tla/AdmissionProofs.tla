---------------------------- MODULE AdmissionProofs ----------------------------
(***************************************************************************)
(* What is admitted into the runtime from outside, for repositories,       *)
(* memories, workflows and hosts of any size that change at will. Each     *)
(* part has an invariant of its own:                                       *)
(*                                                                         *)
(* - SourceInv follows a capture: what it read of the repository was so at *)
(*   an instant that was seen, and a snapshot has the documents of the     *)
(*   tree of its commit.                                                   *)
(* - MemoryInv: an entry has a sensitivity its scope allows, and an        *)
(*   accepted one has a human reviewer.                                    *)
(* - ProviderInv follows a preflight: every command was run by the file    *)
(*   that was inspected, and what docker answered was so during it.        *)
(* - WorkflowRegistryProofs has that of the search for cycles.             *)
(*                                                                         *)
(* Together they give what the composition promises.                       *)
(***************************************************************************)
EXTENDS Admission, WorkflowRegistryProofs, FiniteSetTheorems

-----------------------------------------------------------------------------
(* Documents: what people do, and what a capture reads *)

BindsItsCommit(s) ==
  /\ s.commit \in Commit
  /\ s.documents = [p \in Allowed |-> TreeOf[s.commit][p]]

RepoType ==
  [head : Branch, branches : [Branch -> Commit], work : Tree, untracked : BOOLEAN]

CaptureOf(pc, commit) ==
  [pc |-> pc, commit |-> commit, status |-> capture.status,
   branch |-> capture.branch, same |-> capture.same]

\* What the repository may look like at an instant.
Instants == {View(r) : r \in RepoType}

CaptureInv ==
  /\ capture = CaptureOf(capture.pc, capture.commit)
  /\ capture.pc \in {"idle", "status", "names", "status again", "commit again"}
  /\ capture.pc # "idle" =>
       /\ capture.commit \in Commit
       /\ View(repo) \in seen
       /\ \E v \in seen : v.commit = capture.commit
  /\ capture.pc \in {"names", "status again", "commit again"} =>
       \E v \in seen : v.status = capture.status
  /\ capture.pc \in {"status again", "commit again"} =>
       \E v \in seen : v.branch = capture.branch

SourceInv ==
  /\ repo \in RepoType /\ changes \in 0..MaxChanges /\ seen \subseteq Instants
  /\ CaptureInv
  /\ snapshot # Nothing => BindsItsCommit(snapshot) /\ IsSnapshot(snapshot)
  /\ evidence \in Evidence \cup {Nothing}
  /\ EvidenceIsCommitted

\* The status of a worktree names tracked paths.
LEMMA StatusNamesPaths ==
  ASSUME NEW tree, NEW work
  PROVE  StatusRecords(tree, work) \subseteq SUBSET Path
<1>1. Deleted(tree, work) \subseteq Path /\ Added(tree, work) \subseteq Path
      /\ Modified(tree, work) \subseteq Path
  BY DEF Deleted, Added, Modified
<1>2. Renamed(tree, work) \subseteq Path \X Path
  BY <1>1 DEF Renamed
<1>3. {{r[1], r[2]} : r \in Renamed(tree, work)} \subseteq SUBSET Path
  BY <1>2
<1> QED
  BY <1>1, <1>3 DEF StatusRecords

LEMMA InstantsAreViews == Instants \subseteq Views
<1> SUFFICES ASSUME NEW r \in RepoType PROVE View(r) \in Views
  BY DEF Instants
<1>1. HeadCommit(r) \in Commit /\ r.head \in Branch /\ r.untracked \in BOOLEAN
  BY DEF RepoType, HeadCommit
<1>2. StatusRecords(TreeOf[HeadCommit(r)], r.work) \subseteq SUBSET Path
  BY StatusNamesPaths
<1> QED
  BY <1>1, <1>2 DEF View, Views, Status

LEMMA PeopleStep ==
  ASSUME SourceInv, People
  PROVE  SourceInv'
<1>1. ASSUME NEW r \in RepoType, Becomes(r) PROVE SourceInv'
  <2>1. /\ repo' = r /\ changes < MaxChanges /\ changes' = changes + 1
        /\ UNCHANGED <<capture, snapshot, evidence>>
        /\ capture.pc = "idle" => seen' = seen
        /\ capture.pc # "idle" => seen' = seen \cup {View(r)}
    BY <1>1 DEF Becomes
  <2>2. changes' \in 0..MaxChanges
    BY <2>1, SourceAssumption DEF SourceAssumption, SourceInv
  <2>3. seen' \subseteq Instants /\ seen \subseteq seen'
    BY <2>1 DEF SourceInv, Instants
  <2>4. View(repo)' = View(r)
    BY <2>1 DEF View, Status, HeadCommit
  <2>5. CaptureInv'
    BY <2>1, <2>3, <2>4 DEF SourceInv, CaptureInv, CaptureOf
  <2> QED
    BY <2>1, <2>2, <2>3, <2>5
     DEF SourceInv, BindsItsCommit, IsSnapshot, EvidenceIsCommitted
<1>2. ASSUME NEW p \in Path, NEW entry \in Written, EditFile(p, entry)
      PROVE  SourceInv'
  <2>1. [repo EXCEPT !.work[p] = entry] \in RepoType
    BY SourceAssumption DEF SourceAssumption, SourceInv, RepoType, Tree
  <2> QED
    BY <1>1, <1>2, <2>1 DEF EditFile
<1>3. ASSUME NEW from \in Path, NEW to \in Path, MoveFile(from, to)
      PROVE  SourceInv'
  <2>1. [repo EXCEPT !.work[to] = repo.work[from], !.work[from] = Nothing] \in RepoType
    BY DEF SourceInv, RepoType, Tree
  <2> QED
    BY <1>1, <1>3, <2>1 DEF MoveFile
<1>4. CASE UntrackedFile
  <2>1. [repo EXCEPT !.untracked = ~@] \in RepoType
    BY DEF SourceInv, RepoType
  <2> QED
    BY <1>1, <1>4, <2>1 DEF UntrackedFile
<1>5. ASSUME NEW c \in Commit, CommitOrReset(c)
      PROVE  SourceInv'
  <2>1. [repo EXCEPT !.branches[repo.head] = c] \in RepoType
    BY DEF SourceInv, RepoType
  <2> QED
    BY <1>1, <1>5, <2>1 DEF CommitOrReset
<1>6. ASSUME NEW b \in Branch, Switch(b)
      PROVE  SourceInv'
  <2>1. [repo EXCEPT !.head = b] \in RepoType
    BY DEF SourceInv, RepoType
  <2>2. [repo EXCEPT !.head = b, !.work = TreeOf[repo.branches[b]]] \in RepoType
    BY SourceAssumption DEF SourceAssumption, SourceInv, RepoType
  <2> QED
    BY <1>1, <1>6, <2>1, <2>2 DEF Switch
<1> QED
  BY <1>2, <1>3, <1>4, <1>5, <1>6 DEF People

\* A reading of the repository that is not the last one.
LEMMA ReadingStep ==
  ASSUME SourceInv,
         \/ ReadCommitBefore \/ ReadStatusBefore \/ ReadBranchAndManifest
         \/ ReadStatusAfter \/ CaptureFails
  PROVE  SourceInv'
<1>1. capture = CaptureOf(capture.pc, capture.commit)
  BY DEF SourceInv, CaptureInv
<1>2. View(repo).commit = HeadCommit(repo) /\ View(repo).status = Status(repo)
      /\ View(repo).branch = repo.head /\ View(repo) \in Instants
  BY DEF View, Instants, SourceInv
<1>3. ASSUME UNCHANGED <<repo, changes, snapshot, evidence>>, seen' \subseteq Instants,
             CaptureInv'
      PROVE  SourceInv'
  BY <1>3 DEF SourceInv, BindsItsCommit, IsSnapshot, EvidenceIsCommitted
<1>4. UNCHANGED repo => View(repo)' = View(repo)
  BY DEF View, Status, HeadCommit
<1>c. CASE ReadCommitBefore
  <2>1. /\ capture'.pc = "status" /\ capture'.commit = HeadCommit(repo)
        /\ capture' = CaptureOf(capture.pc, capture.commit)'
    BY <1>c DEF ReadCommitBefore, NoCapture, CaptureOf
  <2>2. HeadCommit(repo) \in Commit
    BY DEF SourceInv, RepoType, HeadCommit
  <2>3. seen' = {View(repo)} /\ UNCHANGED <<repo, changes, snapshot, evidence>>
    BY <1>c DEF ReadCommitBefore
  <2>4. CaptureInv'
    BY <1>2, <1>4, <2>1, <2>2, <2>3 DEF CaptureInv
  <2> QED
    BY <1>2, <1>3, <2>3, <2>4
<1>s. CASE ReadStatusBefore
  <2>1. /\ capture.pc = "status" /\ capture'.pc = "names"
        /\ capture'.commit = capture.commit /\ capture'.status = Status(repo)
        /\ capture' = CaptureOf(capture.pc, capture.commit)'
    BY <1>1, <1>s DEF ReadStatusBefore, Reads, CaptureOf
  <2>2. UNCHANGED <<repo, changes, snapshot, evidence, seen>>
    BY <1>s DEF ReadStatusBefore, Reads
  <2>3. CaptureInv'
    BY <1>2, <1>4, <2>1, <2>2 DEF SourceInv, CaptureInv
  <2> QED
    BY <1>3, <2>2, <2>3 DEF SourceInv
<1>b. CASE ReadBranchAndManifest
  <2>1. /\ capture.pc = "names" /\ capture'.pc = "status again"
        /\ capture'.commit = capture.commit /\ capture'.status = capture.status
        /\ capture'.branch = repo.head
        /\ capture' = CaptureOf(capture.pc, capture.commit)'
    BY <1>1, <1>b DEF ReadBranchAndManifest, Reads, CaptureOf
  <2>2. UNCHANGED <<repo, changes, snapshot, evidence, seen>>
    BY <1>b DEF ReadBranchAndManifest, Reads
  <2>3. CaptureInv'
    BY <1>2, <1>4, <2>1, <2>2 DEF SourceInv, CaptureInv
  <2> QED
    BY <1>3, <2>2, <2>3 DEF SourceInv
<1>a. CASE ReadStatusAfter
  <2>1. /\ capture.pc = "status again" /\ capture'.pc = "commit again"
        /\ capture'.commit = capture.commit /\ capture'.status = capture.status
        /\ capture'.branch = capture.branch
        /\ capture' = CaptureOf(capture.pc, capture.commit)'
    BY <1>1, <1>a DEF ReadStatusAfter, Reads, CaptureOf
  <2>2. UNCHANGED <<repo, changes, snapshot, evidence, seen>>
    BY <1>a DEF ReadStatusAfter, Reads
  <2>3. CaptureInv'
    BY <1>4, <2>1, <2>2 DEF SourceInv, CaptureInv
  <2> QED
    BY <1>3, <2>2, <2>3 DEF SourceInv
<1>f. CASE CaptureFails
  <2>1. capture'.pc = "idle" /\ capture' = CaptureOf(capture.pc, capture.commit)'
    BY <1>f DEF CaptureFails, Reads, NoCapture, CaptureOf
  <2>2. UNCHANGED <<repo, changes, snapshot, evidence, seen>>
    BY <1>f DEF CaptureFails, Reads
  <2>3. CaptureInv'
    BY <2>1 DEF CaptureInv
  <2> QED
    BY <1>3, <2>2, <2>3 DEF SourceInv
<1> QED
  BY <1>c, <1>s, <1>b, <1>a, <1>f

\* A snapshot that is returned binds the documents of its commit, and what it
\* says was so when it was read.
LEMMA SnapshotBinds ==
  ASSUME SourceInv, ReadCommitAfter, Unchanged, AllowedPresent(capture.commit)
  PROVE  /\ snapshot' = SnapshotOf(capture)
         /\ BindsItsCommit(snapshot') /\ IsSnapshot(snapshot')
<1>1. snapshot' = SnapshotOf(capture)
  BY DEF ReadCommitAfter
<1>2. capture.pc = "commit again" /\ capture.commit \in Commit
  BY DEF ReadCommitAfter, SourceInv, CaptureInv
<1>3. BindsItsCommit(SnapshotOf(capture))
  BY <1>2 DEF BindsItsCommit, SnapshotOf
<1>4. IsSnapshot(SnapshotOf(capture))
  <2>1. PICK v \in seen : v.status = capture.status
    BY <1>2 DEF SourceInv, CaptureInv
  <2>2. PICK w \in seen : w.branch = capture.branch
    BY <1>2 DEF SourceInv, CaptureInv
  <2>3. v \in Views /\ w \in Views
    BY InstantsAreViews DEF SourceInv
  <2>4. [commit |-> capture.commit, branch |-> capture.branch,
         status |-> capture.status] \in Views
    BY <1>2, <2>1, <2>2, <2>3 DEF Views
  <2>5. [p \in Allowed |-> TreeOf[capture.commit][p]] \in [Allowed -> Entry]
    <3>1. TreeOf[capture.commit] \in Tree /\ Allowed \subseteq Path
      BY <1>2, SourceAssumption DEF SourceAssumption
    <3>2. \A p \in Allowed : TreeOf[capture.commit][p] \in Entry
      BY <3>1 DEF AllowedPresent, Tree
    <3> QED
      BY <3>2
  <2>6. /\ SnapshotOf(capture).commit = capture.commit
        /\ SnapshotOf(capture).branch = capture.branch
        /\ SnapshotOf(capture).status = capture.status
        /\ SnapshotOf(capture).documents = [p \in Allowed |-> TreeOf[capture.commit][p]]
    BY DEF SnapshotOf
  <2> QED
    BY <2>4, <2>5, <2>6 DEF IsSnapshot
<1> QED
  BY <1>1, <1>3, <1>4

LEMMA SnapshotStep ==
  ASSUME SourceInv, ReadCommitAfter
  PROVE  SourceInv'
<1>1. snapshot' # Nothing => BindsItsCommit(snapshot') /\ IsSnapshot(snapshot')
  <2>1. CASE Unchanged /\ AllowedPresent(capture.commit)
    BY <2>1, SnapshotBinds
  <2>2. CASE ~(Unchanged /\ AllowedPresent(capture.commit))
    BY <2>2 DEF ReadCommitAfter, SourceInv
  <2> QED
    BY <2>1, <2>2
<1>2. UNCHANGED <<repo, changes, evidence, seen>> /\ capture' = NoCapture
  BY DEF ReadCommitAfter
<1>3. CaptureInv'
  BY <1>2 DEF CaptureInv, NoCapture, CaptureOf
<1> QED
  BY <1>1, <1>2, <1>3 DEF SourceInv, BindsItsCommit, IsSnapshot, EvidenceIsCommitted

LEMMA DocumentStep ==
  ASSUME SourceInv, NEW p \in Allowed, NEW requireTrackedClean \in BOOLEAN,
         ReadDocument(p, requireTrackedClean)
  PROVE  SourceInv'
<1>1. /\ snapshot.commit \in Commit
      /\ snapshot.documents = [d \in Allowed |-> TreeOf[snapshot.commit][d]]
  BY DEF ReadDocument, SourceInv, BindsItsCommit
<1>2. snapshot.documents[p] # Nothing
  BY <1>1 DEF ReadDocument, VerifyReferenceSnapshot
<1>3. snapshot.documents[p] \in Entry
  BY <1>1, <1>2, SourceAssumption DEF SourceAssumption, Tree
<1>4. /\ evidence' = [commit |-> snapshot.commit, path |-> p,
                      content |-> snapshot.documents[p].content]
      /\ snapshot.documents[p].kind = "regular"
      /\ Size[snapshot.documents[p].content] <= MaxDocumentBytes
      /\ snapshot.documents[p].content \in Text
  BY DEF ReadDocument, RegularDocument, BlobOf
<1>5. snapshot.documents[p] = [kind |-> "regular", content |-> snapshot.documents[p].content]
  BY <1>3, <1>4 DEF Entry
<1>6. EvidenceIsCommitted'
  BY <1>1, <1>4, <1>5 DEF EvidenceIsCommitted
<1>7. evidence' \in Evidence
  BY <1>1, <1>3, <1>4 DEF Evidence, Entry
<1>8. UNCHANGED <<repo, changes, capture, snapshot, seen>>
  BY DEF ReadDocument
<1>9. CaptureInv'
  BY <1>8 DEF SourceInv, CaptureInv, CaptureOf, View, Status, HeadCommit
<1> QED
  BY <1>6, <1>7, <1>8, <1>9 DEF SourceInv, BindsItsCommit, IsSnapshot

LEMMA SourceInvariance == SourceSpec => []SourceInv
<1>1. SourceInit => SourceInv
  <2> SUFFICES ASSUME SourceInit PROVE SourceInv
    OBVIOUS
  <2>1. repo \in RepoType
    BY SourceAssumption DEF SourceAssumption, SourceInit, RepoType
  <2>2. CaptureInv
    BY DEF SourceInit, NoCapture, CaptureInv, CaptureOf
  <2> QED
    BY <2>1, <2>2, SourceAssumption
     DEF SourceAssumption, SourceInit, SourceInv, EvidenceIsCommitted
<1>2. SourceInv /\ [SourceNext]_sourceVars => SourceInv'
  <2>1. SourceInv /\ UNCHANGED sourceVars => SourceInv'
    BY DEF sourceVars, SourceInv, CaptureInv, CaptureOf, BindsItsCommit, IsSnapshot,
           EvidenceIsCommitted, View, Status, HeadCommit
  <2> QED
    BY <2>1, PeopleStep, ReadingStep, SnapshotStep, DocumentStep
     DEF SourceNext, Capture
<1> QED
  BY <1>1, <1>2, PTL DEF SourceSpec

-----------------------------------------------------------------------------
(* Documents: what the snapshot that is returned says *)

\* A record of the status names one path, or two of which the second is not in
\* the tree: of the files of the tree every record names at most one.
LEMMA RecordNamesOne ==
  ASSUME NEW tree, NEW work, NEW record \in StatusRecords(tree, work),
         NEW p \in record, NEW q \in record, tree[p] # Nothing, tree[q] # Nothing
  PROVE  p = q
<1>1. CASE \E r \in Renamed(tree, work) : record = {r[1], r[2]}
  <2>1. PICK r \in Renamed(tree, work) : record = {r[1], r[2]}
    BY <1>1
  <2>2. r[2] \in Added(tree, work)
    BY DEF Renamed
  <2>3. tree[r[2]] = Nothing
    BY <2>2 DEF Added
  <2> QED
    BY <2>1, <2>3
<1>2. CASE \E x : record = {x}
  BY <1>2
<1> QED
  BY <1>1, <1>2 DEF StatusRecords

LEMMA FewerFilesThanRecords ==
  ASSUME NEW tree, NEW work, \A p \in Allowed : tree[p] # Nothing,
         NEW status, status.records = StatusRecords(tree, work)
  PROVE  Cardinality(ChangedAllowedFiles(status)) <= TrackedChanges(status)
<1> DEFINE files == ChangedAllowedFiles(status)
           records == StatusRecords(tree, work)
           naming == [p \in files |-> CHOOSE record \in records : p \in record]
<1>1. ASSUME NEW p \in files
      PROVE  naming[p] \in records /\ p \in naming[p] /\ tree[p] # Nothing
  <2>1. p \in Allowed /\ \E record \in records : p \in record
    BY DEF ChangedAllowedFiles
  <2> QED
    BY <2>1
<1>2. naming \in [files -> records]
  BY <1>1
<1>3. ASSUME NEW p \in files, NEW q \in files, naming[p] = naming[q]
      PROVE  p = q
  BY <1>1, <1>3, RecordNamesOne
<1>4. naming \in Injection(files, records)
  BY <1>2, <1>3 DEF Injection, IsInjective
<1>5. IsFiniteSet(records)
  BY StatusNamesPaths, SourceAssumption, FS_SUBSET, FS_Subset DEF SourceAssumption
<1> HIDE DEF naming, records, files
<1> QED
  BY <1>4, <1>5, FS_Injection DEF TrackedChanges, records, files

\* What a new snapshot says of the repository, and when it was so.
LEMMA NewSnapshot ==
  ASSUME SourceInv, [SourceNext]_sourceVars, snapshot' # snapshot
  PROVE  /\ ReadCommitAfter /\ Unchanged /\ AllowedPresent(capture.commit)
         /\ snapshot' = SnapshotOf(capture)
         /\ HeadCommit(repo) = capture.commit
         /\ \E v \in seen : v.commit = capture.commit
         /\ \E v \in seen : v.branch = capture.branch
         /\ \E v \in seen : v.status = capture.status
<1>1. ReadCommitAfter
  <2>1. CASE People
    BY <2>1 DEF People, EditFile, MoveFile, UntrackedFile, CommitOrReset, Switch, Becomes
  <2>2. CASE UNCHANGED sourceVars
    BY <2>2 DEF sourceVars
  <2>3. CASE Capture /\ ~ReadCommitAfter
    BY <2>3 DEF Capture, ReadCommitBefore, ReadStatusBefore, ReadBranchAndManifest,
                ReadStatusAfter, CaptureFails, Reads
  <2>4. CASE \E p \in Allowed, requireTrackedClean \in BOOLEAN :
               ReadDocument(p, requireTrackedClean)
    BY <2>4 DEF ReadDocument
  <2> QED
    BY <2>1, <2>2, <2>3, <2>4 DEF SourceNext
<1>2. Unchanged /\ AllowedPresent(capture.commit)
  BY <1>1 DEF ReadCommitAfter
<1>3. snapshot' = SnapshotOf(capture)
  BY <1>1, <1>2, SnapshotBinds
<1>4. HeadCommit(repo) = capture.commit
  BY <1>2 DEF Unchanged
<1>5. capture.pc = "commit again"
  BY <1>1 DEF ReadCommitAfter
<1> QED
  BY <1>1, <1>2, <1>3, <1>4, <1>5 DEF SourceInv, CaptureInv

LEMMA SnapshotFields ==
  /\ SnapshotOf(capture).commit = capture.commit
  /\ SnapshotOf(capture).branch = capture.branch
  /\ SnapshotOf(capture).status = capture.status
  /\ SnapshotOf(capture).state =
       SourceState(TrackedChanges(capture.status), capture.status.untracked)
  /\ SnapshotOf(capture).trackedChangeCount = TrackedChanges(capture.status)
  /\ SnapshotOf(capture).allowlistedChangeCount
       = Cardinality(ChangedAllowedFiles(capture.status))
  /\ SnapshotOf(capture).documents = [p \in Allowed |-> TreeOf[capture.commit][p]]
BY DEF SnapshotOf

\* A snapshot is of one instant of the repository it was captured from, unless
\* HEAD left the commit and came back.
THEOREM SnapshotCorrect == SourceSpec => SnapshotIsOfOneInstant
<1> DEFINE OneInstant ==
      snapshot' # snapshot =>
        LET s == snapshot'
        IN  /\ s.commit \in {v.commit : v \in seen}
            /\ s.branch \in {v.branch : v \in seen}
            /\ \/ HeadReturned(s.commit)
               \/ <<s.commit, s.status>> \in {<<v.commit, v.status>> : v \in seen}
<1>1. SourceInv /\ [SourceNext]_sourceVars => OneInstant
  <2> SUFFICES ASSUME SourceInv, [SourceNext]_sourceVars, snapshot' # snapshot
               PROVE  OneInstant
    OBVIOUS
  <2>1. /\ snapshot'.commit = capture.commit /\ snapshot'.branch = capture.branch
        /\ snapshot'.status = capture.status
    BY NewSnapshot, SnapshotFields
  <2>2. \/ HeadReturned(capture.commit)
        \/ \A v \in seen : v.commit = capture.commit
    BY NewSnapshot DEF HeadReturned
  <2> QED
    BY <2>1, <2>2, NewSnapshot
<1> HIDE DEF OneInstant
<1>2. [][OneInstant]_sourceVars => SnapshotIsOfOneInstant
  BY PTL DEF OneInstant, SnapshotIsOfOneInstant
<1> QED
  BY <1>1, <1>2, SourceInvariance, PTL DEF SourceSpec

\* A snapshot that is returned is accepted where it is used, unless HEAD left
\* the commit and came back: a status is of the commit's own tree then, and
\* names no more of the allowed files than it has records.
THEOREM SnapshotUsable == SourceSpec => SnapshotVerifies
<1> DEFINE Usable ==
      snapshot' # snapshot =>
        \/ VerifyReferenceSnapshot(snapshot')
        \/ HeadReturned(snapshot'.commit)
<1>1. SourceInv /\ [SourceNext]_sourceVars => Usable
  <2> SUFFICES ASSUME SourceInv, [SourceNext]_sourceVars, snapshot' # snapshot,
                      ~HeadReturned(snapshot'.commit)
               PROVE  VerifyReferenceSnapshot(snapshot')
    OBVIOUS
  <2>1. snapshot'.commit = capture.commit /\ HeadCommit(repo) = capture.commit
    BY NewSnapshot, SnapshotFields
  <2>2. PICK v \in seen : v.status = capture.status
    BY NewSnapshot
  <2>3. v.commit = capture.commit
    BY <2>1 DEF HeadReturned
  <2>4. PICK r \in RepoType : v = View(r)
    BY DEF SourceInv, Instants
  <2>5. capture.status.records = StatusRecords(TreeOf[capture.commit], r.work)
    BY <2>2, <2>3, <2>4 DEF View, Status
  <2>6. \A p \in Allowed : TreeOf[capture.commit][p] # Nothing
    BY NewSnapshot DEF AllowedPresent
  <2>7. Cardinality(ChangedAllowedFiles(capture.status)) <= TrackedChanges(capture.status)
    BY <2>5, <2>6, FewerFilesThanRecords
  <2>8. snapshot' = SnapshotOf(capture)
    BY NewSnapshot
  <2> QED
    BY <2>6, <2>7, <2>8, SnapshotFields DEF VerifyReferenceSnapshot
<1> HIDE DEF Usable
<1>2. [][Usable]_sourceVars => SnapshotVerifies
  BY PTL DEF Usable, SnapshotVerifies
<1> QED
  BY <1>1, <1>2, SourceInvariance, PTL DEF SourceSpec

\* Evidence says what its commit says, whatever happened to the repository and
\* however old the snapshot was it was read under.
THEOREM EvidenceCorrect == SourceSpec => []EvidenceIsCommitted
  BY SourceInvariance, PTL DEF SourceInv

-----------------------------------------------------------------------------
(* Memory *)

MemoryInv ==
  /\ MemoryTypeOK
  /\ \A m \in Memory :
       /\ memories[m].status # "absent" =>
            Enabled(memories[m].scope, memories[m].sensitivity)
       /\ memories[m].status = "accepted" => memories[m].reviewedBy = "human"

\* Whoever may read a scope may read every entry that may be in it.
LEMMA ReadersReadAll ==
  ASSUME NEW actor \in Actor, NEW scope \in Scope,
         NEW sensitivity \in Sensitivity,
         MayRead(actor, scope), Enabled(scope, sensitivity)
  PROVE  MayAccess(actor, scope, sensitivity, "read")
<1>1. ASSUME actor # "human"
      PROVE  RoleMay(PilotRole[actor], scope, sensitivity, "read")
  <2>1. actor \in Role
    BY <1>1 DEF Actor
  <2>2. PilotRole[actor].max = "confidential"
    BY <2>1 DEF PilotRole
  <2>3. Rank[sensitivity] <= Rank["confidential"]
    BY DEF Enabled, Sensitivity, Rank
  <2>4. RoleMay(PilotRole[actor], scope, "internal", "read")
    BY <1>1 DEF MayRead, MayAccess
  <2> QED
    BY <2>2, <2>3, <2>4 DEF RoleMay
<1> QED
  BY <1>1 DEF MayAccess

LEMMA MemoryStep == MemoryInv /\ [MemoryNext]_memories => MemoryInv'
<1> SUFFICES ASSUME MemoryInv, [MemoryNext]_memories PROVE MemoryInv'
  OBVIOUS
<1>1. ASSUME NEW m \in Memory, NEW actor \in Actor, NEW scope \in Scope,
             NEW sensitivity \in CitedSensitivity, NEW sources \in Citations,
             ProposeMemory(m, actor, scope, sensitivity, sources)
      PROVE  MemoryInv'
  <2>1. sensitivity \in Sensitivity
    BY MemoryAssumption DEF MemoryAssumption
  <2>2. Enabled(scope, sensitivity)
    BY <1>1 DEF ProposeMemory, MayPropose, MayAccess
  <2>3. memories' = [memories EXCEPT ![m] =
          [status |-> "candidate", scope |-> scope, sensitivity |-> sensitivity,
           sources |-> sources, reviewedBy |-> "nobody"]]
    BY <1>1 DEF ProposeMemory
  <2> QED
    BY <2>1, <2>2, <2>3 DEF MemoryInv, MemoryTypeOK
<1>2. ASSUME NEW m \in Memory, NEW actor \in Actor,
             NEW decision \in {"accepted", "rejected"},
             ReviewMemory(m, actor, decision)
      PROVE  MemoryInv'
  <2> DEFINE entry == [memories[m] EXCEPT !.status = decision, !.reviewedBy = "human"]
  <2>1. memories' = [memories EXCEPT ![m] = entry]
    BY <1>2 DEF ReviewMemory, MemoryInv, MemoryTypeOK
  <2>2. "human" \in Actor
    BY DEF Actor
  <2>3. /\ entry \in [status : {"absent", "candidate", "accepted", "rejected"},
                     scope : Scope, sensitivity : Sensitivity,
                     sources : Citations, reviewedBy : Actor \cup {"nobody"}]
        /\ entry.scope = memories[m].scope /\ entry.reviewedBy = "human"
        /\ entry.sensitivity = memories[m].sensitivity
    BY <2>2 DEF MemoryInv, MemoryTypeOK
  <2>4. memories[m].status # "absent"
    BY <1>2 DEF ReviewMemory
  <2> HIDE DEF entry
  <2> QED
    BY <2>1, <2>3, <2>4 DEF MemoryInv, MemoryTypeOK
<1>3. CASE UNCHANGED memories
  BY <1>3 DEF MemoryInv, MemoryTypeOK
<1>4. CASE \E m \in Memory, actor \in Actor, scope \in Scope,
              sensitivity \in CitedSensitivity, sources \in Citations :
             ProposeMemory(m, actor, scope, sensitivity, sources)
  BY <1>1, <1>4
<1>5. CASE \E m \in Memory, actor \in Actor, decision \in {"accepted", "rejected"} :
             ReviewMemory(m, actor, decision)
  BY <1>2, <1>5
<1> QED
  BY <1>3, <1>4, <1>5 DEF MemoryNext

LEMMA MemoryInvariance == MemorySpec => []MemoryInv
<1>1. MemoryInit => MemoryInv
  <2>1. {} \in Citations
    <3>1. Cardinality({}) = 0
      BY FS_EmptySet
    <3> QED
      BY <3>1 DEF Citations, MaxCitations
  <2> QED
    BY <2>1 DEF MemoryInit, NoMemory, MemoryInv, MemoryTypeOK, Scope, Sensitivity
<1> QED
  BY <1>1, MemoryStep, PTL DEF MemorySpec

\* No accepted entry makes the entries of its scope unreadable, for anyone who
\* may read the scope.
THEOREM MemoryStaysReadable == MemorySpec => []NoEntryBlocksItsScope
<1>1. MemoryInv => NoEntryBlocksItsScope
  <2> SUFFICES ASSUME MemoryInv, NEW actor \in Actor, NEW scope \in Scope,
                      MayRead(actor, scope), NEW m \in Visible(scope)
               PROVE  MayAccess(actor, memories[m].scope, memories[m].sensitivity, "read")
    BY DEF NoEntryBlocksItsScope, ReadSucceeds
  <2>1. /\ memories[m].scope = scope
        /\ memories[m].sensitivity \in Sensitivity
        /\ Enabled(scope, memories[m].sensitivity)
    BY DEF Visible, MemoryInv, MemoryTypeOK
  <2> QED
    BY <2>1, ReadersReadAll
<1> QED
  BY <1>1, MemoryInvariance, PTL

\* What a role reads of a department that is not its own it reads as chief of
\* staff, and a human has accepted all of it.
THEOREM MemoryConfined == MemorySpec => []MemoryStaysInDepartment
<1>1. MemoryInv => MemoryStaysInDepartment
  <2> SUFFICES ASSUME MemoryInv, NEW role \in Role, NEW scope \in Scope,
                      NEW m \in ReadMemory(role, scope)
               PROVE  /\ memories[m].reviewedBy = "human"
                      /\ scope \in {"company", DepartmentOf(role)}
                           \/ role = "chief-of-staff"
    BY DEF MemoryStaysInDepartment
  <2>1. MayRead(role, scope) /\ m \in Visible(scope)
    BY DEF ReadMemory, ReadSucceeds
  <2>2. memories[m].reviewedBy = "human"
    BY <2>1 DEF Visible, MemoryInv
  <2>3. Covers(PilotRole[role].scopes["read"], scope)
    BY <2>1 DEF MayRead, MayAccess, RoleMay, Role
  <2>4. ASSUME role # "chief-of-staff"
        PROVE  scope \in {"company", DepartmentOf(role)}
    <3>1. PilotRole[role].scopes["read"] = {"company", DepartmentOf(role)}
      BY <2>4 DEF PilotRole
    <3>2. DepartmentOf(role) # "any"
      BY <2>4 DEF DepartmentOf, Role
    <3> QED
      BY <2>3, <3>1, <3>2 DEF Covers
  <2> QED
    BY <2>2, <2>4
<1> QED
  BY <1>1, MemoryInvariance, PTL

-----------------------------------------------------------------------------
(* Containers: what a preflight remembers *)

\* The fields a preflight has at each point.
Fields(pc) ==
  CASE pc = "idle" -> {"pc"}
    [] pc = "resolve" -> {"pc", "policy", "asked", "ran"}
    [] pc = "stat" -> {"pc", "policy", "asked", "ran", "path"}
    [] pc \in {"read", "version"} -> {"pc", "policy", "asked", "ran", "path", "file"}
    [] pc = "info" -> {"pc", "policy", "asked", "ran", "path", "file", "api"}
    [] pc = "image" -> {"pc", "policy", "asked", "ran", "path", "file", "api", "info"}

Points == {"idle", "resolve", "stat", "read"} \cup Commands

\* Only docker has answered so far.
OnlyDocker(f) == f.ran \subseteq {"docker"}

\* What was observed was inspected, was asked of the launcher that was
\* inspected and, if only docker answered, was so during the preflight.
PreflightOK(f, during) ==
  /\ f.pc \in Points
  /\ DOMAIN f = Fields(f.pc)
  /\ f.pc \in {"resolve", "stat", "read"} => f.asked = {} /\ f.ran = {}
  /\ f.pc \in Commands => f.asked \subseteq {f.path}
  /\ f.pc \in {"info", "image"} => f.asked = {f.path} /\ f.ran # {}
  /\ f.pc \in {"info", "image"} /\ OnlyDocker(f) /\ ApiVersionAtLeast(f.api, MinimumApi)
       => "api" \in during
  /\ f.pc = "image" /\ OnlyDocker(f) /\ RuntimeControls(f.info) => "controls" \in during
  /\ f.pc = "image" /\ OnlyDocker(f) /\ f.info.architecture = f.policy.image.architecture
       => "architecture" \in during

\* What an answer of docker says was so during the preflight.
AnswerHeld(f, answer, during) ==
  /\ f.pc = "version" /\ ApiVersionAtLeast(answer.api, MinimumApi) => "api" \in during
  /\ f.pc = "info" /\ RuntimeControls(answer) => "controls" \in during
  /\ f.pc = "info" /\ answer.architecture = f.policy.image.architecture
       => "architecture" \in during
  /\ f.pc = "image" /\ VerifyImage(answer, f.policy) => "image" \in during

ChildOK(f, c, during) ==
  c # NoChild =>
    /\ f.pc \in Commands
    /\ DOMAIN c = {"state", "program", "timedOut", "answer"}
    /\ c.state \in {"running", "exited"}
    /\ c.state = "running" => c.answer = {}
    /\ f.asked = {f.path} /\ c.program \in f.ran
    /\ c.program = "docker" => \A answer \in c.answer : AnswerHeld(f, answer, during)

HostType ==
  [link : File, files : [File -> Launcher], daemon : AtMostOne(Daemon),
   image : AtMostOne(Image)]

ProviderInv ==
  /\ host \in HostType /\ hostChanges \in 0..MaxHostChanges
  /\ PreflightOK(preflight, held)
  /\ ChildOK(preflight, child, held)
  /\ preflight.pc # "idle" => Met(host, preflight.policy) \subseteq held
  /\ held \subseteq {"api", "controls", "architecture", "image"}
  /\ admitted = {} \/ \E p \in admitted : admitted = {p} /\ VerifyPreflight(p)

\* What a host meets is in the set of what it meets.
LEMMA MetByHost ==
  ASSUME NEW h, NEW policy
  PROVE  /\ \A d \in h.daemon :
              /\ ApiVersionAtLeast(d.api, MinimumApi) => "api" \in Met(h, policy)
              /\ RuntimeControls(d) => "controls" \in Met(h, policy)
              /\ d.architecture = policy.image.architecture
                   => "architecture" \in Met(h, policy)
         /\ \A i \in h.image : VerifyImage(i, policy) => "image" \in Met(h, policy)
         /\ Met(h, policy) \subseteq {"api", "controls", "architecture", "image"}
BY DEF Met

\* What was so during a preflight remains so.
LEMMA HeldGrows ==
  ASSUME NEW f, NEW c, NEW during, NEW more, during \subseteq more
  PROVE  /\ PreflightOK(f, during) => PreflightOK(f, more)
         /\ ChildOK(f, c, during) => ChildOK(f, c, more)
<1>1. PreflightOK(f, during) => PreflightOK(f, more)
  BY DEF PreflightOK
<1>2. \A answer : AnswerHeld(f, answer, during) => AnswerHeld(f, answer, more)
  BY DEF AnswerHeld
<1>3. ChildOK(f, c, during) => ChildOK(f, c, more)
  BY <1>2 DEF ChildOK
<1> QED
  BY <1>1, <1>3

LEMMA IdleOK == \A during : PreflightOK(Idle, during) /\ ChildOK(Idle, NoChild, during)
  BY DEF PreflightOK, ChildOK, Idle, Points, Fields, Commands

LEMMA HostStep ==
  ASSUME ProviderInv, HostNext
  PROVE  ProviderInv' /\ admitted' = admitted
<1>1. ASSUME NEW h \in HostType, Happens(h) PROVE ProviderInv' /\ admitted' = admitted
  <2>1. /\ host' = h /\ UNCHANGED <<preflight, child, admitted>>
        /\ hostChanges < MaxHostChanges /\ hostChanges' = hostChanges + 1
        /\ preflight.pc = "idle" => held' = held
        /\ preflight.pc # "idle" => held' = held \cup Met(h, preflight.policy)
    BY <1>1 DEF Happens
  <2>2. hostChanges' \in 0..MaxHostChanges
    BY <2>1, ProviderAssumption DEF ProviderInv, ProviderAssumption
  <2>3. held \subseteq held' /\ held' \subseteq {"api", "controls", "architecture", "image"}
    BY <2>1, MetByHost DEF ProviderInv
  <2>4. PreflightOK(preflight, held') /\ ChildOK(preflight, child, held')
    BY <2>3, HeldGrows DEF ProviderInv
  <2> QED
    BY <2>1, <2>2, <2>3, <2>4 DEF ProviderInv
<1>2. ASSUME NEW f \in File, MoveLink(f) PROVE ProviderInv' /\ admitted' = admitted
  <2>1. [host EXCEPT !.link = f] \in HostType
    BY DEF ProviderInv, HostType
  <2> QED
    BY <1>1, <1>2, <2>1 DEF MoveLink
<1>3. ASSUME NEW f \in File, NEW file \in Launcher, ReplaceLauncher(f, file)
      PROVE  ProviderInv' /\ admitted' = admitted
  <2>1. [host EXCEPT !.files[f] = file] \in HostType
    BY DEF ProviderInv, HostType
  <2> QED
    BY <1>1, <1>3, <2>1 DEF ReplaceLauncher
<1>4. ASSUME NEW daemon \in AtMostOne(Daemon), ChangeDaemon(daemon)
      PROVE  ProviderInv' /\ admitted' = admitted
  <2>1. [host EXCEPT !.daemon = daemon] \in HostType
    BY DEF ProviderInv, HostType
  <2> QED
    BY <1>1, <1>4, <2>1 DEF ChangeDaemon
<1>5. ASSUME NEW image \in AtMostOne(Image), ChangeImage(image)
      PROVE  ProviderInv' /\ admitted' = admitted
  <2>1. [host EXCEPT !.image = image] \in HostType
    BY DEF ProviderInv, HostType
  <2> QED
    BY <1>1, <1>5, <2>1 DEF ChangeImage
<1> QED
  BY <1>2, <1>3, <1>4, <1>5 DEF HostNext

\* A step of preflight() before the first command.
LEMMA InspectStep ==
  ASSUME ProviderInv,
         \/ \E policy \in Policy : BeginPreflight(policy)
         \/ ResolveLauncher \/ StatLauncher \/ ReadLauncher
  PROVE  ProviderInv' /\ admitted' = admitted
<1>a. preflight.pc \in Points /\ DOMAIN preflight = Fields(preflight.pc)
  BY DEF ProviderInv, PreflightOK
<1>0. preflight.pc \in {"idle", "resolve", "stat", "read"} => child = NoChild
  BY DEF ProviderInv, ChildOK, Commands
<1>1. ASSUME Goes(Idle), child = NoChild PROVE ProviderInv' /\ admitted' = admitted
  <2>1. preflight' = Idle /\ UNCHANGED <<host, hostChanges, child, admitted, held>>
    BY <1>1 DEF Goes
  <2>2. /\ PreflightOK(preflight', held') /\ ChildOK(preflight', child', held')
        /\ preflight'.pc = "idle"
    BY <1>1, <2>1, IdleOK DEF Idle
  <2> QED
    BY <2>1, <2>2 DEF ProviderInv
<1>2. ASSUME NEW f, Goes(f), f.pc \in Points, DOMAIN f = Fields(f.pc),
             f.pc \in {"stat", "read", "version"}, f.asked = {}, f.ran = {},
             f.policy = preflight.policy, child = NoChild, preflight.pc # "idle"
      PROVE  ProviderInv' /\ admitted' = admitted
  <2>1. PreflightOK(f, held) /\ ChildOK(f, child, held)
    BY <1>2 DEF PreflightOK, ChildOK
  <2>2. preflight' = f /\ UNCHANGED <<host, hostChanges, child, admitted, held>>
    BY <1>2 DEF Goes
  <2> QED
    BY <1>2, <2>1, <2>2 DEF ProviderInv
<1>b. ASSUME NEW policy \in Policy, BeginPreflight(policy)
      PROVE  ProviderInv' /\ admitted' = admitted
  <2>1. /\ preflight' = [pc |-> "resolve", policy |-> policy, asked |-> {}, ran |-> {}]
        /\ held' = Met(host, policy) /\ UNCHANGED <<host, hostChanges, child, admitted>>
    BY <1>b DEF BeginPreflight
  <2>2. child = NoChild
    BY <1>0, <1>b DEF BeginPreflight
  <2>3. preflight'.pc = "resolve" /\ preflight'.policy = policy
    BY <2>1
  <2>4. PreflightOK(preflight', held') /\ ChildOK(preflight', child', held')
    BY <2>1, <2>2 DEF PreflightOK, ChildOK, Points, Fields, Commands
  <2>5. held' \subseteq {"api", "controls", "architecture", "image"}
    BY <2>1, MetByHost
  <2> QED
    BY <2>1, <2>3, <2>4, <2>5 DEF ProviderInv
<1>r. CASE ResolveLauncher
  <2> DEFINE old == [preflight EXCEPT !.pc = "stat"]
             new == With(old, "path", host.link)
  <2>1. preflight.pc = "resolve" /\ Goes(new)
    BY <1>r DEF ResolveLauncher
  <2>2. /\ DOMAIN old = {"pc", "policy", "asked", "ran"}
        /\ old.pc = "stat" /\ old.policy = preflight.policy
        /\ old.asked = preflight.asked /\ old.ran = preflight.ran
    BY <1>a, <2>1 DEF Fields
  <2>3. preflight.asked = {} /\ preflight.ran = {}
    BY <2>1 DEF ProviderInv, PreflightOK
  <2> HIDE DEF old
  <2>a. /\ DOMAIN new = DOMAIN old \cup {"path"}
        /\ \A x \in DOMAIN old \ {"path"} : new[x] = old[x]
    BY DEF With
  <2> HIDE DEF new
  <2>4. /\ DOMAIN new = {"pc", "policy", "asked", "ran", "path"}
        /\ new.pc = "stat" /\ new.policy = preflight.policy
        /\ new.asked = {} /\ new.ran = {}
    BY <2>2, <2>3, <2>a
  <2>5. "stat" \in Points /\ Fields("stat") = {"pc", "policy", "asked", "ran", "path"}
    BY DEF Points, Fields
  <2> QED
    BY <1>0, <1>2, <2>1, <2>4, <2>5
<1>s. CASE StatLauncher
  <2> DEFINE old == [preflight EXCEPT !.pc = "read"]
             new == With(old, "file", host.files[preflight.path])
  <2>1. preflight.pc = "stat" /\ (Goes(new) \/ Goes(Idle))
    BY <1>s DEF StatLauncher
  <2>2. /\ DOMAIN old = {"pc", "policy", "asked", "ran", "path"}
        /\ old.pc = "read" /\ old.policy = preflight.policy
        /\ old.asked = preflight.asked /\ old.ran = preflight.ran
    BY <1>a, <2>1 DEF Fields
  <2>3. preflight.asked = {} /\ preflight.ran = {}
    BY <2>1 DEF ProviderInv, PreflightOK
  <2> HIDE DEF old
  <2>a. /\ DOMAIN new = DOMAIN old \cup {"file"}
        /\ \A x \in DOMAIN old \ {"file"} : new[x] = old[x]
    BY DEF With
  <2> HIDE DEF new
  <2>4. /\ DOMAIN new = {"pc", "policy", "asked", "ran", "path", "file"}
        /\ new.pc = "read" /\ new.policy = preflight.policy
        /\ new.asked = {} /\ new.ran = {}
    BY <2>2, <2>3, <2>a
  <2>5. /\ "read" \in Points
        /\ Fields("read") = {"pc", "policy", "asked", "ran", "path", "file"}
    BY DEF Points, Fields
  <2> QED
    BY <1>0, <1>1, <1>2, <2>1, <2>4, <2>5
<1>d. CASE ReadLauncher
  <2> DEFINE f(program) == [preflight EXCEPT !.pc = "version", !.file.program = program]
  <2>1. /\ preflight.pc = "read"
        /\ Goes(f(host.files[preflight.path].program)) \/ Goes(Idle)
    BY <1>d DEF ReadLauncher
  <2>2. ASSUME NEW program
        PROVE  /\ DOMAIN f(program) = {"pc", "policy", "asked", "ran", "path", "file"}
               /\ f(program).pc = "version" /\ f(program).policy = preflight.policy
               /\ f(program).asked = preflight.asked /\ f(program).ran = preflight.ran
    BY <1>a, <2>1 DEF Fields
  <2>3. preflight.asked = {} /\ preflight.ran = {}
    BY <2>1 DEF ProviderInv, PreflightOK
  <2>4. /\ "version" \in Points
        /\ Fields("version") = {"pc", "policy", "asked", "ran", "path", "file"}
    BY DEF Points, Fields, Commands
  <2> HIDE DEF f
  <2> QED
    BY <1>0, <1>1, <1>2, <2>1, <2>2, <2>3, <2>4
<1> QED
  BY <1>b, <1>r, <1>s, <1>d

LEMMA RunStep ==
  ASSUME ProviderInv, RunCommand
  PROVE  ProviderInv' /\ admitted' = admitted
<1> DEFINE program == host.files[Executable].program
           f == [preflight EXCEPT !.asked = @ \cup {Executable}, !.ran = @ \cup {program}]
<1>1. /\ preflight.pc \in Commands /\ preflight' = f
      /\ child' = [state |-> "running", program |-> program,
                   timedOut |-> FALSE, answer |-> {}]
      /\ UNCHANGED <<host, hostChanges, admitted, held>>
  BY DEF RunCommand
<1>2. DOMAIN preflight = Fields(preflight.pc)
  BY DEF ProviderInv, PreflightOK
<1>3. {"pc", "policy", "asked", "ran", "path"} \subseteq DOMAIN preflight
  BY <1>1, <1>2 DEF Fields, Commands
<1> HIDE DEF program
<1>4. /\ DOMAIN f = DOMAIN preflight
      /\ \A x \in DOMAIN preflight \ {"asked", "ran"} : f[x] = preflight[x]
      /\ f.asked = preflight.asked \cup {Executable} /\ f.ran = preflight.ran \cup {program}
  BY <1>3
<1> HIDE DEF f
<1>5. f.pc = preflight.pc /\ f.policy = preflight.policy /\ f.path = preflight.path
  BY <1>3, <1>4
<1>6. /\ f.pc \in {"info", "image"} => f.api = preflight.api
      /\ f.pc = "image" => f.info = preflight.info
  BY <1>2, <1>4, <1>5 DEF Fields
<1>7. f.asked = {f.path}
  BY <1>1, <1>4, <1>5 DEF ProviderInv, PreflightOK, Executable
<1>8. OnlyDocker(f) => OnlyDocker(preflight)
  BY <1>4 DEF OnlyDocker
<1>9. PreflightOK(f, held)
  <2>1. PreflightOK(preflight, held)
    BY DEF ProviderInv
  <2> QED
    BY <1>1, <1>4, <1>5, <1>6, <1>7, <1>8, <2>1 DEF PreflightOK, Commands
<1>10. ChildOK(f, child', held)
  BY <1>1, <1>4, <1>5, <1>7 DEF ChildOK
<1> QED
  BY <1>1, <1>5, <1>9, <1>10 DEF ProviderInv, Commands

\* The answer of docker is what the host met at this instant.
LEMMA AnswersHeld ==
  ASSUME ProviderInv, child # NoChild, child.program = "docker", NEW answer \in Answers
  PROVE  AnswerHeld(preflight, answer, held)
<1>1. preflight.pc \in Commands
  BY DEF ProviderInv, ChildOK
<1>2. Met(host, preflight.policy) \subseteq held
  BY <1>1 DEF ProviderInv, Commands
<1>3. CASE preflight.pc = "image"
  <2>1. answer \in host.image
    BY <1>3 DEF Answers
  <2> QED
    BY <1>2, <1>3, <2>1, MetByHost DEF AnswerHeld
<1>4. CASE preflight.pc \in {"version", "info"}
  <2>1. answer \in host.daemon
    BY <1>4 DEF Answers
  <2> QED
    BY <1>2, <1>4, <2>1, MetByHost DEF AnswerHeld
<1> QED
  BY <1>1, <1>3, <1>4 DEF Commands

LEMMA ChildStep ==
  ASSUME ProviderInv, ChildAnswers \/ ChildFails \/ TimerFires
  PROVE  ProviderInv' /\ admitted' = admitted
<1>0. child.state \in {"running", "exited"}
  BY DEF ChildAnswers, ChildFails, TimerFires
<1>1. child # NoChild
  BY <1>0 DEF NoChild
<1>2. ChildOK(preflight, child, held)
  BY DEF ProviderInv
<1>3. ASSUME NEW c, ChildBecomes(c), c.state = "exited", c.program = child.program,
             DOMAIN c = DOMAIN child,
             c.answer = child.answer
               \/ \E answer \in Answers : c.answer = {answer}
      PROVE  ProviderInv' /\ admitted' = admitted
  <2>1. ASSUME child.program = "docker", NEW answer \in c.answer
        PROVE  AnswerHeld(preflight, answer, held)
    BY <1>1, <1>2, <1>3, <2>1, AnswersHeld DEF ChildOK
  <2>2. ChildOK(preflight, c, held)
    BY <1>1, <1>2, <1>3, <2>1 DEF ChildOK
  <2>3. child' = c /\ UNCHANGED <<host, hostChanges, preflight, admitted, held>>
    BY <1>3 DEF ChildBecomes
  <2> QED
    BY <2>2, <2>3 DEF ProviderInv
<1>4. DOMAIN child = {"state", "program", "timedOut", "answer"}
  BY <1>1, <1>2 DEF ChildOK
<1>5. CASE ChildAnswers
  <2>1. PICK answer \in Answers :
               ChildBecomes([child EXCEPT !.state = "exited", !.answer = {answer}])
    BY <1>5 DEF ChildAnswers
  <2> DEFINE c == [child EXCEPT !.state = "exited", !.answer = {answer}]
  <2>2. /\ c.state = "exited" /\ c.program = child.program /\ c.answer = {answer}
        /\ DOMAIN c = DOMAIN child
    BY <1>4
  <2>3. ChildBecomes(c)
    BY <2>1
  <2> HIDE DEF c
  <2> QED
    BY <1>3, <2>2, <2>3
<1>6. CASE ChildFails
  <2> DEFINE c == [child EXCEPT !.state = "exited"]
  <2>1. /\ c.state = "exited" /\ c.program = child.program /\ c.answer = child.answer
        /\ DOMAIN c = DOMAIN child
    BY <1>4
  <2>2. ChildBecomes(c)
    BY <1>6 DEF ChildFails
  <2> HIDE DEF c
  <2> QED
    BY <1>3, <2>1, <2>2
<1>7. CASE TimerFires
  <2> DEFINE c == [child EXCEPT !.timedOut = TRUE, !.state = "exited"]
  <2>1. /\ c.state = "exited" /\ c.program = child.program /\ c.answer = child.answer
        /\ DOMAIN c = DOMAIN child
    BY <1>4
  <2>2. ChildBecomes(c)
    BY <1>7 DEF TimerFires, Terminate
  <2> HIDE DEF c
  <2> QED
    BY <1>3, <2>1, <2>2
<1> QED
  BY <1>5, <1>6, <1>7

\* What the last answer is bound into: the launcher that was inspected and ran
\* every command, and requirements that were met if docker ran.
Vouched(p) ==
  /\ preflight.asked = {p.template.executable}
  /\ p.runtime.path = p.template.executable
  /\ preflight.ran = {"docker"} =>
       {"api", "controls", "architecture", "image"} \subseteq held

LEMMA KeepStep ==
  ASSUME ProviderInv, ChildCloses
  PROVE  ProviderInv' /\ \A p \in admitted' \ admitted : Vouched(p)
<1>1. /\ child.state = "exited" /\ child' = NoChild
      /\ UNCHANGED <<host, hostChanges, held>>
  BY DEF ChildCloses
<1>2. /\ PreflightOK(preflight, held) /\ ChildOK(preflight, child, held)
      /\ child # NoChild
  BY <1>1 DEF ProviderInv, NoChild
<1>3. /\ preflight.pc \in Commands /\ DOMAIN preflight = Fields(preflight.pc)
      /\ preflight.asked = {preflight.path} /\ child.program \in preflight.ran
  BY <1>2 DEF PreflightOK, ChildOK
<1>4. ASSUME OnlyDocker(preflight), NEW answer \in child.answer
      PROVE  AnswerHeld(preflight, answer, held)
  BY <1>2, <1>3, <1>4 DEF ChildOK, OnlyDocker
<1>5. ASSUME preflight' = Idle, UNCHANGED admitted
      PROVE  ProviderInv' /\ \A p \in admitted' \ admitted : Vouched(p)
  <2>1. /\ PreflightOK(preflight', held') /\ ChildOK(preflight', child', held')
        /\ preflight'.pc = "idle"
    BY <1>1, <1>5, IdleOK DEF Idle
  <2> QED
    BY <1>1, <1>5, <2>1 DEF ProviderInv
<1>6. ASSUME NEW f, preflight' = f, UNCHANGED admitted, PreflightOK(f, held),
             f.pc # "idle", f.policy = preflight.policy
      PROVE  ProviderInv' /\ \A p \in admitted' \ admitted : Vouched(p)
  <2>1. ChildOK(f, NoChild, held)
    BY DEF ChildOK
  <2>2. Met(host, preflight.policy) \subseteq held
    BY <1>3 DEF ProviderInv, Commands
  <2> QED
    BY <1>1, <1>6, <2>1, <2>2 DEF ProviderInv
<1>v. ASSUME NEW answer \in child.answer, KeepVersion(answer)
      PROVE  ProviderInv' /\ \A p \in admitted' \ admitted : Vouched(p)
  <2> DEFINE old == [preflight EXCEPT !.pc = "info"]
             new == With(old, "api", answer.api)
  <2>1. preflight.pc = "version" /\ preflight' = new /\ UNCHANGED admitted
    BY <1>v DEF KeepVersion
  <2>2. /\ DOMAIN old = {"pc", "policy", "asked", "ran", "path", "file"}
        /\ old.pc = "info" /\ old.policy = preflight.policy /\ old.path = preflight.path
        /\ old.asked = preflight.asked /\ old.ran = preflight.ran
    BY <1>3, <2>1 DEF Fields
  <2> HIDE DEF old
  <2>3. /\ DOMAIN new = DOMAIN old \cup {"api"} /\ new.api = answer.api
        /\ \A x \in DOMAIN old \ {"api"} : new[x] = old[x]
    BY DEF With
  <2> HIDE DEF new
  <2>4. /\ DOMAIN new = {"pc", "policy", "asked", "ran", "path", "file", "api"}
        /\ new.pc = "info" /\ new.policy = preflight.policy /\ new.path = preflight.path
        /\ new.asked = preflight.asked /\ new.ran = preflight.ran
    BY <2>2, <2>3
  <2>5. OnlyDocker(new) => AnswerHeld(preflight, answer, held)
    BY <1>4, <2>4 DEF OnlyDocker
  <2>6. OnlyDocker(new) /\ ApiVersionAtLeast(new.api, MinimumApi) => "api" \in held
    BY <2>1, <2>3, <2>5 DEF AnswerHeld
  <2>7. DOMAIN new = Fields(new.pc) /\ new.pc \in Points
    BY <2>4 DEF Fields, Points, Commands
  <2>8. PreflightOK(new, held)
    BY <1>3, <2>4, <2>6, <2>7 DEF PreflightOK
  <2> QED
    BY <1>6, <2>1, <2>4, <2>8
<1>i. ASSUME NEW answer \in child.answer, KeepInfo(answer), preflight' # Idle
      PROVE  ProviderInv' /\ \A p \in admitted' \ admitted : Vouched(p)
  <2> DEFINE old == [preflight EXCEPT !.pc = "image"]
             new == With(old, "info", answer)
  <2>1. preflight.pc = "info" /\ preflight' = new /\ UNCHANGED admitted
    BY <1>i DEF KeepInfo
  <2>2. /\ DOMAIN old = {"pc", "policy", "asked", "ran", "path", "file", "api"}
        /\ old.pc = "image" /\ old.policy = preflight.policy /\ old.path = preflight.path
        /\ old.asked = preflight.asked /\ old.ran = preflight.ran
        /\ old.api = preflight.api
    BY <1>3, <2>1 DEF Fields
  <2> HIDE DEF old
  <2>3. /\ DOMAIN new = DOMAIN old \cup {"info"} /\ new.info = answer
        /\ \A x \in DOMAIN old \ {"info"} : new[x] = old[x]
    BY DEF With
  <2> HIDE DEF new
  <2>4. /\ DOMAIN new = {"pc", "policy", "asked", "ran", "path", "file", "api", "info"}
        /\ new.pc = "image" /\ new.policy = preflight.policy /\ new.path = preflight.path
        /\ new.asked = preflight.asked /\ new.ran = preflight.ran
        /\ new.api = preflight.api
    BY <2>2, <2>3
  <2>5. OnlyDocker(new) => AnswerHeld(preflight, answer, held) /\ OnlyDocker(preflight)
    BY <1>4, <2>4 DEF OnlyDocker
  <2>6. OnlyDocker(new) =>
          /\ RuntimeControls(new.info) => "controls" \in held
          /\ new.info.architecture = new.policy.image.architecture
               => "architecture" \in held
    BY <2>1, <2>3, <2>4, <2>5 DEF AnswerHeld
  <2>7. DOMAIN new = Fields(new.pc) /\ new.pc \in Points
    BY <2>4 DEF Fields, Points, Commands
  <2>8. OnlyDocker(new) /\ ApiVersionAtLeast(new.api, MinimumApi) => "api" \in held
    BY <1>2, <2>1, <2>4, <2>5 DEF PreflightOK
  <2>9. PreflightOK(new, held)
    BY <1>3, <2>4, <2>6, <2>7, <2>8 DEF PreflightOK
  <2> QED
    BY <1>6, <2>1, <2>4, <2>9
<1>b. ASSUME NEW answer \in child.answer, BindImage(answer)
      PROVE  ProviderInv' /\ \A p \in admitted' \ admitted : Vouched(p)
  <2> DEFINE p == Observed(answer)
  <2>1. /\ preflight.pc = "image" /\ preflight' = Idle
        /\ admitted' = IF VerifyPreflight(p) THEN {p} ELSE admitted
    BY <1>b DEF BindImage
  <2>2. CASE admitted' = admitted
    BY <1>5, <2>1, <2>2
  <2>3. CASE VerifyPreflight(p) /\ admitted' = {p}
    <3>1. /\ p.template.executable = preflight.path /\ p.runtime.path = preflight.path
          /\ p.runtime.api = preflight.api /\ p.runtime.info = preflight.info
          /\ p.image = answer /\ p.policy = preflight.policy
      BY DEF Observed, TemplateOf
    <3>2. /\ ApiVersionAtLeast(p.runtime.api, MinimumApi)
          /\ RuntimeControls(p.runtime.info) /\ VerifyImage(p.image, p.policy)
          /\ p.runtime.info.architecture = p.policy.image.architecture
      BY <2>3 DEF VerifyPreflight, VerifyRuntime, Bound
    <3> HIDE DEF p
    <3>3. preflight.ran = {"docker"} =>
            {"api", "controls", "architecture", "image"} \subseteq held
      <4> SUFFICES ASSUME preflight.ran = {"docker"}
                   PROVE  {"api", "controls", "architecture", "image"} \subseteq held
        OBVIOUS
      <4>1. OnlyDocker(preflight)
        BY DEF OnlyDocker
      <4>2. "image" \in held
        BY <1>4, <2>1, <3>1, <3>2, <4>1 DEF AnswerHeld
      <4>3. "api" \in held /\ "controls" \in held /\ "architecture" \in held
        BY <1>2, <2>1, <3>1, <3>2, <4>1 DEF PreflightOK
      <4> QED
        BY <4>2, <4>3
    <3>4. Vouched(p)
      BY <1>3, <3>1, <3>3 DEF Vouched
    <3>5. /\ PreflightOK(preflight', held') /\ ChildOK(preflight', child', held')
          /\ preflight'.pc = "idle"
      BY <1>1, <2>1, IdleOK DEF Idle
    <3> QED
      BY <1>1, <2>3, <3>4, <3>5 DEF ProviderInv
  <2> QED
    BY <2>1, <2>2, <2>3
<1> QED
  <2>1. \/ preflight' = Idle /\ UNCHANGED admitted
        \/ \E answer \in child.answer :
             KeepVersion(answer) \/ KeepInfo(answer) \/ BindImage(answer)
    BY DEF ChildCloses
  <2>2. \A answer : KeepInfo(answer) => UNCHANGED admitted
    BY DEF KeepInfo
  <2> QED
    BY <1>5, <1>v, <1>i, <1>b, <2>1, <2>2

LEMMA ProviderStep ==
  ASSUME ProviderInv, [ProviderNext]_providerVars
  PROVE  ProviderInv' /\ \A p \in admitted' \ admitted : Vouched(p)
<1>1. CASE UNCHANGED providerVars
  BY <1>1 DEF providerVars, ProviderInv
<1>2. ASSUME ProviderInv' /\ admitted' = admitted
      PROVE  ProviderInv' /\ \A p \in admitted' \ admitted : Vouched(p)
  BY <1>2
<1>3. CASE \E policy \in Policy : BeginPreflight(policy)
  BY <1>2, <1>3, InspectStep
<1>4. CASE Inspect
  <2>1. CASE RunCommand
    BY <1>2, <2>1, RunStep
  <2>2. CASE ResolveLauncher \/ StatLauncher \/ ReadLauncher
    BY <1>2, <2>2, InspectStep
  <2> QED
    BY <1>4, <2>1, <2>2 DEF Inspect
<1> QED
  BY <1>1, <1>2, <1>3, <1>4, HostStep, ChildStep, KeepStep DEF ProviderNext

ProviderSpec == ProviderInit /\ [][ProviderNext]_providerVars

LEMMA ProviderInvariance == ProviderSpec => []ProviderInv
<1>1. ProviderInit => ProviderInv
  <2> SUFFICES ASSUME ProviderInit PROVE ProviderInv
    OBVIOUS
  <2>1. preflight.pc = "idle"
    BY DEF ProviderInit, Idle
  <2> QED
    BY <2>1, IdleOK, ProviderAssumption
     DEF ProviderAssumption, ProviderInit, ProviderInv, HostType
<1> QED
  BY <1>1, ProviderStep, PTL DEF ProviderSpec

\* Every command of a preflight is run by the file that was inspected, which
\* is the one the launch template names, wherever the link leads meanwhile.
THEOREM LauncherCorrect == ProviderSpec => OneLauncher
<1> DEFINE SameLauncher ==
      \A p \in admitted' \ admitted :
        /\ preflight.asked = {p.template.executable}
        /\ p.runtime.path = p.template.executable
<1>1. ProviderInv /\ [ProviderNext]_providerVars => SameLauncher
  BY ProviderStep DEF Vouched
<1> HIDE DEF SameLauncher
<1>2. [][SameLauncher]_providerVars => OneLauncher
  BY PTL DEF SameLauncher, OneLauncher
<1> QED
  BY <1>1, <1>2, ProviderInvariance, PTL DEF ProviderSpec

\* Each requirement a preflight says is met was met while it ran, if docker
\* answered, however the daemon and its images change meanwhile.
THEOREM ControlsCorrect == ProviderSpec => ControlsHeld
<1> DEFINE Held ==
      \A p \in admitted' \ admitted :
        preflight.ran = {"docker"} =>
          {"api", "controls", "architecture", "image"} \subseteq held
<1>1. ProviderInv /\ [ProviderNext]_providerVars => Held
  BY ProviderStep DEF Vouched
<1> HIDE DEF Held
<1>2. [][Held]_providerVars => ControlsHeld
  BY PTL DEF Held, ControlsHeld
<1> QED
  BY <1>1, <1>2, ProviderInvariance, PTL DEF ProviderSpec

-----------------------------------------------------------------------------
(* The four parts together *)

\* A behaviour of the composition is one of each part.
LEMMA SpecOfParts ==
  Spec => SourceSpec /\ MemorySpec /\ RegistrySpec /\ ProviderSpec
<1>1. Init => SourceInit /\ MemoryInit /\ RegistryInit /\ ProviderInit
  BY DEF Init
<1>2. [Next]_admissionVars => [SourceNext]_sourceVars
  BY DEF Next, admissionVars
<1>3. [Next]_admissionVars => [MemoryNext]_memories
  BY DEF Next, admissionVars
<1>4. [Next]_admissionVars => [RegistryNext]_registryVars
  BY DEF Next, admissionVars
<1>5. [Next]_admissionVars => [ProviderNext]_providerVars
  BY DEF Next, admissionVars
<1> QED
  BY <1>1, <1>2, <1>3, <1>4, <1>5, PTL
   DEF Spec, SourceSpec, MemorySpec, RegistrySpec, ProviderSpec

\* The composition is type-correct: whatever people, roles, workflows and
\* hosts do, at most one preflight is held, and it is one that verifies.
THEOREM TypeCorrect == Spec => []TypeOK
<1>1. SourceInv => SourceTypeOK
  BY InstantsAreViews DEF SourceInv, SourceTypeOK, RepoType, CaptureInv
<1>2. ProviderInv => ProviderTypeOK
  <2> SUFFICES ASSUME ProviderInv PROVE ProviderTypeOK
    OBVIOUS
  <2>1. Cardinality(admitted) <= 1 /\ \A p \in admitted : VerifyPreflight(p)
    <3>1. CASE admitted = {}
      BY <3>1, FS_EmptySet
    <3>2. CASE admitted # {}
      <4>1. PICK p \in admitted : admitted = {p} /\ VerifyPreflight(p)
        BY <3>2 DEF ProviderInv
      <4>2. Cardinality(admitted) = 1
        BY <4>1, FS_Singleton
      <4> QED
        BY <4>1, <4>2
    <3> QED
      BY <3>1, <3>2
  <2>2. /\ preflight.pc \in {"idle", "resolve", "stat", "read"} \cup Commands
        /\ preflight.pc = "idle" => child = NoChild
        /\ child # NoChild => preflight.pc \in Commands
    BY DEF ProviderInv, PreflightOK, ChildOK, Points, Commands
  <2> QED
    BY <2>1, <2>2 DEF ProviderInv, ProviderTypeOK, HostType
<1>3. Init /\ [][Next]_admissionVars => [](part \in Part)
  <2>1. Init => part \in Part
    BY DEF Init
  <2>2. part \in Part /\ [Next]_admissionVars => (part \in Part)'
    BY DEF Next, admissionVars
  <2> QED
    BY <2>1, <2>2, PTL
<1>4. /\ part \in Part /\ SourceInv /\ MemoryInv /\ Inv /\ ProviderInv
      => TypeOK
  BY <1>1, <1>2 DEF TypeOK, MemoryInv, Inv
<1> QED
  BY <1>3, <1>4, SpecOfParts, SourceInvariance, MemoryInvariance, RegistryInvariance,
     ProviderInvariance, PTL DEF Spec

\* Each part keeps its promise in the composition.
THEOREM PartsCorrect ==
  Spec =>
    /\ SnapshotIsOfOneInstant /\ SnapshotVerifies /\ []EvidenceIsCommitted
    /\ []NoEntryBlocksItsScope /\ []MemoryStaysInDepartment
    /\ []RegisteredIsAcyclic /\ []CycleIsReal
    /\ OneLauncher /\ ControlsHeld
BY SpecOfParts, SnapshotCorrect, SnapshotUsable, EvidenceCorrect, MemoryStaysReadable,
   MemoryConfined, RegistryAcyclic, RefusedForACycle, LauncherCorrect, ControlsCorrect

=============================================================================
