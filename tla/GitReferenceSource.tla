------------------------- MODULE GitReferenceSource --------------------------
(***************************************************************************)
(* GitReferenceSource (integrations/git-reference-source.js): capturing a  *)
(* snapshot of a repository and reading a committed document under it.     *)
(*                                                                         *)
(* A snapshot is put together from several git commands, one after the     *)
(* other, while people go on working in the repository: they edit, commit, *)
(* switch branches and move a branch. Each git command sees the repository *)
(* at one instant; any of them may fail.                                   *)
(*                                                                         *)
(* Git is external. Commits and the objects they name never change, so     *)
(* that when a command that only reads those runs makes no difference.     *)
(* Object identifiers and SHA-256 digests stand for what they are the      *)
(* digest of: a snapshot or an evidence that was altered is none.          *)
(***************************************************************************)
EXTENDS Naturals, FiniteSets

CONSTANTS
  Path,              \* paths of tracked files
  Allowed,           \* allowedFiles, the allowlist of the source
  Content,           \* contents of files
  Size,              \* the length of a content
  Text,              \* the contents that are valid UTF-8
  MaxDocumentBytes,
  Commit,
  TreeOf,            \* the tree of a commit: what it has at each path
  Branch,
  Nothing,           \* no file at a path, or no value yet
  Written,           \* what people put at a path
  MaxChanges         \* bound on what people do to the repository

FileKind == {"regular", "symlink", "submodule"}

Entry == [kind : FileKind, content : Content]

Tree == [Path -> Entry \cup {Nothing}]

(* Document evidence: a commit, a path, and the digest of what is there.   *)
Evidence == [commit : Commit, path : Allowed, content : Content]

ASSUME SourceAssumption ==
  /\ IsFiniteSet(Path) /\ Allowed \subseteq Path /\ Allowed # {}
  /\ Size \in [Content -> Nat] /\ Text \subseteq Content
  /\ MaxDocumentBytes \in Nat /\ MaxChanges \in Nat
  /\ TreeOf \in [Commit -> Tree]
  /\ Written \subseteq Entry \cup {Nothing}
  /\ Nothing \notin Entry \cup Commit \cup Branch

VARIABLES
  repo,       \* HEAD's branch, the branches, the index and worktree
  changes,    \* how often people changed it
  capture,    \* where captureSnapshot() is, and what it has read
  snapshot,   \* the snapshot the caller holds, or Nothing
  evidence,   \* the document evidence it was returned last, or Nothing
  seen        \* what was so during the capture (for the properties)

sourceVars == <<repo, changes, capture, snapshot, evidence, seen>>

-----------------------------------------------------------------------------
(* The repository *)

HeadCommit(r) == r.branches[r.head]

(* git status: a path that was deleted and one that was added with the     *)
(* same entry are one record, a rename, with two paths. (A file that was   *)
(* copied to two places would be one rename and one addition.)             *)
Deleted(tree, work) == {p \in Path : tree[p] # Nothing /\ work[p] = Nothing}

Added(tree, work) == {p \in Path : tree[p] = Nothing /\ work[p] # Nothing}

Modified(tree, work) ==
  {p \in Path : /\ tree[p] # Nothing /\ work[p] # Nothing
                /\ tree[p] # work[p]}

Renamed(tree, work) ==
  {r \in Deleted(tree, work) \X Added(tree, work) : tree[r[1]] = work[r[2]]}

StatusRecords(tree, work) ==
  LET renamed == Renamed(tree, work)
      plain == Modified(tree, work)
               \cup (Deleted(tree, work) \ {r[1] : r \in renamed})
               \cup (Added(tree, work) \ {r[2] : r \in renamed})
  IN  {{r[1], r[2]} : r \in renamed} \cup {{p} : p \in plain}

Status(r) ==
  [records |-> StatusRecords(TreeOf[HeadCommit(r)], r.work), untracked |-> r.untracked]

(* What a snapshot says of the repository besides its commit's content. *)
View(r) == [commit |-> HeadCommit(r), branch |-> r.head, status |-> Status(r)]

-----------------------------------------------------------------------------

NoCapture ==
  [pc |-> "idle", commit |-> Nothing, status |-> Nothing, branch |-> Nothing,
   same |-> FALSE]

SourceInit ==
  /\ \E c \in Commit, b \in Branch :
       repo = [head |-> b, branches |-> [x \in Branch |-> c],
               work |-> TreeOf[c], untracked |-> FALSE]
  /\ changes = 0
  /\ capture = NoCapture
  /\ snapshot = Nothing /\ evidence = Nothing
  /\ seen = {}

-----------------------------------------------------------------------------
(* People and their tools change the repository *)

Becomes(r) ==
  /\ changes < MaxChanges /\ changes' = changes + 1
  /\ repo' = r
  /\ seen' = IF capture.pc = "idle" THEN seen ELSE seen \cup {View(r)}
  /\ UNCHANGED <<capture, snapshot, evidence>>

(* A tracked file is written, added, removed or moved. *)
EditFile(p, entry) == Becomes([repo EXCEPT !.work[p] = entry])

MoveFile(from, to) ==
  /\ repo.work[from] # Nothing /\ from # to
  /\ Becomes([repo EXCEPT !.work[to] = repo.work[from], !.work[from] = Nothing])

UntrackedFile == Becomes([repo EXCEPT !.untracked = ~@])

(* git commit, and git reset --soft: the branch moves, the files stay. *)
CommitOrReset(c) ==
  /\ c # HeadCommit(repo)
  /\ Becomes([repo EXCEPT !.branches[repo.head] = c])

(* git switch -c, or to a branch at the same commit; and to another commit *)
(* from a clean worktree.                                                  *)
Switch(b) ==
  /\ b # repo.head
  /\ \/ repo.branches[b] = HeadCommit(repo) /\ Becomes([repo EXCEPT !.head = b])
     \/ /\ repo.branches[b] # HeadCommit(repo)
        /\ repo.work = TreeOf[HeadCommit(repo)]
        /\ Becomes([repo EXCEPT !.head = b, !.work = TreeOf[repo.branches[b]]])

People ==
  \/ \E p \in Path, entry \in Written : EditFile(p, entry)
  \/ \E from, to \in Path : MoveFile(from, to)
  \/ UntrackedFile
  \/ \E c \in Commit : CommitOrReset(c)
  \/ \E b \in Branch : Switch(b)

-----------------------------------------------------------------------------
(* captureSnapshot() *)

Reads(new) ==
  /\ capture' = new
  /\ UNCHANGED <<repo, changes, snapshot, evidence, seen>>

(* rev-parse HEAD *)
ReadCommitBefore ==
  /\ capture.pc = "idle"
  /\ capture' = [NoCapture EXCEPT !.pc = "status", !.commit = HeadCommit(repo)]
  /\ seen' = {View(repo)}
  /\ UNCHANGED <<repo, changes, snapshot, evidence>>

ReadStatusBefore ==
  /\ capture.pc = "status"
  /\ Reads([capture EXCEPT !.pc = "names", !.status = Status(repo)])

(* Four commands at once. The tree and the manifest are of the commit that *)
(* was read; only the name of the branch is HEAD's at this instant.        *)
ReadBranchAndManifest ==
  /\ capture.pc = "names"
  /\ Reads([capture EXCEPT !.pc = "status again", !.branch = repo.head])

ReadStatusAfter ==
  /\ capture.pc = "status again"
  /\ Reads([capture EXCEPT !.pc = "commit again",
                           !.same = (Status(repo) = capture.status)])

\* Mutant: the records of renames are skipped.
TrackedChanges_NoRenames(status) ==
  Cardinality({record \in status.records : Cardinality(record) = 1})

(* parseStatus: how many records, and which allowed files they name. *)
TrackedChanges(status) == Cardinality(status.records)

ChangedAllowedFiles(status) ==
  {p \in Allowed : \E record \in status.records : p \in record}

SourceState(tracked, untracked) ==
  IF tracked > 0 THEN "tracked-dirty"
  ELSE IF untracked THEN "tracked-clean-with-untracked" ELSE "clean"

\* Mutant: HEAD is not compared with what it was before.
Unchanged_StatusOnly == capture.same

Unchanged == HeadCommit(repo) = capture.commit /\ capture.same

\* Mutant: a snapshot binds the allowed documents it finds.
AllowedPresent_Some(commit) == \E p \in Allowed : TreeOf[commit][p] # Nothing

(* Every allowed document is in the manifest of the commit. *)
AllowedPresent(commit) == \A p \in Allowed : TreeOf[commit][p] # Nothing

SnapshotOf(read) ==
  [commit |-> read.commit, branch |-> read.branch, status |-> read.status,
   state |-> SourceState(TrackedChanges(read.status), read.status.untracked),
   trackedChangeCount |-> TrackedChanges(read.status),
   allowlistedChangeCount |-> Cardinality(ChangedAllowedFiles(read.status)),
   documents |-> [p \in Allowed |-> TreeOf[read.commit][p]]]

(* HEAD is read again: the snapshot is returned, or IntegrityError. *)
ReadCommitAfter ==
  /\ capture.pc = "commit again"
  /\ snapshot' = IF Unchanged /\ AllowedPresent(capture.commit)
                   THEN SnapshotOf(capture) ELSE snapshot
  /\ capture' = NoCapture
  /\ UNCHANGED <<repo, changes, evidence, seen>>

(* A git command fails or prints what cannot be parsed. *)
CaptureFails == capture.pc # "idle" /\ Reads(NoCapture)

Capture ==
  \/ ReadCommitBefore \/ ReadStatusBefore \/ ReadBranchAndManifest
  \/ ReadStatusAfter \/ ReadCommitAfter \/ CaptureFails

-----------------------------------------------------------------------------
(* readDocument() *)

(* verifyReferenceSnapshot, of a snapshot with its own digest. *)
VerifyReferenceSnapshot(s) ==
  /\ s.state = SourceState(s.trackedChangeCount, s.status.untracked)
  /\ s.allowlistedChangeCount <= s.trackedChangeCount
  /\ \A p \in DOMAIN s.documents : s.documents[p] # Nothing

RegularDocument(s, p) ==
  /\ s.documents[p].kind = "regular"
  /\ Size[s.documents[p].content] <= MaxDocumentBytes

\* Mutant: the file is read where it is in the worktree.
BlobOf_Worktree(s, p) ==
  IF repo.work[p] = Nothing THEN s.documents[p].content ELSE repo.work[p].content

(* git cat-file, by the object identifier the snapshot binds. *)
BlobOf(s, p) == s.documents[p].content

(* readDocument with the snapshot the caller holds, however old. A caller  *)
(* may ask for a commit whose worktree was dirty, but has to say so.       *)
ReadDocument(p, requireTrackedClean) ==
  /\ snapshot # Nothing
  /\ p \in Allowed
  /\ VerifyReferenceSnapshot(snapshot)
  /\ requireTrackedClean => snapshot.trackedChangeCount = 0
  /\ RegularDocument(snapshot, p)
  /\ Size[BlobOf(snapshot, p)] = Size[snapshot.documents[p].content]
  /\ BlobOf(snapshot, p) \in Text
  /\ evidence' = [commit |-> snapshot.commit, path |-> p,
                  content |-> BlobOf(snapshot, p)]
  /\ UNCHANGED <<repo, changes, capture, snapshot, seen>>

SourceNext ==
  \/ People
  \/ Capture
  \/ \E p \in Allowed, requireTrackedClean \in BOOLEAN :
       ReadDocument(p, requireTrackedClean)

SourceSpec == SourceInit /\ [][SourceNext]_sourceVars

-----------------------------------------------------------------------------
(* Properties *)

Views ==
  [commit : Commit, branch : Branch,
   status : [records : SUBSET SUBSET Path, untracked : BOOLEAN]]

IsSnapshot(s) ==
  /\ [commit |-> s.commit, branch |-> s.branch, status |-> s.status] \in Views
  /\ s.documents \in [Allowed -> Entry]

SourceTypeOK ==
  /\ repo \in [head : Branch, branches : [Branch -> Commit], work : Tree,
               untracked : BOOLEAN]
  /\ changes \in 0..MaxChanges
  /\ capture.pc \in {"idle", "status", "names", "status again", "commit again"}
  /\ capture.pc # "idle" => capture.commit \in Commit
  /\ snapshot # Nothing => IsSnapshot(snapshot)
  /\ evidence \in Evidence \cup {Nothing}
  /\ seen \subseteq Views

\* HEAD was another commit during the capture and came back.
HeadReturned(commit) ==
  /\ HeadCommit(repo) = commit
  /\ \E v \in seen : v.commit # commit

\* A snapshot is of one instant: while it was captured the repository was at
\* its commit with its status, and it was on its branch; unless HEAD left the
\* commit and came back to it, which the two readings cannot tell.
SnapshotIsOfOneInstant ==
  [][snapshot' # snapshot =>
       LET s == snapshot'
       IN  /\ s.commit \in {v.commit : v \in seen}
           /\ s.branch \in {v.branch : v \in seen}
           /\ \/ HeadReturned(s.commit)
              \/ <<s.commit, s.status>> \in {<<v.commit, v.status>> : v \in seen}]_sourceVars

\* A snapshot that is returned is one verifyReferenceSnapshot accepts, so that
\* the caller can use it: a rename may name two allowed files in one record,
\* but then one of them is not in the commit. (HEAD may have left the commit
\* and come back: the changes are counted against another commit then, and
\* there can be more allowed files among them than records.)
SnapshotVerifies ==
  [][snapshot' # snapshot =>
       \/ VerifyReferenceSnapshot(snapshot')
       \/ HeadReturned(snapshot'.commit)]_sourceVars

\* Evidence says what its commit says, whatever the worktree had in it when
\* the snapshot was captured or the document was read, and however old the
\* snapshot was: a regular file of the commit, of text within the limit.
EvidenceIsCommitted ==
  evidence # Nothing =>
    /\ TreeOf[evidence.commit][evidence.path] =
         [kind |-> "regular", content |-> evidence.content]
    /\ evidence.content \in Text
    /\ Size[evidence.content] <= MaxDocumentBytes

=============================================================================
