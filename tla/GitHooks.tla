------------------------------ MODULE GitHooks ------------------------------
(***************************************************************************)
(* The git plugin's hooks and its verify command (internal/cli: hooks.go,  *)
(* verify.go, init.go, lock.go) in one clone: working tree, index, the     *)
(* skip-worktree bits, commits on several branches, and the remote they    *)
(* are pushed to, which teammates push to as well.                         *)
(*                                                                         *)
(* What is protected is said by a config that is itself a tracked file, so *)
(* that the working tree, the index and every commit have one of their     *)
(* own.  The user may bypass pre-commit and post-checkout, amend, merge,   *)
(* force-add the key and push any set of branches; only pre-push is never  *)
(* bypassed.                                                               *)
(*                                                                         *)
(* A file is what the code can tell apart: absent, plain, a symlink (its   *)
(* text is the target), an envelope with its text, key, path and nonce, or *)
(* something else that starts with the envelope's magic bytes.  A manifest *)
(* of k8s_secret_paths holds one value and is described the same way.  git *)
(* itself is modelled by what the hooks rely on; a command is one step.    *)
(***************************************************************************)
EXTENDS Naturals, FiniteSets, Sequences

CONSTANTS
    Files,          \* repo-relative paths a config may protect
    KeyFile,        \* key_source of the file backend, gitignored by init
    Existing,       \* files that are there before init
    Texts,          \* what a file may say
    Branches, Main, \* local branches, each pushed to the remote's namesake
    Configs,        \* contents of .keyfold.yml
    GlobalPatterns, \* patterns of the machine's global config
    NoConfig,       \* no .keyfold.yml
    None,           \* no text, no path
    MaxCommits,     \* bound: commits, the teammates' included
    MaxEdits,       \* bound: changes of the working tree by the user
    MaxSlips,       \* bound: things out of the ordinary, see Slip
    MaxKeys,        \* bound: content keys generated
    MaxNonces       \* bound: times something was sealed

Paths == Files \cup {KeyFile}
Commits == 1..MaxCommits
Keys == 0..MaxKeys

\* An envelope is bound to a path.
Blobs == {blob \in [sort : {"absent", "plain", "link", "magic", "sealed"}, text : Texts \cup {None},
                    key : Keys, path : Files \cup {None}, nonce : 0..MaxNonces] :
             blob.sort = "sealed" => blob.path # None}
Absent == [sort |-> "absent", text |-> None, key |-> 0, path |-> None, nonce |-> 0]
Plain(t) == [Absent EXCEPT !.sort = "plain", !.text = t]
Link(t) == [Absent EXCEPT !.sort = "link", !.text = t]
Magic == [Absent EXCEPT !.sort = "magic"]
KeyBlob(k) == [Absent EXCEPT !.sort = "plain", !.key = k]
Envelope(t, k, p, n) == [sort |-> "sealed", text |-> t, key |-> k, path |-> p, nonce |-> n]

\* What a commit, the index or the working tree holds.
Trees == [config : Configs \cup {NoConfig}, blob : [Paths -> Blobs]]
EmptyTree == [config |-> NoConfig, blob |-> [p \in Paths |-> Absent]]

ASSUME ConstantsAssumption ==
    /\ KeyFile \notin Files
    /\ None \notin Files \cup Texts
    /\ Existing \subseteq Files /\ Texts # {}
    /\ Main \in Branches
    /\ Configs \subseteq [patterns : SUBSET Files, k8s : SUBSET Files, backend : {"file", "gpg"}]
    /\ GlobalPatterns \subseteq Files
    /\ NoConfig \notin Configs
    /\ \A config \in Configs : config.k8s \cap (config.patterns \cup GlobalPatterns) = {}
    /\ MaxCommits \in Nat /\ MaxEdits \in Nat /\ MaxSlips \in Nat /\ MaxKeys \in Nat /\ MaxNonces \in Nat

VARIABLES
    commits,   \* every commit made: its parents, its ancestors and itself, its tree
    branches,  \* branch -> its commit in this clone, 0 when unborn
    head,      \* the branch checked out
    index,     \* the staged tree
    worktree,  \* the working tree
    skip,      \* paths whose skip-worktree bit is set
    known,     \* commits this clone has
    remote,    \* branch -> its commit on the remote, 0 when there is none
    published, \* history: commits that were ever on the remote
    installed, \* whether init has installed the hooks
    generated, \* keys generated
    edits, slips \* used up of MaxEdits and MaxSlips

here == <<branches, head, index, worktree, skip>>
there == <<remote, published>>
vars == <<commits, here, there, known, installed, generated, edits, slips>>

TypeOK ==
    /\ commits \in Seq([parents : SUBSET Commits, history : SUBSET Commits, tree : Trees])
    /\ Len(commits) <= MaxCommits
    /\ branches \in [Branches -> 0..Len(commits)]
    /\ head \in Branches
    /\ index \in Trees
    /\ worktree \in Trees
    /\ skip \subseteq {p \in Files : index.blob[p] # Absent}
    /\ known \subseteq 1..Len(commits)
    /\ remote \in [Branches -> 0..Len(commits)]
    /\ published \subseteq 1..Len(commits)
    /\ installed \in BOOLEAN
    /\ generated \in Keys
    /\ edits \in 0..MaxEdits /\ slips \in 0..MaxSlips

\* What the files of an existing project say when init is run.
First == CHOOSE t \in Texts : TRUE

Init ==
    /\ commits = <<>>
    /\ branches = [b \in Branches |-> 0]
    /\ head = Main
    /\ index = EmptyTree
    /\ worktree = [EmptyTree EXCEPT !.blob = [p \in Paths |-> IF p \in Existing THEN Plain(First)
                                                             ELSE Absent]]
    /\ skip = {}
    /\ known = {}
    /\ remote = [b \in Branches |-> 0]
    /\ published = {}
    /\ installed = FALSE
    /\ generated = 0 /\ edits = 0 /\ slips = 0

-----------------------------------------------------------------------------
(* Envelopes, configs and commits. *)

\* Only the magic bytes.
IsEnvelope(blob) == blob.sort \in {"magic", "sealed"}

\* The structure, without the key.
ParseEnvelope(blob) == blob.sort = "sealed"

\* With the key, for this path of this repository.
openFile(blob, key, p) == blob.sort = "sealed" /\ blob.key = key /\ blob.path = p

\* A config as Load and configAtRevision return it: with the global one merged.
Effective(config) == [config EXCEPT !.patterns = @ \cup GlobalPatterns]

Matches(config, p) == p \in config.patterns

\* A value of a manifest; key 0 asks for the structure only.
lintK8sManifest(blob, key, p) ==
    IF key = 0 THEN ParseEnvelope(blob) ELSE openFile(blob, key, p)

\* The key in key_source, 0 when there is none.
Key == worktree.blob[KeyFile].key

\* What EncryptPaths, DecryptPaths and RotateKeys read: a file that is there, and
\* no symlink.
Readable(blob) == blob.sort \notin {"absent", "link"}

\* No two seals give the same ciphertext.
UsedNonces ==
    UNION {{tree.blob[p].nonce : p \in Files} :
              tree \in {index, worktree} \cup {commits[c].tree : c \in 1..Len(commits)}}
FreshNonces == (1..MaxNonces) \ UsedNonces
Fresh == CHOOSE n \in FreshNonces : \A k \in FreshNonces : n <= k

\* Mutant of sealFile: the path is left out of what is authenticated.
sealUnbound(blob, p) == Envelope(blob.text, Key, None, Fresh)

sealFile(blob, p) == Envelope(blob.text, Key, p, Fresh)

TreeOf(c) == IF c = 0 THEN EmptyTree ELSE commits[c].tree
HistoryOf(c) == IF c = 0 THEN {} ELSE commits[c].history
HEAD == branches[head]

\* A change that is neither a file's nor a symlink's: one in place of the other.
TypeChanged(from, to, p) ==
    /\ from.blob[p] # Absent /\ to.blob[p] # Absent
    /\ (from.blob[p].sort = "link") # (to.blob[p].sort = "link")

\* git diff --diff-filter=ACMR: deletions and type changes are left out.
Changed(from, to) ==
    {p \in Paths : /\ to.blob[p] # Absent /\ to.blob[p] # from.blob[p]
                   /\ ~TypeChanged(from, to, p)}

StagedFiles == Changed(TreeOf(HEAD), index)

\* Mutant of ChangedPaths: diff-tree without -m reports nothing of a merge.
ChangedWithoutMerges(c) ==
    LET parents == commits[c].parents
    IN CASE parents = {} -> Changed(EmptyTree, TreeOf(c))
         [] Cardinality(parents) = 1 -> UNION {Changed(TreeOf(q), TreeOf(c)) : q \in parents}
         [] OTHER -> {}

\* diff-tree --root -m: a merge is compared with each of its parents.
ChangedPaths(c) ==
    IF commits[c].parents = {} THEN Changed(EmptyTree, TreeOf(c))
    ELSE UNION {Changed(TreeOf(q), TreeOf(c)) : q \in commits[c].parents}

\* Mutant of RevList: the tip alone.
TipOnly(old, new) == {new}

\* The commits of old..new, all of new's history when old is the zero id.
RevList(old, new) == HistoryOf(new) \ HistoryOf(old)

\* update-index --skip-worktree fails, unnoticed, on what is not tracked.
Tracked(tree, S) == {p \in S : tree.blob[p] # Absent}

\* Files git lists: tracked, or untracked and not ignored.
LsFiles == {p \in Files : index.blob[p] # Absent \/ worktree.blob[p] # Absent}
MatchedFiles == {p \in LsFiles : Matches(Effective(worktree.config), p)}

\* Whether the config of commit c, as merged, covers p.
Protects(c, p) ==
    LET config == TreeOf(c).config
    IN config # NoConfig /\ (Matches(Effective(config), p) \/ p \in config.k8s)

-----------------------------------------------------------------------------
(* Verification. *)

\* Mutant of VerifyAtRevision: the structural check is thought to be enough.
VerifyStructure(c) ==
    {p \in Files : /\ TreeOf(c).config # NoConfig
                   /\ Matches(Effective(TreeOf(c).config), p)
                   /\ TreeOf(c).blob[p] # Absent
                   /\ ~ParseEnvelope(TreeOf(c).blob[p])}

\* The paths of a commit's whole tree that its own config protects and the
\* current key does not open, and the raw key.
VerifyAtRevision(c) ==
    LET tree == TreeOf(c)
        config == Effective(tree.config)
    IN IF tree.config = NoConfig THEN {}
       ELSE {p \in Files : /\ tree.blob[p] # Absent
                           /\ \/ (Matches(config, p) /\ ~openFile(tree.blob[p], Key, p))
                              \/ p \in config.k8s /\ ~lintK8sManifest(tree.blob[p], Key, p)}
            \cup {p \in {KeyFile} : config.backend = "file" /\ tree.blob[p] # Absent}

\* Mutant of verifyCommitStructurally: the raw key is looked for in HEAD only.
verifyFilesStructurally(c) ==
    LET tree == TreeOf(c)
    IN IF tree.config = NoConfig THEN {}
       ELSE {p \in ChangedPaths(c) \cap Files : Protects(c, p) /\ ~ParseEnvelope(tree.blob[p])}

\* The same of the paths a commit changes, by structure alone.
verifyCommitStructurally(c) ==
    LET tree == TreeOf(c)
        config == Effective(tree.config)
        Bad(p) == \/ p \in config.k8s /\ ~lintK8sManifest(tree.blob[p], 0, p)
                  \/ p \notin config.k8s /\ Matches(config, p) /\ ~ParseEnvelope(tree.blob[p])
                  \/ p = KeyFile /\ config.backend = "file"
    IN IF tree.config = NoConfig THEN {} ELSE {p \in ChangedPaths(c) : Bad(p)}

\* verify fails closed without the key.
Verified(c) == TreeOf(c).config # NoConfig => Key # 0 /\ VerifyAtRevision(c) = {}

\* Whether pre-push lets the branches in S go.  It reads the config first, and
\* rev-list fails for a remote commit this clone does not have.
HookPrePush(S) ==
    /\ worktree.config # NoConfig
    /\ Verified(HEAD)
    /\ \A b \in S : /\ remote[b] = 0 \/ remote[b] \in known
                    /\ \A c \in RevList(remote[b], branches[b]) : verifyCommitStructurally(c) = {}

-----------------------------------------------------------------------------
(* The plugin's commands. *)

\* Out of the ordinary, when so: a hook bypassed, git forced, history rewritten, an
\* envelope copied to another path, a key rotated.
Slip(so) == IF so THEN slips < MaxSlips /\ slips' = slips + 1 ELSE UNCHANGED slips

InstallHooks == installed' = TRUE

\* init: a config unless there is one, a key unless there is one, the hooks.  Run
\* where all three are, it changes nothing.
InitRepository(config) ==
    /\ worktree.config \in {NoConfig, config}
    /\ ~installed \/ worktree.config = NoConfig \/ Key = 0
    /\ Key = 0 => generated < MaxKeys
    /\ worktree' = [config |-> config,
                    blob |-> [worktree.blob EXCEPT
                                 ![KeyFile] = IF Key = 0 THEN KeyBlob(generated + 1) ELSE @]]
    /\ generated' = IF Key = 0 THEN generated + 1 ELSE generated
    /\ InstallHooks
    /\ UNCHANGED <<commits, branches, head, index, skip, there, known, edits, slips>>

\* The working tree after done have been rewritten.
Rewritten(done, blobs) ==
    [worktree EXCEPT !.blob = [p \in Paths |-> IF p \in done THEN blobs[p] ELSE @[p]]]

\* The paths of todo dealt with when the first that fails ends the command: which
\* ones come before it depends on the order git lists them in.
Dealt(todo, failing, done) == done \subseteq todo /\ (failing = {} => done = todo)

\* EncryptPaths over the matched files: one that is missing or a symlink ends it.
Lock ==
    /\ worktree.config # NoConfig /\ Key # 0
    /\ LET todo == {p \in MatchedFiles : Readable(worktree.blob[p]) /\ ~IsEnvelope(worktree.blob[p])}
           failing == {p \in MatchedFiles : ~Readable(worktree.blob[p])}
           blobs == [p \in todo |-> sealFile(worktree.blob[p], p)]
       IN /\ todo # {} /\ FreshNonces # {}
          /\ \E done \in SUBSET todo :
                /\ Dealt(todo, failing, done)
                /\ worktree' = Rewritten(done, blobs)
                /\ skip' = skip \ done
    /\ UNCHANGED <<commits, branches, head, index, there, known, installed, generated, edits, slips>>

\* DecryptPaths over the matched files of a working tree: what may be done of it.
Decrypted(tree, done) ==
    [tree EXCEPT !.blob = [p \in Paths |-> IF p \in done THEN Plain(@[p].text) ELSE @[p]]]

MayDecrypt(tree, staged, done) ==
    LET listed == {p \in Files : staged.blob[p] # Absent \/ tree.blob[p] # Absent}
        matched == {p \in listed : Matches(Effective(tree.config), p)}
        key == tree.blob[KeyFile].key
        todo == {p \in matched : openFile(tree.blob[p], key, p)}
        failing == {p \in matched : \/ ~Readable(tree.blob[p])
                                    \/ IsEnvelope(tree.blob[p]) /\ p \notin todo}
    IN IF tree.config = NoConfig \/ key = 0 THEN done = {} ELSE Dealt(todo, failing, done)

Unlock ==
    \E done \in SUBSET Files :
        /\ done # {}
        /\ MayDecrypt(worktree, index, done)
        /\ worktree' = Decrypted(worktree, done)
        /\ skip' = skip \cup Tracked(index, done)
        /\ UNCHANGED <<commits, branches, head, index, there, known, installed, generated, edits, slips>>

\* RotateKeys, run to its end.  Every matched file and every manifest must be
\* there, be no symlink, and open if it is sealed.  The matched files and the
\* sealed values are sealed anew, in the working tree and in the index.
RotateKeys ==
    /\ worktree.config # NoConfig /\ Key # 0
    /\ generated < MaxKeys /\ FreshNonces # {}
    /\ \A p \in MatchedFiles \cup worktree.config.k8s :
          /\ Readable(worktree.blob[p])
          /\ IsEnvelope(worktree.blob[p]) => openFile(worktree.blob[p], Key, p)
    /\ LET new == generated + 1
           rotated == MatchedFiles \cup {p \in worktree.config.k8s : IsEnvelope(worktree.blob[p])}
           Resealed(tree) ==
               [tree EXCEPT !.blob = [p \in Paths |->
                   IF p \in rotated THEN Envelope(worktree.blob[p].text, new, p, Fresh) ELSE @[p]]]
       IN /\ worktree' = [Resealed(worktree) EXCEPT !.blob[KeyFile] = KeyBlob(new)]
          /\ index' = Resealed(index)
          /\ generated' = new
          /\ skip' = skip \ rotated
    /\ Slip(TRUE)
    /\ UNCHANGED <<commits, branches, head, there, known, installed, edits>>

\* kubectl keyfold encrypt-value, its output pasted into the manifest.
EncryptK8sValue(p) ==
    /\ worktree.config # NoConfig /\ p \in worktree.config.k8s
    /\ Key # 0 /\ FreshNonces # {}
    /\ worktree.blob[p].sort = "plain"
    /\ worktree' = [worktree EXCEPT !.blob[p] = sealFile(worktree.blob[p], p)]
    /\ UNCHANGED <<commits, branches, head, index, skip, there, known, installed, generated, edits, slips>>

-----------------------------------------------------------------------------
(* The user's git commands and the hooks they run. *)

\* What a user may make of a file, besides a copy of another.
Contents == {Plain(t) : t \in Texts} \cup {Link(t) : t \in Texts} \cup {Absent, Magic}

Edit(p, blob) ==
    /\ edits < MaxEdits /\ edits' = edits + 1
    /\ worktree' = [worktree EXCEPT !.blob[p] = blob]
    /\ Slip(IsEnvelope(blob))
    /\ UNCHANGED <<commits, branches, head, index, skip, there, known, installed, generated>>

EditConfig(config) ==
    /\ installed /\ worktree.config # config
    /\ edits < MaxEdits /\ edits' = edits + 1
    /\ worktree' = [worktree EXCEPT !.config = config]
    /\ UNCHANGED <<commits, branches, head, index, skip, there, known, installed, generated, slips>>

\* git add, which leaves a skip-worktree path alone.  Of KeyFile: git add -f.
Stage(p) ==
    /\ p \notin skip /\ index.blob[p] # worktree.blob[p]
    /\ index' = [index EXCEPT !.blob[p] = worktree.blob[p]]
    /\ Slip(p = KeyFile)
    /\ UNCHANGED <<commits, branches, head, worktree, skip, there, known, installed, generated, edits>>

StageConfig ==
    /\ index.config # worktree.config
    /\ index' = [index EXCEPT !.config = worktree.config]
    /\ UNCHANGED <<commits, branches, head, worktree, skip, there, known, installed, generated, edits, slips>>

\* git rm --cached.
Untrack(p) ==
    /\ index.blob[p] # Absent
    /\ index' = [index EXCEPT !.blob[p] = Absent]
    /\ skip' = skip \ {p}
    /\ Slip(TRUE)
    /\ UNCHANGED <<commits, branches, head, worktree, there, known, installed, generated, edits>>

\* What pre-commit seals: the staged files its config matches, unless they
\* start with the magic bytes.  The config is the working tree's.
ToSeal == {p \in StagedFiles \cap Files : /\ Matches(Effective(worktree.config), p)
                                          /\ ~IsEnvelope(index.blob[p])}

SealedIndex(done) ==
    [index EXCEPT !.blob = [p \in Paths |-> IF p \in done THEN sealFile(@[p], p) ELSE @[p]]]

\* The manifests of tree that pre-commit refuses.
Leaks(tree) ==
    {p \in StagedFiles \cap worktree.config.k8s : ~lintK8sManifest(tree.blob[p], Key, p)}

NewCommit(parents, tree) ==
    /\ Len(commits) < MaxCommits
    /\ LET c == Len(commits) + 1
       IN /\ commits' = Append(commits, [parents |-> parents, tree |-> tree,
                                         history |-> {c} \cup UNION {HistoryOf(q) : q \in parents}])
          /\ known' = known \cup {c}
          /\ branches' = [branches EXCEPT ![head] = c]

\* The parents of the commit that git commit, or git commit --amend, makes.
ParentsFor(amend) ==
    IF HEAD = 0 THEN {} ELSE IF amend THEN commits[HEAD].parents ELSE {HEAD}

SomethingToCommit(amend) == IF amend THEN HEAD # 0 ELSE index # TreeOf(HEAD)

\* git commit with its hook: what is staged and matched is sealed in the index,
\* its skip-worktree bit set, and the manifests are linted.
CommitHooked(amend) ==
    /\ installed /\ SomethingToCommit(amend)
    /\ worktree.config # NoConfig /\ Key # 0
    /\ ToSeal # {} => FreshNonces # {}
    /\ Leaks(SealedIndex(ToSeal)) = {}
    /\ index' = SealedIndex(ToSeal)
    /\ skip' = skip \cup ToSeal
    /\ NewCommit(ParentsFor(amend), index')
    /\ Slip(amend)
    /\ UNCHANGED <<head, worktree, there, installed, generated, edits>>

\* A hook that fails, at the lint or at a call to git, has sealed what it came to.
CommitRefused ==
    /\ installed /\ SomethingToCommit(FALSE)
    /\ worktree.config # NoConfig /\ Key # 0 /\ FreshNonces # {}
    /\ \E done \in SUBSET ToSeal :
          /\ done # {}
          /\ done = ToSeal => Leaks(SealedIndex(done)) # {}
          /\ index' = SealedIndex(done)
          /\ skip' = skip \cup done
    /\ UNCHANGED <<commits, branches, head, worktree, there, known, installed, generated, edits, slips>>

\* git commit --no-verify, or before init.
CommitUnhooked(amend) ==
    /\ SomethingToCommit(amend)
    /\ NewCommit(ParentsFor(amend), index)
    /\ Slip(TRUE)
    /\ UNCHANGED <<head, index, worktree, skip, there, installed, generated, edits>>

\* git's two-way update to another tree: refused when it would overwrite
\* something that is not in HEAD, be its skip-worktree bit set or not, unless
\* it is an ignored file.
MayUpdateTo(tree) ==
    LET old == TreeOf(HEAD)
    IN /\ \A p \in Paths : old.blob[p] # tree.blob[p] =>
              /\ index.blob[p] = old.blob[p]
              /\ (p = KeyFile /\ old.blob[p] = Absent) \/ worktree.blob[p] = index.blob[p]
       /\ old.config # tree.config =>
              index.config = old.config /\ worktree.config = index.config

Updated(from, tree) ==
    LET old == TreeOf(HEAD)
    IN [config |-> IF old.config # tree.config THEN tree.config ELSE from.config,
        blob |-> [p \in Paths |-> IF old.blob[p] # tree.blob[p] THEN tree.blob[p]
                                  ELSE from.blob[p]]]

\* The working tree and the index move to tree, then post-checkout or post-merge
\* decrypts unless it is skipped.
MoveTo(tree, hooked) ==
    /\ MayUpdateTo(tree)
    /\ index' = Updated(index, tree)
    /\ \E done \in SUBSET Files :
          /\ IF hooked /\ installed THEN MayDecrypt(Updated(worktree, tree), index', done)
             ELSE done = {}
          /\ worktree' = Decrypted(Updated(worktree, tree), done)
          /\ skip' = Tracked(index', skip \cup done)

Branch(b) ==
    /\ branches[b] = 0 /\ HEAD # 0
    /\ branches' = [branches EXCEPT ![b] = HEAD]
    /\ UNCHANGED <<commits, head, index, worktree, skip, there, known, installed, generated, edits, slips>>

Checkout(b, hooked) ==
    /\ b # head /\ branches[b] # 0
    /\ head' = b
    /\ MoveTo(TreeOf(branches[b]), hooked)
    /\ Slip(~hooked)
    /\ UNCHANGED <<commits, branches, there, known, installed, generated, edits>>

\* git checkout -- p, which passes over skip-worktree paths and runs post-checkout.
Restore(p, hooked) ==
    /\ Slip(~hooked)
    /\ p \notin skip /\ index.blob[p] # Absent /\ worktree.blob[p] # index.blob[p]
    /\ LET tree == [worktree EXCEPT !.blob[p] = index.blob[p]]
       IN \E done \in SUBSET Files :
             /\ IF hooked /\ installed THEN MayDecrypt(tree, index, done) ELSE done = {}
             /\ worktree' = Decrypted(tree, done)
             /\ skip' = skip \cup Tracked(index, done)
    /\ UNCHANGED <<commits, branches, head, index, there, known, installed, generated, edits>>

FastForward(c, hooked) ==
    /\ c \notin HistoryOf(HEAD) /\ HEAD \in HistoryOf(c)
    /\ branches' = [branches EXCEPT ![head] = c]
    /\ MoveTo(TreeOf(c), hooked)
    /\ Slip(~hooked)
    /\ UNCHANGED <<commits, head, there, known, installed, generated, edits>>

\* What a merge of c may result in: of each path that differs one side's blob, or
\* a resolution in plaintext of those in plain.
MergedTrees(c, plain) ==
    LET ours == TreeOf(HEAD)
        theirs == TreeOf(c)
        differ == {p \in Paths : ours.blob[p] # theirs.blob[p]}
    IN {[config |-> config,
         blob |-> [p \in Paths |-> IF p \in plain \cap differ THEN Plain(t)
                                   ELSE IF p \in differ THEN side[p].blob[p]
                                   ELSE ours.blob[p]]] :
        side \in [differ -> {ours, theirs}], t \in Texts, config \in {ours.config, theirs.config}}

\* A merge commit, --no-ff included.  pre-commit does not run for a clean merge,
\* and is bypassed for one that resolves a conflict in plaintext.
Merge(c, hooked) ==
    /\ HEAD # 0 /\ c \notin HistoryOf(HEAD) /\ HistoryOf(HEAD) \cap HistoryOf(c) # {}
    /\ index = TreeOf(HEAD)
    /\ \E plain \in SUBSET Files :
          /\ Slip(~hooked \/ plain # {})
          /\ \E tree \in MergedTrees(c, plain) : NewCommit({HEAD, c}, tree) /\ MoveTo(tree, hooked)
    /\ UNCHANGED <<head, there, installed, generated, edits>>

\* git push of the branches in S, forced or not.
Push(S) ==
    /\ S # {} /\ \A b \in S : branches[b] # 0 /\ remote[b] # branches[b]
    /\ installed => HookPrePush(S)
    /\ remote' = [b \in Branches |-> IF b \in S THEN branches[b] ELSE remote[b]]
    /\ published' = published \cup UNION {HistoryOf(branches[b]) : b \in S}
    /\ Slip(\E b \in S : HistoryOf(remote[b]) \ HistoryOf(branches[b]) # {})
    /\ UNCHANGED <<commits, here, known, installed, generated, edits>>

\* git push --delete: nothing is pushed, HEAD is verified all the same.
DeleteRemote(b) ==
    /\ remote[b] # 0
    /\ installed => HookPrePush({})
    /\ remote' = [remote EXCEPT ![b] = 0]
    /\ Slip(TRUE)
    /\ UNCHANGED <<commits, here, published, known, installed, generated, edits>>

\* A teammate commits a change of p, sealed by their hook, and pushes it.  Their
\* hook would not seal what they put in place of a symlink.
TeammatePush(b, p) ==
    /\ remote[b] # 0 /\ Len(commits) < MaxCommits
    /\ generated # 0 /\ FreshNonces # {} /\ Protects(remote[b], p)
    /\ TreeOf(remote[b]).blob[p].sort # "link"
    /\ LET c == Len(commits) + 1
       IN /\ \E t \in Texts :
                commits' = Append(commits,
                    [parents |-> {remote[b]}, history |-> {c} \cup HistoryOf(remote[b]),
                     tree |-> [TreeOf(remote[b]) EXCEPT
                                  !.blob[p] = Envelope(t, generated, p, Fresh)]])
          /\ remote' = [remote EXCEPT ![b] = c]
          /\ published' = published \cup {c}
    /\ UNCHANGED <<here, known, installed, generated, edits, slips>>

Fetch ==
    /\ known # known \cup published
    /\ known' = known \cup published
    /\ UNCHANGED <<commits, here, there, installed, generated, edits, slips>>

-----------------------------------------------------------------------------
Plugin ==
    \/ \E config \in Configs : InitRepository(config)
    \/ Lock \/ Unlock \/ RotateKeys
    \/ \E p \in Files : EncryptK8sValue(p)

User ==
    \/ \E p \in Files : \E blob \in Contents : Edit(p, blob)
    \/ \E p, q \in Files : p # q /\ worktree.blob[q] # Absent /\ Edit(p, worktree.blob[q])
    \/ \E config \in Configs : EditConfig(config)
    \/ \E p \in Paths : Stage(p)
    \/ StageConfig
    \/ \E p \in Paths : Untrack(p)
    \/ \E amend \in BOOLEAN : CommitHooked(amend) \/ CommitUnhooked(amend)
    \/ CommitRefused
    \/ \E b \in Branches : Branch(b) \/ DeleteRemote(b)
    \/ \E b \in Branches, hooked \in BOOLEAN : Checkout(b, hooked)
    \/ \E p \in Files, hooked \in BOOLEAN : Restore(p, hooked)
    \/ \E c \in known, hooked \in BOOLEAN : FastForward(c, hooked) \/ Merge(c, hooked)
    \/ \E S \in SUBSET Branches : Push(S)
    \/ Fetch

Next ==
    \/ Plugin
    \/ User
    \/ \E b \in Branches, p \in Files : TeammatePush(b, p)

Spec == Init /\ [][Next]_vars

-----------------------------------------------------------------------------
(* Properties. *)

\* Whether commit c has a file where one of its parents has a symlink.
ReplacesLink(c, p) ==
    /\ TreeOf(c).blob[p].sort \notin {"absent", "link"}
    /\ \E q \in commits[c].parents : TreeOf(q).blob[p].sort = "link"

\* However commits are made, amended, merged and fixed later, and whatever is
\* pushed in whichever order: the text of a file that every commit of its history
\* protects is never on the remote, unless a commit of that history put the file
\* in place of a symlink, which neither pre-commit nor pre-push gets to see
\* (gitutil.go:72, gitutil.go:85; HookPrePush, hooks.go:125-141).
NothingLeaks ==
    \A c \in published, p \in Files :
        (\A a \in commits[c].history : Protects(a, p) /\ ~ReplacesLink(a, p)) =>
            commits[c].tree.blob[p].sort \in {"absent", "link", "sealed"}

\* The raw key of the file backend is never on the remote, force-added or not, in
\* a history that has had that backend throughout (verify.go:77-80).
KeyStaysHome ==
    \A c \in published :
        (\A a \in commits[c].history : /\ TreeOf(a).config # NoConfig
                                       /\ TreeOf(a).config.backend = "file") =>
            commits[c].tree.blob[KeyFile] = Absent

\* Whoever has the key can open what a push of the branch checked out leaves on
\* the remote, each envelope at its own path: no blob of an older key, no envelope
\* that was moved, nothing that only looks like one.
PushedHeadOpens ==
    [][ \A p \in Files :
          (installed /\ remote' # remote /\ remote'[head] = HEAD /\ remote[head] # HEAD) =>
              (Protects(HEAD, p) => LET blob == TreeOf(HEAD).blob[p]
                                    IN blob = Absent \/ openFile(blob, Key, p)) ]_vars

\* HookPrePush's comment (hooks.go:125-128): the push is blocked if any file that a
\* pushed commit's config matches is plaintext in it.
PushedIsProtected ==
    \A c \in published, p \in Files :
        Protects(c, p) => TreeOf(c).blob[p].sort \in {"absent", "sealed"}

\* The same of a file that was protected all along, symlinks included.
HistoryIsProtected ==
    \A c \in published, p \in Files :
        (\A a \in commits[c].history : Protects(a, p)) =>
            TreeOf(c).blob[p].sort \in {"absent", "link", "sealed"}

\* HookPreCommit's comment (hooks.go:66-71): after a commit a file stays hidden from
\* git status "exactly as it was before": no edit that git status showed is hidden
\* by it.
CommitHidesNoEdit ==
    [][ (Len(commits') # Len(commits) /\ worktree' = worktree) =>
          \A p \in skip' \ skip : worktree.blob[p].text = index.blob[p].text ]_vars
=============================================================================
