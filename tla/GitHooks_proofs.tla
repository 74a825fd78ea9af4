--------------------------- MODULE GitHooks_proofs ---------------------------
(***************************************************************************)
(* Proofs about GitHooks.  Whether a commit may leave the clone is decided *)
(* by pre-push one commit at a time, from what the commit changes against  *)
(* its parents; the promise is about what every pushed commit holds.  The  *)
(* bridge is WitnessInv: a commit that holds something it must not has, in *)
(* its history, a commit that pre-push refuses.                            *)
(***************************************************************************)
EXTENDS GitHooks, WellFoundedInduction, TLAPS

Made == 1..Len(commits)

\* A commit's history is itself and its parents' histories, made before it.
HistoryInv ==
    \A c \in Made :
        /\ commits[c].parents \subseteq 1..(c - 1)
        /\ commits[c].history = {c} \cup UNION {commits[q].history : q \in commits[c].parents}
        /\ commits[c].history \subseteq 1..c
        /\ \A a \in commits[c].history : commits[a].history \subseteq commits[c].history

\* What was ever on the remote was there with its history, and passes pre-push's
\* structural check.
PublishedInv ==
    /\ \A b \in Branches : remote[b] # 0 => remote[b] \in published
    /\ \A c \in published : /\ commits[c].history \subseteq published
                            /\ verifyCommitStructurally(c) = {}

\* Before init there is no config anywhere: pushes are not verified, and nothing is
\* protected.
BeforeInit ==
    ~installed => /\ worktree.config = NoConfig /\ index.config = NoConfig
                  /\ \A c \in Made : commits[c].tree.config = NoConfig

\* Whether every commit of c's history has the file backend.
KeptInAFile(c) ==
    \A a \in commits[c].history :
        TreeOf(a).config # NoConfig /\ TreeOf(a).config.backend = "file"

\* Whether every commit of c's history protects p, and none put it in place of a
\* symlink.
AlwaysProtected(c, p) == \A a \in commits[c].history : Protects(a, p) /\ ~ReplacesLink(a, p)

\* A commit that pre-push refuses because of p.
Refused(c, p) == \E a \in commits[c].history : p \in verifyCommitStructurally(a)

\* Plaintext of what was protected throughout goes back to a commit that is refused
\* because of it, and so does the raw key.
WitnessInv ==
    \A c \in Made :
        /\ \A p \in Files :
              AlwaysProtected(c, p) => \/ commits[c].tree.blob[p].sort \in {"absent", "link", "sealed"}
                                       \/ Refused(c, p)
        /\ KeptInAFile(c) => \/ commits[c].tree.blob[KeyFile] = Absent
                             \/ Refused(c, KeyFile)

IInv == TypeOK /\ HistoryInv /\ PublishedInv /\ BeforeInit /\ WitnessInv

-----------------------------------------------------------------------------
(* Blobs, trees and nonces. *)

LEMMA BlobTypes ==
    /\ Absent \in Blobs /\ Contents \subseteq Blobs
    /\ \A t \in Texts \cup {None} : Plain(t) \in Blobs /\ Plain(t) # Absent
    /\ \A k \in Keys : KeyBlob(k) \in Blobs
    /\ \A t \in Texts \cup {None}, k \in Keys, p \in Files, n \in 0..MaxNonces :
          Envelope(t, k, p, n) \in Blobs
    /\ \A t, k, p, n : Envelope(t, k, p, n) # Absent /\ Envelope(t, k, p, n).sort = "sealed"
<1>1. 0 \in Keys /\ 0 \in 0..MaxNonces /\ MaxNonces \in Nat /\ None \notin Files
  BY ConstantsAssumption DEF Keys
<1>2. Absent \in Blobs /\ Absent.sort = "absent"
  BY <1>1 DEF Absent, Blobs
<1>3. Magic \in Blobs
  BY <1>2 DEF Magic, Blobs
<1>4. \A t \in Texts \cup {None} : Plain(t) \in Blobs /\ Plain(t) # Absent
  BY <1>2 DEF Plain, Blobs
<1>5. \A t \in Texts : Link(t) \in Blobs
  BY <1>2 DEF Link, Blobs
<1>6. \A k \in Keys : KeyBlob(k) \in Blobs
  BY <1>2 DEF KeyBlob, Blobs
<1>7. \A t, k, p, n : Envelope(t, k, p, n) # Absent /\ Envelope(t, k, p, n).sort = "sealed"
  BY <1>2 DEF Envelope
<1>8. \A t \in Texts \cup {None}, k \in Keys, p \in Files, n \in 0..MaxNonces :
          Envelope(t, k, p, n) \in Blobs
  BY <1>1 DEF Envelope, Blobs
<1>9. Contents \subseteq Blobs
  BY <1>2, <1>3, <1>4, <1>5 DEF Contents
<1> QED BY <1>2, <1>4, <1>6, <1>7, <1>8, <1>9

LEMMA TreeTypes ==
    /\ EmptyTree \in Trees
    /\ \A tree \in Trees, p \in Paths, blob \in Blobs : [tree EXCEPT !.blob[p] = blob] \in Trees
    /\ \A tree \in Trees, config \in Configs \cup {NoConfig} : [tree EXCEPT !.config = config] \in Trees
BY BlobTypes DEF Trees, EmptyTree

LEMMA FreshTyped ==
    ASSUME FreshNonces # {} PROVE Fresh \in 1..MaxNonces
<1>1. MaxNonces \in Nat
  BY ConstantsAssumption
<1>2. FreshNonces \subseteq Nat
  BY <1>1 DEF FreshNonces
<1> DEFINE less == OpToRel(<, Nat)
<1>3. IsWellFoundedOn(less, Nat)
  BY NatLessThanWellFounded, Zenon
<1>4. \A k, n \in Nat : k < n => <<k, n>> \in less
  BY DEF OpToRel
<1> HIDE DEF less
<1>5. PICK n \in FreshNonces : \A k \in FreshNonces : <<k, n>> \notin less
  BY <1>2, <1>3, WFMin
<1>6. ASSUME NEW k \in FreshNonces PROVE n <= k
  <2>1. k \in Nat /\ n \in Nat
    BY <1>2
  <2>2. ~(k < n)
    BY <1>4, <1>5, <2>1, Zenon
  <2> QED BY <2>1, <2>2
<1>7. Fresh \in FreshNonces
  BY <1>6 DEF Fresh
<1> QED BY <1>7 DEF FreshNonces

\* Sealing under a key of the clone, where there is a nonce left, gives a blob.
LEMMA SealTyped ==
    ASSUME TypeOK, FreshNonces # {},
           NEW blob \in Blobs, NEW key \in Keys, NEW p \in Files
    PROVE  Envelope(blob.text, key, p, Fresh) \in Blobs
<1>1. blob.text \in Texts \cup {None}
  BY DEF Blobs
<1>2. Fresh \in 0..MaxNonces
  BY FreshTyped, ConstantsAssumption
<1> QED BY <1>1, <1>2, BlobTypes

LEMMA KeyTyped ==
    ASSUME TypeOK PROVE Key \in Keys /\ KeyFile \in Paths /\ Files \subseteq Paths
BY DEF TypeOK, Key, Trees, Blobs, Paths

-----------------------------------------------------------------------------
(* Types.  The repository's part of the state, and the clone's. *)

CommitRecords == [parents : SUBSET Commits, history : SUBSET Commits, tree : Trees]

RepoTypes ==
    /\ commits \in Seq(CommitRecords)
    /\ Len(commits) <= MaxCommits
    /\ branches \in [Branches -> 0..Len(commits)]
    /\ known \subseteq 1..Len(commits)
    /\ remote \in [Branches -> 0..Len(commits)]
    /\ published \subseteq 1..Len(commits)

StagedPaths == {p \in Files : index.blob[p] # Absent}

CloneTypes ==
    /\ head \in Branches
    /\ index \in Trees
    /\ worktree \in Trees
    /\ skip \subseteq StagedPaths
    /\ installed \in BOOLEAN
    /\ generated \in Keys
    /\ edits \in 0..MaxEdits /\ slips \in 0..MaxSlips

LEMMA TwoParts == TypeOK <=> RepoTypes /\ CloneTypes
BY DEF TypeOK, RepoTypes, CloneTypes, CommitRecords, StagedPaths

LEMMA TwoPartsNext == TypeOK' <=> RepoTypes' /\ CloneTypes'
BY DEF TypeOK, RepoTypes, CloneTypes, CommitRecords, StagedPaths

LEMMA RepoStays ==
    ASSUME RepoTypes, UNCHANGED <<commits, branches, known, remote, published>>
    PROVE  RepoTypes'
BY DEF RepoTypes

\* Pointing one branch elsewhere, at a commit that may have been added.
LEMMA RepointTyped ==
    ASSUME NEW n \in Nat, NEW m \in Nat, n <= m, NEW f \in [Branches -> 0..n], NEW b, NEW c \in 0..m
    PROVE  [f EXCEPT ![b] = c] \in [Branches -> 0..m]
<1>1. \A d \in Branches : f[d] \in 0..m
  BY SMT
<1> QED BY <1>1

LEMMA CommitFields ==
    ASSUME RepoTypes, NEW c \in Made
    PROVE  /\ commits[c] \in CommitRecords
           /\ commits[c].parents \subseteq Commits
           /\ commits[c].history \subseteq Commits
           /\ commits[c].tree \in Trees
           /\ c \in Nat /\ c # 0
           /\ TreeOf(c) = commits[c].tree
           /\ HistoryOf(c) = commits[c].history
<1>1. commits[c] \in CommitRecords /\ c \in Nat /\ c # 0
  BY DEF RepoTypes, Made
<1> QED BY <1>1 DEF CommitRecords, TreeOf, HistoryOf

LEMMA TreeTyped ==
    ASSUME RepoTypes, NEW c \in 0..Len(commits) PROVE TreeOf(c) \in Trees
<1>1. CASE c = 0
  BY <1>1, TreeTypes DEF TreeOf
<1>2. CASE c # 0
  <2>1. c \in Made
    BY <1>2 DEF RepoTypes, Made
  <2> QED BY <2>1, CommitFields
<1> QED BY <1>1, <1>2

LEMMA HeadTyped ==
    ASSUME TypeOK PROVE HEAD \in 0..Len(commits) /\ TreeOf(HEAD) \in Trees
<1>1. HEAD \in 0..Len(commits) /\ RepoTypes
  BY DEF TypeOK, HEAD, RepoTypes, CommitRecords
<1> QED BY <1>1, TreeTyped

\* What Decrypted makes of a tree.
LEMMA DecryptedTyped ==
    ASSUME NEW tree \in Trees, NEW done
    PROVE  Decrypted(tree, done) \in Trees /\ Decrypted(tree, done).config = tree.config
<1>1. tree.config \in Configs \cup {NoConfig} /\ tree.blob \in [Paths -> Blobs]
  BY DEF Trees
<1>2. \A p \in Paths : tree.blob[p].text \in Texts \cup {None}
  BY <1>1 DEF Blobs
<1>3. [p \in Paths |-> IF p \in done THEN Plain(tree.blob[p].text) ELSE tree.blob[p]] \in [Paths -> Blobs]
  BY <1>1, <1>2, BlobTypes
<1> QED BY <1>1, <1>3 DEF Decrypted, Trees

LEMMA UpdatedTyped ==
    ASSUME TypeOK, NEW from \in Trees, NEW tree \in Trees
    PROVE  /\ Updated(from, tree) \in Trees
           /\ Updated(from, tree).config \in {from.config, tree.config}
BY HeadTyped DEF Updated, Trees

\* What a checkout or a merge does to the clone, whichever way the hook goes.
Moved(tree) ==
    /\ index' = Updated(index, tree)
    /\ \E done \in SUBSET Files :
          /\ worktree' = Decrypted(Updated(worktree, tree), done)
          /\ skip' = Tracked(index', skip \cup done)

LEMMA MovedTypes ==
    ASSUME TypeOK, NEW tree \in Trees, Moved(tree)
    PROVE  /\ index' \in Trees /\ worktree' \in Trees /\ skip' \subseteq StagedPaths'
           /\ index'.config \in {index.config, tree.config}
           /\ worktree'.config \in {worktree.config, tree.config}
<1>1. index \in Trees /\ worktree \in Trees /\ skip \subseteq Files
  BY DEF TypeOK
<1>2. PICK done \in SUBSET Files : /\ worktree' = Decrypted(Updated(worktree, tree), done)
                                  /\ skip' = Tracked(index', skip \cup done)
  BY DEF Moved
<1>3. skip' \subseteq StagedPaths'
  BY <1>1, <1>2 DEF Tracked, StagedPaths
<1>4. index' \in Trees /\ index'.config \in {index.config, tree.config}
  BY <1>1, UpdatedTyped DEF Moved
<1>5. worktree' \in Trees /\ worktree'.config \in {worktree.config, tree.config}
  BY <1>1, <1>2, UpdatedTyped, DecryptedTyped
<1> QED BY <1>3, <1>4, <1>5

-----------------------------------------------------------------------------
(* Steps that leave every commit, here and there, as it is. *)

Unconfigured == ~installed => worktree.config = NoConfig /\ index.config = NoConfig

\* The clone's types, once what a step does to each part is known.
LEMMA CloneStep ==
    ASSUME TypeOK, BeforeInit,
           head' \in Branches, index' \in Trees, worktree' \in Trees,
           skip' \subseteq StagedPaths', installed' \in BOOLEAN, generated' \in Keys,
           edits' \in 0..MaxEdits, slips' \in 0..MaxSlips,
           \/ installed'
           \/ /\ ~installed
              /\ worktree'.config \in {worktree.config, index.config}
              /\ index'.config \in {worktree.config, index.config}
    PROVE  CloneTypes' /\ Unconfigured'
BY DEF CloneTypes, Unconfigured, BeforeInit

LEMMA SlipTypes ==
    ASSUME TypeOK
    PROVE  /\ slips \in 0..MaxSlips
           /\ slips < MaxSlips => slips + 1 \in 0..MaxSlips
           /\ edits \in 0..MaxEdits
           /\ edits < MaxEdits => edits + 1 \in 0..MaxEdits
           /\ generated \in Keys
           /\ generated < MaxKeys => generated + 1 \in Keys
BY ConstantsAssumption DEF TypeOK, Keys

LEMMA InitTypes ==
    ASSUME TypeOK, BeforeInit, NEW config \in Configs, InitRepository(config)
    PROVE  CloneTypes' /\ Unconfigured'
<1>1. generated' \in Keys
  BY SlipTypes DEF InitRepository
<1>2. Key = 0 => generated + 1 \in Keys
  BY SlipTypes DEF InitRepository
<1>3. worktree' \in Trees
  <2>1. worktree.blob \in [Paths -> Blobs] /\ (Key = 0 => KeyBlob(generated + 1) \in Blobs)
    BY <1>2, BlobTypes DEF TypeOK, Trees
  <2> QED BY <2>1, KeyTyped DEF InitRepository, Trees
<1> QED BY <1>1, <1>3, CloneStep DEF InitRepository, InstallHooks, here, there, TypeOK, StagedPaths

LEMMA LockTypes ==
    ASSUME TypeOK, BeforeInit, Lock PROVE CloneTypes' /\ Unconfigured'
<1>1. worktree' \in Trees /\ skip' \subseteq skip /\ worktree'.config = worktree.config
  <2> DEFINE todo == {p \in MatchedFiles : Readable(worktree.blob[p]) /\ ~IsEnvelope(worktree.blob[p])}
             blobs == [p \in todo |-> sealFile(worktree.blob[p], p)]
  <2>1. PICK done \in SUBSET todo : worktree' = Rewritten(done, blobs) /\ skip' = skip \ done
    BY DEF Lock
  <2>2. FreshNonces # {} /\ Key \in Keys
    BY KeyTyped DEF Lock
  <2>3. worktree \in Trees /\ worktree.blob \in [Paths -> Blobs]
    BY DEF TypeOK, Trees
  <2>4. todo \subseteq Files
    BY DEF MatchedFiles, LsFiles
  <2>5. \A p \in todo : blobs[p] \in Blobs
    BY <2>2, <2>3, <2>4, KeyTyped, SealTyped DEF sealFile
  <2> HIDE DEF todo, blobs
  <2> QED BY <2>1, <2>3, <2>5 DEF Rewritten, Trees
<1> QED BY <1>1, CloneStep DEF Lock, here, there, TypeOK, StagedPaths

LEMMA UnlockTypes ==
    ASSUME TypeOK, BeforeInit, Unlock PROVE CloneTypes' /\ Unconfigured'
<1>1. PICK done \in SUBSET Files : /\ worktree' = Decrypted(worktree, done)
                                  /\ skip' = skip \cup Tracked(index, done)
  BY DEF Unlock
<1>2. worktree' \in Trees /\ worktree'.config = worktree.config
  BY <1>1, DecryptedTyped DEF TypeOK
<1>3. index' = index /\ skip' \subseteq StagedPaths'
  BY <1>1 DEF Unlock, here, there, TypeOK, StagedPaths, Tracked
<1> QED BY <1>2, <1>3, CloneStep DEF Unlock, here, there, TypeOK

LEMMA EncryptTypes ==
    ASSUME TypeOK, BeforeInit, NEW p \in Files, EncryptK8sValue(p)
    PROVE  CloneTypes' /\ Unconfigured'
<1>1. sealFile(worktree.blob[p], p) \in Blobs
  BY SealTyped, KeyTyped DEF EncryptK8sValue, sealFile, TypeOK, Trees
<1>2. worktree' \in Trees /\ worktree'.config = worktree.config
  BY <1>1, KeyTyped DEF EncryptK8sValue, TypeOK, Trees
<1> QED BY <1>2, CloneStep DEF EncryptK8sValue, here, there, TypeOK, StagedPaths

LEMMA EditTypes ==
    ASSUME TypeOK, BeforeInit, NEW p \in Files, NEW blob \in Blobs, Edit(p, blob)
    PROVE  CloneTypes' /\ Unconfigured'
<1>1. worktree' \in Trees /\ worktree'.config = worktree.config
  BY KeyTyped DEF Edit, TypeOK, Trees
<1> QED BY <1>1, SlipTypes, CloneStep DEF Edit, Slip, here, there, TypeOK, StagedPaths

LEMMA EditConfigTypes ==
    ASSUME TypeOK, BeforeInit, NEW config \in Configs, EditConfig(config)
    PROVE  CloneTypes' /\ Unconfigured'
<1>1. worktree' \in Trees
  BY TreeTypes DEF EditConfig, TypeOK
<1> QED BY <1>1, SlipTypes, CloneStep DEF EditConfig, here, there, TypeOK, StagedPaths

LEMMA StageTypes ==
    ASSUME TypeOK, BeforeInit, NEW p \in Paths, Stage(p)
    PROVE  CloneTypes' /\ Unconfigured'
<1>1. index' \in Trees /\ index'.config = index.config
  BY DEF Stage, TypeOK, Trees
<1>2. skip' \subseteq StagedPaths'
  BY DEF Stage, TypeOK, Trees, StagedPaths, Paths
<1> QED BY <1>1, <1>2, SlipTypes, CloneStep DEF Stage, Slip, here, there, TypeOK

LEMMA StageConfigTypes ==
    ASSUME TypeOK, BeforeInit, StageConfig PROVE CloneTypes' /\ Unconfigured'
<1>1. index' \in Trees /\ index'.config = worktree.config /\ index'.blob = index.blob
  BY DEF StageConfig, TypeOK, Trees
<1> QED BY <1>1, CloneStep DEF StageConfig, here, there, TypeOK, StagedPaths

LEMMA UntrackTypes ==
    ASSUME TypeOK, BeforeInit, NEW p \in Paths, Untrack(p)
    PROVE  CloneTypes' /\ Unconfigured'
<1>1. index' \in Trees /\ index'.config = index.config
  BY BlobTypes DEF Untrack, TypeOK, Trees
<1>2. skip' \subseteq StagedPaths'
  BY DEF Untrack, TypeOK, Trees, StagedPaths, Paths
<1> QED BY <1>1, <1>2, SlipTypes, CloneStep DEF Untrack, Slip, here, there, TypeOK

\* What pre-commit makes of the index, whether or not it gets to the end.
LEMMA SealedIndexTyped ==
    ASSUME TypeOK, Key \in Keys, NEW done \in SUBSET ToSeal, done # {} => FreshNonces # {}
    PROVE  /\ SealedIndex(done) \in Trees
           /\ SealedIndex(done).config = index.config
           /\ \A p \in Files : p \in done \/ p \in skip => SealedIndex(done).blob[p] # Absent
<1>1. index \in Trees /\ index.blob \in [Paths -> Blobs] /\ done \subseteq Files
  BY DEF TypeOK, Trees, ToSeal
<1>2. \A p \in done : sealFile(index.blob[p], p) \in Blobs
  BY <1>1, KeyTyped, SealTyped DEF sealFile
<1>3. \A p \in Files : sealFile(index.blob[p], p) # Absent
  BY BlobTypes DEF sealFile
<1>4. \A p \in skip : index.blob[p] # Absent
  BY DEF TypeOK
<1>5. Files \subseteq Paths
  BY KeyTyped
<1> QED BY <1>1, <1>2, <1>3, <1>4, <1>5 DEF SealedIndex, Trees

LEMMA RefusedTypes ==
    ASSUME TypeOK, BeforeInit, CommitRefused PROVE CloneTypes' /\ Unconfigured'
<1>1. PICK done \in SUBSET ToSeal : index' = SealedIndex(done) /\ skip' = skip \cup done
  BY DEF CommitRefused
<1>2. FreshNonces # {} /\ Key \in Keys
  BY KeyTyped DEF CommitRefused
<1>3. done \subseteq Files /\ skip \subseteq Files
  BY DEF ToSeal, TypeOK
<1>4. index' \in Trees /\ index'.config = index.config /\ skip' \subseteq StagedPaths'
  BY <1>1, <1>2, <1>3, SealedIndexTyped DEF StagedPaths
<1> QED BY <1>4, CloneStep DEF CommitRefused, here, there, TypeOK

LEMMA RotateTypes ==
    ASSUME TypeOK, BeforeInit, RotateKeys PROVE CloneTypes' /\ Unconfigured'
<1> DEFINE new == generated + 1
           rotated == MatchedFiles \cup {p \in worktree.config.k8s : IsEnvelope(worktree.blob[p])}
           blobs == [p \in rotated |-> Envelope(worktree.blob[p].text, new, p, Fresh)]
           Resealed(tree) ==
               [tree EXCEPT !.blob = [p \in Paths |-> IF p \in rotated THEN blobs[p] ELSE @[p]]]
<1>1. new \in Keys /\ FreshNonces # {} /\ rotated \subseteq Files
  <2>1. worktree.config.k8s \subseteq Files
    BY ConstantsAssumption DEF RotateKeys, TypeOK, Trees
  <2> QED BY <2>1, SlipTypes DEF RotateKeys, MatchedFiles, LsFiles
<1>2. /\ worktree' = [Resealed(worktree) EXCEPT !.blob[KeyFile] = KeyBlob(new)]
      /\ index' = Resealed(index)
      /\ generated' = new
      /\ skip' = skip \ rotated
  BY DEF RotateKeys
<1>3. \A p \in rotated : blobs[p] \in Blobs
  BY <1>1, KeyTyped, SealTyped DEF TypeOK, Trees
<1>4. KeyBlob(new) \in Blobs
  BY <1>1, BlobTypes
<1> HIDE DEF new, blobs, rotated
<1>5. \A tree \in Trees : Resealed(tree) \in Trees /\ Resealed(tree).config = tree.config
  BY <1>3 DEF Trees
<1>6. \A p \in Files \ rotated : Resealed(index).blob[p] = index.blob[p]
  BY KeyTyped DEF TypeOK, Trees
<1> HIDE DEF Resealed
<1>7. index \in Trees /\ worktree \in Trees
  BY DEF TypeOK
<1>8. worktree' \in Trees /\ worktree'.config = worktree.config
  BY <1>2, <1>4, <1>5, <1>7 DEF Trees
<1>9. index' \in Trees /\ index'.config = index.config
  BY <1>2, <1>5, <1>7
<1>10. skip' \subseteq StagedPaths'
  BY <1>2, <1>6 DEF StagedPaths, TypeOK
<1> QED BY <1>1, <1>2, <1>8, <1>9, <1>10, SlipTypes, CloneStep DEF RotateKeys, Slip, here, there, TypeOK

LEMMA RestoreTypes ==
    ASSUME TypeOK, BeforeInit, NEW p \in Files, \E hooked \in BOOLEAN : Restore(p, hooked)
    PROVE  CloneTypes' /\ Unconfigured'
<1> DEFINE tree == [worktree EXCEPT !.blob[p] = index.blob[p]]
<1>1. PICK done \in SUBSET Files : /\ worktree' = Decrypted(tree, done)
                                  /\ skip' = skip \cup Tracked(index, done)
  BY DEF Restore
<1>2. tree \in Trees /\ tree.config = worktree.config
  BY DEF TypeOK, Trees, Paths
<1> HIDE DEF tree
<1>3. worktree' \in Trees /\ worktree'.config = worktree.config
  BY <1>1, <1>2, DecryptedTyped
<1>4. index' = index /\ skip' \subseteq StagedPaths'
  BY <1>1 DEF Restore, here, there, TypeOK, StagedPaths, Tracked
<1>5. slips' \in 0..MaxSlips
  BY SlipTypes DEF Restore, Slip
<1> QED BY <1>3, <1>4, <1>5, CloneStep DEF Restore, here, there, TypeOK

Local ==
    \/ Plugin
    \/ \E p \in Files, blob \in Blobs : Edit(p, blob)
    \/ \E config \in Configs : EditConfig(config)
    \/ \E p \in Paths : Stage(p) \/ Untrack(p)
    \/ StageConfig
    \/ CommitRefused
    \/ \E p \in Files, hooked \in BOOLEAN : Restore(p, hooked)

LEMMA LocalTypes ==
    ASSUME TypeOK, BeforeInit, Local PROVE CloneTypes' /\ Unconfigured'
<1>1. CASE Plugin
  BY <1>1, InitTypes, LockTypes, UnlockTypes, RotateTypes, EncryptTypes DEF Plugin
<1>2. CASE \E p \in Files, blob \in Blobs : Edit(p, blob)
  BY <1>2, EditTypes
<1>3. CASE \E config \in Configs : EditConfig(config)
  BY <1>3, EditConfigTypes
<1>4. CASE \E p \in Paths : Stage(p) \/ Untrack(p)
  BY <1>4, StageTypes, UntrackTypes
<1>5. CASE StageConfig
  BY <1>5, StageConfigTypes
<1>6. CASE CommitRefused
  BY <1>6, RefusedTypes
<1>7. CASE \E p \in Files, hooked \in BOOLEAN : Restore(p, hooked)
  <2>1. PICK p \in Files : \E hooked \in BOOLEAN : Restore(p, hooked)
    BY <1>7
  <2> QED BY <2>1, RestoreTypes
<1> QED BY <1>1, <1>2, <1>3, <1>4, <1>5, <1>6, <1>7 DEF Local

LEMMA LocalStays ==
    ASSUME Local PROVE UNCHANGED <<commits, branches, known, remote, published>>
BY DEF Local, Plugin, InitRepository, Lock, Unlock, RotateKeys, EncryptK8sValue, Edit, EditConfig,
       Stage, Untrack, StageConfig, CommitRefused, Restore, here, there

-----------------------------------------------------------------------------
(* What is known of the commits while none is added. *)

LEMMA CommitsStay ==
    ASSUME HistoryInv, WitnessInv, UNCHANGED commits
    PROVE  HistoryInv' /\ WitnessInv' /\ \A c : verifyCommitStructurally(c)' = verifyCommitStructurally(c)
<1>1. \A c : TreeOf(c)' = TreeOf(c)
  BY DEF TreeOf
<1>2. \A c : ChangedPaths(c)' = ChangedPaths(c)
  BY <1>1 DEF ChangedPaths
<1>3. \A c : verifyCommitStructurally(c)' = verifyCommitStructurally(c)
  BY <1>1, <1>2 DEF verifyCommitStructurally
<1>4. \A c, p : Protects(c, p)' = Protects(c, p)
  BY <1>1 DEF Protects
<1>5. HistoryInv'
  BY DEF HistoryInv, Made
<1>6. WitnessInv'
  <2>1. \A c, p : ReplacesLink(c, p)' <=> ReplacesLink(c, p)
    BY <1>1 DEF ReplacesLink
  <2> QED BY <1>1, <1>3, <1>4, <2>1 DEF WitnessInv, Made, KeptInAFile, AlwaysProtected, Refused
<1> QED BY <1>3, <1>5, <1>6

LEMMA RemoteStays ==
    ASSUME HistoryInv, WitnessInv, PublishedInv, UNCHANGED <<commits, remote, published>>
    PROVE  PublishedInv'
BY CommitsStay DEF PublishedInv

-----------------------------------------------------------------------------
(* What is known of the commits when one is added, whatever its tree. *)

Latest == Len(commits) + 1

Grown(P, T) ==
    /\ P \subseteq Made /\ T \in Trees
    /\ Latest <= MaxCommits
    /\ commits' = Append(commits, [parents |-> P, tree |-> T,
                                   history |-> {Latest} \cup UNION {HistoryOf(q) : q \in P}])

LEMMA GrownFields ==
    ASSUME RepoTypes, HistoryInv, NEW P, NEW T, Grown(P, T)
    PROVE  /\ commits' \in Seq(CommitRecords)
           /\ Latest \in Nat \ {0} /\ Len(commits') = Latest
           /\ Made' = Made \cup {Latest} /\ Latest \notin Made
           /\ \A d \in Made : commits'[d] = commits[d]
           /\ commits'[Latest].parents = P
           /\ commits'[Latest].tree = T
           /\ commits'[Latest].history = {Latest} \cup UNION {commits[q].history : q \in P}
           /\ commits'[Latest].history \subseteq 1..Latest
<1>1. Len(commits) \in Nat /\ MaxCommits \in Nat
  BY ConstantsAssumption DEF RepoTypes
<1>2. Latest \in Commits /\ Made \subseteq Commits
  BY <1>1 DEF Grown, Latest, Commits, Made
<1>3. \A q \in P : HistoryOf(q) = commits[q].history /\ commits[q].history \subseteq Made
  BY <1>1, CommitFields DEF Grown, HistoryInv, Made
<1> DEFINE history == {Latest} \cup UNION {HistoryOf(q) : q \in P}
           new == [parents |-> P, tree |-> T, history |-> history]
<1>4. history = {Latest} \cup UNION {commits[q].history : q \in P}
  BY <1>3
<1>5. history \subseteq 1..Latest /\ history \subseteq Commits
  BY <1>1, <1>2, <1>3 DEF Made, Latest
<1>6. new \in CommitRecords
  BY <1>2, <1>5 DEF CommitRecords, Grown
<1>7. commits' = Append(commits, new) /\ commits \in Seq(CommitRecords)
  BY DEF Grown, RepoTypes
<1>8. new.parents = P /\ new.tree = T /\ new.history = history
  OBVIOUS
<1> HIDE DEF new, history
<1>9. /\ commits' \in Seq(CommitRecords) /\ Len(commits') = Latest
      /\ commits'[Latest] = new
      /\ \A d \in Made : commits'[d] = commits[d]
  BY <1>1, <1>6, <1>7 DEF Latest, Made
<1>10. Latest \in Nat \ {0} /\ Made' = Made \cup {Latest} /\ Latest \notin Made
  BY <1>1, <1>9 DEF Made, Latest
<1> QED BY <1>4, <1>5, <1>8, <1>9, <1>10

LEMMA GrownHistory ==
    ASSUME RepoTypes, HistoryInv, NEW P, NEW T, Grown(P, T) PROVE HistoryInv'
<1> SUFFICES ASSUME NEW c \in Made'
             PROVE  /\ commits'[c].parents \subseteq 1..(c - 1)
                    /\ commits'[c].history = {c} \cup UNION {commits'[q].history : q \in commits'[c].parents}
                    /\ commits'[c].history \subseteq 1..c
                    /\ \A a \in commits'[c].history : commits'[a].history \subseteq commits'[c].history
  BY DEF HistoryInv
<1>1. Len(commits) \in Nat
  BY DEF RepoTypes
<1>2. \A d \in Made : /\ commits'[d] = commits[d] /\ d \in Nat
                      /\ commits[d].parents \subseteq Made /\ commits[d].history \subseteq Made
  BY <1>1, GrownFields DEF HistoryInv, Made
<1>3. CASE c \in Made
  <2>1. /\ commits[c].parents \subseteq 1..(c - 1)
        /\ commits[c].history = {c} \cup UNION {commits[q].history : q \in commits[c].parents}
        /\ commits[c].history \subseteq 1..c
        /\ \A a \in commits[c].history : commits[a].history \subseteq commits[c].history
    BY <1>3 DEF HistoryInv
  <2>2. UNION {commits'[q].history : q \in commits[c].parents}
            = UNION {commits[q].history : q \in commits[c].parents}
    BY <1>2, <1>3
  <2> QED BY <1>2, <1>3, <2>1, <2>2
<1>4. CASE c = Latest
  <2>1. /\ commits'[c].parents = P /\ P \subseteq Made
        /\ commits'[c].history = {c} \cup UNION {commits[q].history : q \in P}
        /\ commits'[c].history \subseteq 1..c
    BY <1>4, GrownFields DEF Grown
  <2>2. P \subseteq 1..(c - 1)
    BY <1>1, <1>4, <2>1 DEF Made, Latest
  <2>3. UNION {commits'[q].history : q \in P} = UNION {commits[q].history : q \in P}
    BY <1>2, <2>1
  <2>4. ASSUME NEW a \in commits'[c].history PROVE commits'[a].history \subseteq commits'[c].history
    <3>1. CASE a = c
      BY <3>1
    <3>2. CASE a # c
      <4>1. PICK q \in P : a \in commits[q].history
        BY <2>1, <3>2
      <4>2. a \in Made /\ commits[a].history \subseteq commits[q].history
        BY <1>2, <2>1, <4>1 DEF HistoryInv
      <4> QED BY <1>2, <2>1, <4>2
    <3> QED BY <3>1, <3>2
  <2> QED BY <2>1, <2>2, <2>3, <2>4
<1> QED BY <1>3, <1>4, GrownFields

\* Nothing pre-push says of the other commits changes.
LEMMA GrownVerdicts ==
    ASSUME RepoTypes, HistoryInv, NEW P, NEW T, Grown(P, T), NEW d \in Made
    PROVE  /\ TreeOf(d)' = TreeOf(d)
           /\ verifyCommitStructurally(d)' = verifyCommitStructurally(d)
           /\ \A p : Protects(d, p)' = Protects(d, p)
           /\ \A p : ReplacesLink(d, p)' <=> ReplacesLink(d, p)
<1>1. \A e \in Made : TreeOf(e)' = TreeOf(e) /\ commits'[e] = commits[e]
  BY GrownFields DEF TreeOf
<1>2. commits[d].parents \subseteq Made
  BY DEF HistoryInv, Made, RepoTypes
<1>3. ChangedPaths(d)' = ChangedPaths(d)
  BY <1>1, <1>2 DEF ChangedPaths
<1>4. \A p : ReplacesLink(d, p)' <=> ReplacesLink(d, p)
  BY <1>1, <1>2 DEF ReplacesLink
<1> QED BY <1>1, <1>3, <1>4 DEF verifyCommitStructurally, Protects

\* The new commit's tree, and what it changes.
LEMMA GrownChange ==
    ASSUME RepoTypes, HistoryInv, NEW P, NEW T, Grown(P, T), NEW c, c = Latest
    PROVE  /\ TreeOf(c)' = T
           /\ ChangedPaths(c)' = IF P = {} THEN Changed(EmptyTree, T)
                                 ELSE UNION {Changed(TreeOf(q), T) : q \in P}
<1>1. commits'[c].tree = T /\ c # 0 /\ commits'[c].parents = P
  BY GrownFields
<1>2. TreeOf(c)' = T
  BY <1>1 DEF TreeOf
<1>3. \A q \in P : TreeOf(q)' = TreeOf(q)
  BY GrownVerdicts DEF Grown
<1>4. {Changed(TreeOf(q), T)' : q \in P} = {Changed(TreeOf(q), T) : q \in P}
  BY <1>3 DEF Changed, TypeChanged
<1> QED BY <1>1, <1>2, <1>4, Zenon DEF ChangedPaths

\* A path the new commit does not list as changed is what it is in every parent,
\* but for its type.
LEMMA Unchanged ==
    ASSUME RepoTypes, HistoryInv, NEW P, NEW T, Grown(P, T), NEW c, c = Latest,
           NEW p \in Paths, p \notin ChangedPaths(c)', T.blob[p] # Absent
    PROVE  P # {} /\ \A q \in P : \/ T.blob[p] = TreeOf(q).blob[p]
                                    \/ TypeChanged(TreeOf(q), T, p)
<1>1. ASSUME P = {} PROVE FALSE
  <2>1. EmptyTree.blob[p] = Absent
    BY DEF EmptyTree
  <2> QED BY <1>1, <2>1, GrownChange DEF Changed, TypeChanged
<1>2. ASSUME NEW q \in P PROVE T.blob[p] = TreeOf(q).blob[p] \/ TypeChanged(TreeOf(q), T, p)
  BY <1>1, <1>2, GrownChange DEF Changed
<1> QED BY <1>1, <1>2

LEMMA GrownWitness ==
    ASSUME RepoTypes, HistoryInv, WitnessInv, NEW P, NEW T, Grown(P, T) PROVE WitnessInv'
<1>1. PICK c : c = Latest
  OBVIOUS
<1>2. \A d \in Made : /\ commits'[d] = commits[d]
                      /\ commits[d].history \subseteq Made
  BY GrownFields, CommitFields DEF HistoryInv, Made, RepoTypes
<1>3. ASSUME NEW d \in Made, NEW p
      PROVE  /\ AlwaysProtected(d, p)' <=> AlwaysProtected(d, p)
             /\ Refused(d, p)' <=> Refused(d, p)
             /\ KeptInAFile(d)' <=> KeptInAFile(d)
  BY <1>2, GrownVerdicts DEF AlwaysProtected, Refused, KeptInAFile
<1>4. /\ commits'[c].tree = T /\ TreeOf(c)' = T /\ c \in commits'[c].history
      /\ \A q \in P : q \in Made /\ commits[q].history \subseteq commits'[c].history
  <2>1. P \subseteq Made
    BY DEF Grown
  <2> QED BY <1>1, <2>1, GrownFields, GrownChange
<1>5. ASSUME NEW p, NEW q \in P
      PROVE  /\ AlwaysProtected(c, p)' => AlwaysProtected(q, p)
             /\ KeptInAFile(c)' => KeptInAFile(q)
             /\ Refused(q, p) => Refused(c, p)'
  <2>1. q \in Made /\ commits'[q] = commits[q] /\ commits[q].history \subseteq commits'[c].history
    BY <1>2, <1>4
  <2>2. /\ AlwaysProtected(c, p)' => AlwaysProtected(q, p)'
        /\ KeptInAFile(c)' => KeptInAFile(q)'
        /\ Refused(q, p)' => Refused(c, p)'
    BY <2>1 DEF AlwaysProtected, KeptInAFile, Refused
  <2> QED BY <1>3, <2>1, <2>2
<1>6. ASSUME NEW p \in Files, AlwaysProtected(c, p)'
      PROVE  T.blob[p].sort \in {"absent", "link", "sealed"} \/ Refused(c, p)'
  <2>1. CASE p \in ChangedPaths(c)'
    <3>1. Protects(c, p)'
      BY <1>4, <1>6 DEF AlwaysProtected
    <3>2. T.config \in Configs /\ Effective(T.config).k8s = T.config.k8s
      BY <1>4, <3>1, ConstantsAssumption DEF Protects, Grown, Trees, Effective
    <3>3. T.blob[p].sort # "sealed" => p \in verifyCommitStructurally(c)'
      BY <1>4, <2>1, <3>1, <3>2 DEF Protects, verifyCommitStructurally, lintK8sManifest, ParseEnvelope
    <3> QED BY <1>4, <3>3 DEF Refused
  <2>2. CASE p \notin ChangedPaths(c)' /\ T.blob[p] # Absent
    <3>1. PICK q \in P : T.blob[p] = TreeOf(q).blob[p] \/ TypeChanged(TreeOf(q), T, p)
      BY <1>1, <2>2, Unchanged DEF Paths
    <3>2. TreeOf(q) = commits[q].tree /\ TreeOf(q)' = TreeOf(q) /\ q \in commits'[c].parents
      BY <1>1, <1>4, CommitFields, GrownFields, GrownVerdicts
    <3>3. CASE T.blob[p] = TreeOf(q).blob[p]
      BY <1>4, <1>5, <1>6, <3>2, <3>3 DEF WitnessInv
    <3>4. CASE TypeChanged(TreeOf(q), T, p)
      <4>1. ~ReplacesLink(c, p)'
        BY <1>4, <1>6 DEF AlwaysProtected
      <4> QED BY <1>4, <3>2, <3>4, <4>1 DEF ReplacesLink, TypeChanged
    <3> QED BY <3>1, <3>3, <3>4
  <2>3. CASE T.blob[p] = Absent
    BY <2>3 DEF Absent
  <2> QED BY <2>1, <2>2, <2>3
<1>7. ASSUME KeptInAFile(c)'
      PROVE  T.blob[KeyFile] = Absent \/ Refused(c, KeyFile)'
  <2>1. CASE KeyFile \in ChangedPaths(c)'
    <3>1. T.config # NoConfig /\ T.config.backend = "file"
      BY <1>4, <1>7 DEF KeptInAFile
    <3>2. KeyFile \in verifyCommitStructurally(c)'
      <4>1. T.config \in Configs
        BY <3>1 DEF Grown, Trees
      <4>2. Effective(T.config).backend = "file"
        BY <3>1, <4>1, ConstantsAssumption DEF Effective
      <4> QED BY <1>4, <2>1, <3>1, <4>2 DEF verifyCommitStructurally
    <3> QED BY <1>4, <3>2 DEF Refused
  <2>2. CASE KeyFile \notin ChangedPaths(c)' /\ T.blob[KeyFile] # Absent
    <3>1. PICK q \in P : TreeOf(q).blob[KeyFile] # Absent
      BY <1>1, <2>2, Unchanged DEF Paths, TypeChanged
    <3>2. TreeOf(q) = commits[q].tree
      BY <1>4, CommitFields
    <3> QED BY <1>4, <1>5, <1>7, <3>1, <3>2 DEF WitnessInv
  <2> QED BY <2>1, <2>2
<1>8. Made' = Made \cup {c}
  BY <1>1, GrownFields
<1> QED BY <1>2, <1>3, <1>4, <1>6, <1>7, <1>8 DEF WitnessInv

-----------------------------------------------------------------------------
(* Steps that add a commit here. *)

LEMMA NewCommitInv ==
    ASSUME IInv, NEW P \in SUBSET Made, NEW T \in Trees, NewCommit(P, T),
           UNCHANGED there, CloneTypes', Unconfigured',
           ~installed' => ~installed /\ T.config = NoConfig
    PROVE  IInv'
<1>1. RepoTypes /\ HistoryInv /\ WitnessInv /\ PublishedInv /\ BeforeInit
  BY TwoParts DEF IInv
<1>2. Len(commits) \in Nat /\ MaxCommits \in Nat
  BY <1>1, ConstantsAssumption DEF RepoTypes
<1>3. Grown(P, T)
  BY <1>2 DEF NewCommit, Grown, Latest
<1>4. /\ commits' \in Seq(CommitRecords) /\ Len(commits') = Latest
      /\ Latest \in Nat \ {0} /\ Latest <= MaxCommits
      /\ Made' = Made \cup {Latest}
      /\ \A d \in Made : commits'[d] = commits[d]
      /\ commits'[Latest].tree = T
  BY <1>1, <1>3, GrownFields DEF Grown
<1>5. RepoTypes'
  <2>1. known' \subseteq 1..Latest /\ branches' \in [Branches -> 0..Latest]
    <3>1. /\ known' = known \cup {Latest} /\ known \subseteq 1..Len(commits)
          /\ branches' = [branches EXCEPT ![head] = Latest]
          /\ branches \in [Branches -> 0..Len(commits)]
      BY <1>1 DEF NewCommit, Latest, RepoTypes
    <3>2. /\ Latest \in 1..Latest /\ 1..Len(commits) \subseteq 1..Latest
          /\ Latest \in Nat /\ Len(commits) <= Latest /\ Latest \in 0..Latest
      BY <1>2 DEF Latest
    <3>3. branches' \in [Branches -> 0..Latest]
      BY <1>2, <3>1, <3>2, RepointTyped
    <3> QED BY <3>1, <3>2, <3>3
  <2>2. published' \subseteq 1..Latest /\ remote' \in [Branches -> 0..Latest]
    BY <1>1, <1>2 DEF there, Latest, RepoTypes
  <2> QED BY <1>4, <2>1, <2>2 DEF RepoTypes
<1>6. TypeOK'
  BY <1>5, TwoPartsNext
<1>7. HistoryInv' /\ WitnessInv'
  BY <1>1, <1>3, GrownHistory, GrownWitness
<1>8. PublishedInv'
  <2>1. published' = published /\ remote' = remote /\ published \subseteq Made
    BY <1>1 DEF there, RepoTypes, Made
  <2>2. \A d \in published : /\ commits'[d] = commits[d]
                              /\ verifyCommitStructurally(d)' = verifyCommitStructurally(d)
    BY <1>1, <1>3, <1>4, <2>1, GrownVerdicts
  <2> QED BY <1>1, <2>1, <2>2 DEF PublishedInv
<1>9. BeforeInit'
  BY <1>1, <1>4 DEF BeforeInit, Unconfigured
<1> QED BY <1>6, <1>7, <1>8, <1>9 DEF IInv

LEMMA ParentsMade ==
    ASSUME IInv, NEW amend \in BOOLEAN PROVE ParentsFor(amend) \subseteq Made
<1>1. RepoTypes /\ HistoryInv /\ HEAD \in 0..Len(commits) /\ Len(commits) \in Nat
  BY HeadTyped, TwoParts DEF IInv, RepoTypes
<1>2. HEAD # 0 => HEAD \in Made /\ commits[HEAD].parents \subseteq Made
  BY <1>1 DEF HistoryInv, Made
<1> QED BY <1>2 DEF ParentsFor

LEMMA HookedInv ==
    ASSUME IInv, NEW amend \in BOOLEAN, CommitHooked(amend) PROVE IInv'
<1>1. TypeOK /\ BeforeInit /\ RepoTypes
  BY TwoParts DEF IInv
<1>2. index' \in Trees /\ \A p \in Files : p \in ToSeal \/ p \in skip => index'.blob[p] # Absent
  BY <1>1, KeyTyped, SealedIndexTyped DEF CommitHooked
<1>3. skip' \subseteq StagedPaths'
  BY <1>1, <1>2 DEF CommitHooked, StagedPaths, TypeOK, ToSeal
<1>4. slips' \in 0..MaxSlips
  BY <1>1, SlipTypes DEF CommitHooked, Slip
<1>5. CloneTypes' /\ Unconfigured'
  BY <1>1, <1>2, <1>3, <1>4, CloneStep DEF CommitHooked, TypeOK
<1>6. NewCommit(ParentsFor(amend), index') /\ UNCHANGED there /\ installed'
  BY <1>1 DEF CommitHooked, TypeOK
<1> QED BY <1>2, <1>5, <1>6, ParentsMade, NewCommitInv

LEMMA UnhookedInv ==
    ASSUME IInv, NEW amend \in BOOLEAN, CommitUnhooked(amend) PROVE IInv'
<1>1. TypeOK /\ BeforeInit /\ RepoTypes
  BY TwoParts DEF IInv
<1>2. slips' \in 0..MaxSlips
  BY <1>1, SlipTypes DEF CommitUnhooked, Slip
<1>3. CloneTypes' /\ Unconfigured'
  BY <1>1, <1>2, CloneStep DEF CommitUnhooked, TypeOK, StagedPaths
<1>4. NewCommit(ParentsFor(amend), index) /\ UNCHANGED there /\ installed' = installed
  BY DEF CommitUnhooked
<1>5. index \in Trees /\ (~installed => index.config = NoConfig)
  BY <1>1 DEF TypeOK, BeforeInit
<1> QED BY <1>3, <1>4, <1>5, ParentsMade, NewCommitInv

LEMMA MergedTyped ==
    ASSUME TypeOK, NEW c \in Made, NEW plain, NEW tree \in MergedTrees(c, plain)
    PROVE  tree \in Trees /\ tree.config \in {TreeOf(HEAD).config, TreeOf(c).config}
<1> DEFINE ours == TreeOf(HEAD)
           theirs == TreeOf(c)
           differ == {p \in Paths : ours.blob[p] # theirs.blob[p]}
<1>1. ours \in Trees /\ theirs \in Trees
  BY HeadTyped, TwoParts, CommitFields
<1>2. PICK side \in [differ -> {ours, theirs}], t \in Texts, config \in {ours.config, theirs.config} :
         tree = [config |-> config,
                 blob |-> [p \in Paths |-> IF p \in plain \cap differ THEN Plain(t)
                                           ELSE IF p \in differ THEN side[p].blob[p]
                                           ELSE ours.blob[p]]]
  BY DEF MergedTrees
<1>3. \A p \in differ : side[p] \in Trees
  BY <1>1
<1>4. Plain(t) \in Blobs
  BY BlobTypes
<1> HIDE DEF ours, theirs, differ
<1> QED BY <1>1, <1>2, <1>3, <1>4 DEF Trees, ours, theirs

LEMMA MergeInv ==
    ASSUME IInv, NEW c \in known, \E hooked \in BOOLEAN : Merge(c, hooked) PROVE IInv'
<1>1. TypeOK /\ BeforeInit /\ RepoTypes
  BY TwoParts DEF IInv
<1>2. PICK plain \in SUBSET Files : \E tree \in MergedTrees(c, plain) : NewCommit({HEAD, c}, tree) /\ Moved(tree)
  BY DEF Merge, MoveTo, Moved
<1>3. PICK tree \in MergedTrees(c, plain) : NewCommit({HEAD, c}, tree) /\ Moved(tree)
  BY <1>2
<1>4. HEAD \in Made /\ c \in Made
  BY <1>1, HeadTyped DEF RepoTypes, Made, Merge
<1>5. tree \in Trees /\ tree.config \in {commits[HEAD].tree.config, commits[c].tree.config}
  BY <1>1, <1>3, <1>4, MergedTyped, CommitFields
<1>6. /\ UNCHANGED <<head, there, installed, generated, edits>> /\ slips' \in 0..MaxSlips
  BY <1>1, SlipTypes DEF Merge, Slip
<1>7. ~installed => tree.config = NoConfig /\ worktree.config = NoConfig /\ index.config = NoConfig
  BY <1>1, <1>4, <1>5 DEF BeforeInit
<1>8. /\ index' \in Trees /\ worktree' \in Trees /\ skip' \subseteq StagedPaths'
      /\ index'.config \in {index.config, tree.config}
      /\ worktree'.config \in {worktree.config, tree.config}
  BY <1>1, <1>3, <1>5, MovedTypes
<1>9. CloneTypes' /\ Unconfigured'
  BY <1>1, <1>6, <1>7, <1>8, CloneStep DEF TypeOK
<1> QED BY <1>3, <1>4, <1>5, <1>6, <1>7, <1>9, NewCommitInv

-----------------------------------------------------------------------------
(* Steps that move a branch, or what is known of the remote. *)

\* A step that leaves the commits and the remote as they are.
LEMMA QuietInv ==
    ASSUME IInv, RepoTypes', CloneTypes', Unconfigured',
           UNCHANGED <<commits, remote, published>>, ~installed' => ~installed
    PROVE  IInv'
<1>1. HistoryInv' /\ WitnessInv' /\ PublishedInv'
  BY CommitsStay, RemoteStays DEF IInv
<1>2. BeforeInit'
  BY DEF IInv, BeforeInit, Unconfigured, Made
<1> QED BY <1>1, <1>2, TwoPartsNext DEF IInv

\* The clone's part when none of it moves.
LEMMA CloneStays ==
    ASSUME TypeOK, BeforeInit, UNCHANGED <<head, index, worktree, skip, installed, generated, edits>>,
           slips' \in 0..MaxSlips
    PROVE  CloneTypes' /\ Unconfigured'
BY DEF TypeOK, BeforeInit, CloneTypes, Unconfigured, StagedPaths

LEMMA LocalInv == ASSUME IInv, Local PROVE IInv'
<1>1. TypeOK /\ BeforeInit /\ RepoTypes
  BY TwoParts DEF IInv
<1>2. CloneTypes' /\ Unconfigured'
  BY <1>1, LocalTypes
<1>3. RepoTypes'
  BY <1>1, LocalStays, RepoStays
<1>4. installed \in BOOLEAN /\ (installed' \/ installed' = installed)
  BY <1>1 DEF TypeOK, Local, Plugin, InitRepository, InstallHooks, Lock, Unlock, RotateKeys,
              EncryptK8sValue, Edit, EditConfig, Stage, Untrack, StageConfig, CommitRefused, Restore
<1> QED BY <1>2, <1>3, <1>4, LocalStays, QuietInv

LEMMA BranchInv == ASSUME IInv, NEW b \in Branches, Branch(b) PROVE IInv'
<1>1. TypeOK /\ BeforeInit /\ RepoTypes
  BY TwoParts DEF IInv
<1>2. RepoTypes'
  BY <1>1, HeadTyped DEF Branch, there, RepoTypes
<1>3. CloneTypes' /\ Unconfigured'
  BY <1>1, CloneStays, SlipTypes DEF Branch
<1> QED BY <1>2, <1>3, QuietInv DEF Branch, there

LEMMA FetchInv == ASSUME IInv, Fetch PROVE IInv'
<1>1. TypeOK /\ BeforeInit /\ RepoTypes
  BY TwoParts DEF IInv
<1>2. RepoTypes'
  BY <1>1 DEF Fetch, here, there, RepoTypes
<1>3. CloneTypes' /\ Unconfigured'
  BY <1>1, CloneStays, SlipTypes DEF Fetch, here
<1> QED BY <1>2, <1>3, QuietInv DEF Fetch, there

\* A checkout and a fast-forward move the clone to the tree of a commit.
LEMMA MovingInv ==
    ASSUME IInv, NEW c \in Made, Moved(TreeOf(c)), head' \in Branches,
           branches' \in [Branches -> 0..Len(commits)], slips' \in 0..MaxSlips,
           UNCHANGED <<commits, there, known, installed, generated, edits>>
    PROVE  IInv'
<1>1. TypeOK /\ BeforeInit /\ RepoTypes
  BY TwoParts DEF IInv
<1>2. RepoTypes'
  BY <1>1 DEF there, RepoTypes
<1>3. TreeOf(c) \in Trees /\ TreeOf(c) = commits[c].tree
  BY <1>1, CommitFields
<1>4. /\ index' \in Trees /\ worktree' \in Trees /\ skip' \subseteq StagedPaths'
      /\ index'.config \in {index.config, TreeOf(c).config}
      /\ worktree'.config \in {worktree.config, TreeOf(c).config}
  BY <1>1, <1>3, MovedTypes
<1>5. ~installed => TreeOf(c).config = NoConfig /\ worktree.config = NoConfig /\ index.config = NoConfig
  BY <1>1, <1>3 DEF BeforeInit
<1>6. CloneTypes' /\ Unconfigured'
  BY <1>1, <1>4, <1>5, CloneStep DEF TypeOK
<1> QED BY <1>2, <1>6, QuietInv DEF there

LEMMA CheckoutInv ==
    ASSUME IInv, NEW b \in Branches, \E hooked \in BOOLEAN : Checkout(b, hooked) PROVE IInv'
<1>1. TypeOK /\ RepoTypes
  BY TwoParts DEF IInv
<1>2. branches[b] \in Made
  BY <1>1 DEF Checkout, RepoTypes, Made
<1>3. Moved(TreeOf(branches[b])) /\ head' \in Branches
  BY DEF Checkout, MoveTo, Moved
<1>4. slips' \in 0..MaxSlips
  BY <1>1, SlipTypes DEF Checkout, Slip
<1>5. branches' \in [Branches -> 0..Len(commits)]
  BY <1>1 DEF Checkout, RepoTypes
<1> QED BY <1>2, <1>3, <1>4, <1>5, MovingInv DEF Checkout

LEMMA FastForwardInv ==
    ASSUME IInv, NEW c \in known, \E hooked \in BOOLEAN : FastForward(c, hooked) PROVE IInv'
<1>1. TypeOK /\ RepoTypes
  BY TwoParts DEF IInv
<1>2. c \in Made
  BY <1>1 DEF RepoTypes, Made
<1>3. Moved(TreeOf(c)) /\ head' \in Branches
  BY <1>1 DEF FastForward, MoveTo, Moved, TypeOK
<1>4. slips' \in 0..MaxSlips
  BY <1>1, SlipTypes DEF FastForward, Slip
<1>5. branches' \in [Branches -> 0..Len(commits)]
  <2>1. branches' = [branches EXCEPT ![head] = c] /\ branches \in [Branches -> 0..Len(commits)]
        /\ Len(commits) \in Nat /\ c \in 0..Len(commits)
    BY <1>1, <1>2 DEF FastForward, RepoTypes, Made
  <2> QED BY <2>1, RepointTyped
<1> QED BY <1>2, <1>3, <1>4, <1>5, MovingInv DEF FastForward

-----------------------------------------------------------------------------
(* Steps of the remote. *)

\* Every commit that a push takes to the remote passes the structural check: pre-push
\* looked at it, or it is there already, or there is nothing to look for.
LEMMA PushedVerified ==
    ASSUME IInv, NEW S \in SUBSET Branches, Push(S), NEW b \in S, NEW c \in HistoryOf(branches[b])
    PROVE  c \in Made /\ verifyCommitStructurally(c) = {}
<1>1. TypeOK /\ RepoTypes /\ HistoryInv /\ PublishedInv /\ BeforeInit
  BY TwoParts DEF IInv
<1>2. branches[b] \in Made /\ HistoryOf(branches[b]) = commits[branches[b]].history
  <2>1. branches[b] \in Made
    BY <1>1 DEF Push, RepoTypes, Made
  <2> QED BY <1>1, <2>1, CommitFields
<1>3. c \in Made
  BY <1>1, <1>2 DEF HistoryInv, Made, RepoTypes
<1>4. CASE ~installed
  <2>1. TreeOf(c).config = NoConfig
    BY <1>1, <1>3, <1>4, CommitFields DEF BeforeInit
  <2> QED BY <1>3, <2>1 DEF verifyCommitStructurally
<1>5. CASE installed /\ c \in RevList(remote[b], branches[b])
  BY <1>3, <1>5 DEF Push, HookPrePush
<1>6. CASE c \in HistoryOf(remote[b])
  <2>1. remote[b] # 0 /\ remote[b] \in published
    BY <1>1, <1>6 DEF HistoryOf, PublishedInv
  <2>2. c \in commits[remote[b]].history
    BY <1>6, <2>1 DEF HistoryOf
  <2> QED BY <1>1, <1>3, <2>1, <2>2 DEF PublishedInv
<1> QED BY <1>4, <1>5, <1>6 DEF RevList

LEMMA PushInv == ASSUME IInv, NEW S \in SUBSET Branches, Push(S) PROVE IInv'
<1>1. TypeOK /\ RepoTypes /\ HistoryInv /\ WitnessInv /\ PublishedInv /\ BeforeInit
  BY TwoParts DEF IInv
<1>2. \A b \in S : branches[b] \in Made /\ HistoryOf(branches[b]) = commits[branches[b]].history
  <2>1. \A b \in S : branches[b] \in Made
    BY <1>1 DEF Push, RepoTypes, Made
  <2> QED BY <1>1, <2>1, CommitFields
<1>3. RepoTypes'
  <2>1. published' \subseteq 1..Len(commits)
    BY <1>1, PushedVerified DEF Push, RepoTypes, Made
  <2> QED BY <1>1, <2>1 DEF Push, here, RepoTypes
<1>4. CloneTypes' /\ Unconfigured'
  BY <1>1, CloneStays, SlipTypes DEF Push, here, Slip
<1>5. commits' = commits /\ installed' = installed
  BY DEF Push
<1>6. HistoryInv' /\ WitnessInv' /\ \A c : verifyCommitStructurally(c)' = verifyCommitStructurally(c)
  BY <1>1, <1>5, CommitsStay
<1>7. PublishedInv'
  <2>1. ASSUME NEW b \in Branches, remote'[b] # 0 PROVE remote'[b] \in published'
    BY <1>1, <1>2, <2>1 DEF Push, PublishedInv, HistoryInv
  <2>2. ASSUME NEW c \in published' PROVE commits[c].history \subseteq published' /\ verifyCommitStructurally(c) = {}
    <3>1. CASE c \in published
      BY <1>1, <3>1 DEF PublishedInv, Push
    <3>2. CASE c \notin published
      <4>1. PICK b \in S : c \in HistoryOf(branches[b])
        BY <3>2 DEF Push
      <4>2. commits[c].history \subseteq HistoryOf(branches[b])
        BY <1>1, <1>2, <4>1 DEF HistoryInv
      <4> QED BY <4>1, <4>2, PushedVerified DEF Push
    <3> QED BY <3>1, <3>2
  <2> QED BY <1>5, <1>6, <2>1, <2>2 DEF PublishedInv
<1>8. BeforeInit'
  BY <1>1, <1>4, <1>5 DEF BeforeInit, Unconfigured, Made
<1> QED BY <1>3, <1>4, <1>6, <1>7, <1>8, TwoPartsNext DEF IInv

LEMMA DeleteInv == ASSUME IInv, NEW b \in Branches, DeleteRemote(b) PROVE IInv'
<1>1. TypeOK /\ RepoTypes /\ HistoryInv /\ WitnessInv /\ PublishedInv /\ BeforeInit
  BY TwoParts DEF IInv
<1>2. RepoTypes'
  BY <1>1 DEF DeleteRemote, here, RepoTypes
<1>3. CloneTypes' /\ Unconfigured'
  BY <1>1, CloneStays, SlipTypes DEF DeleteRemote, here, Slip
<1>4. commits' = commits /\ published' = published /\ installed' = installed
  BY DEF DeleteRemote
<1>5. HistoryInv' /\ WitnessInv' /\ \A c : verifyCommitStructurally(c)' = verifyCommitStructurally(c)
  BY <1>1, <1>4, CommitsStay
<1>6. PublishedInv'
  BY <1>1, <1>4, <1>5 DEF PublishedInv, DeleteRemote, RepoTypes
<1>7. BeforeInit'
  BY <1>1, <1>3, <1>4 DEF BeforeInit, Unconfigured, Made
<1> QED BY <1>2, <1>3, <1>5, <1>6, <1>7, TwoPartsNext DEF IInv

LEMMA TeammateInv ==
    ASSUME IInv, NEW b \in Branches, NEW p \in Files, TeammatePush(b, p) PROVE IInv'
<1>1. TypeOK /\ RepoTypes /\ HistoryInv /\ WitnessInv /\ PublishedInv /\ BeforeInit
  BY TwoParts DEF IInv
<1> DEFINE r == remote[b]
<1>2. Len(commits) \in Nat /\ MaxCommits \in Nat /\ Len(commits) < MaxCommits
  BY <1>1, ConstantsAssumption DEF RepoTypes, TeammatePush
<1>3. r \in Made /\ r \in published
  BY <1>1, <1>2 DEF TeammatePush, RepoTypes, PublishedInv, Made
<1>4. PICK t \in Texts :
         commits' = Append(commits,
             [parents |-> {r}, history |-> {Len(commits) + 1} \cup HistoryOf(r),
              tree |-> [TreeOf(r) EXCEPT !.blob[p] = Envelope(t, generated, p, Fresh)]])
  BY DEF TeammatePush
<1> DEFINE blob == Envelope(t, generated, p, Fresh)
           T == [TreeOf(r) EXCEPT !.blob[p] = blob]
<1>5. PICK c : c = Latest
  OBVIOUS
<1>6. /\ remote' = [remote EXCEPT ![b] = c]
      /\ published' = published \cup {c}
      /\ UNCHANGED <<here, known, installed, generated, edits, slips>>
  BY <1>5 DEF TeammatePush, Latest
<1>7. TreeOf(r) \in Trees /\ TreeOf(r) = commits[r].tree
  BY <1>1, <1>3, CommitFields
<1>8. T \in Trees /\ T.config = TreeOf(r).config /\ T.blob[p].sort = "sealed"
      /\ Changed(TreeOf(r), T) \subseteq {p}
  <2>1. blob \in Blobs /\ blob.sort = "sealed"
    <3>1. generated \in Keys /\ Fresh \in 0..MaxNonces
      BY <1>1, FreshTyped, SlipTypes, ConstantsAssumption DEF TeammatePush
    <3> QED BY <3>1, BlobTypes
  <2> HIDE DEF blob
  <2> QED BY <1>7, <2>1, KeyTyped, <1>1 DEF Trees, Changed, TypeChanged
<1>9. Grown({r}, T)
  <2>1. HistoryOf(r) = UNION {HistoryOf(q) : q \in {r}}
    OBVIOUS
  <2> HIDE DEF T, r
  <2> QED BY <1>2, <1>3, <1>4, <1>8, <2>1 DEF Grown, Latest, T
<1> HIDE DEF T, blob, r
<1>10. /\ commits' \in Seq(CommitRecords) /\ Len(commits') = c
       /\ c \in Nat \ {0} /\ c <= MaxCommits
       /\ Made' = Made \cup {c}
       /\ \A d \in Made : commits'[d] = commits[d]
       /\ commits'[c].tree = T
       /\ commits'[c].history = {c} \cup commits[r].history
       /\ c = Len(commits) + 1
  <2>1. UNION {commits[q].history : q \in {r}} = commits[r].history
    OBVIOUS
  <2>2. c <= MaxCommits
    BY <1>2, <1>5 DEF Latest
  <2> QED BY <1>1, <1>5, <1>9, <2>1, <2>2, GrownFields DEF Latest
<1>11. RepoTypes'
  <2>1. 0..Len(commits) \subseteq 0..c /\ 1..Len(commits) \subseteq 1..c /\ c \in 1..c
    BY <1>2, <1>10
  <2>2. remote' \in [Branches -> 0..c]
    <3>1. remote \in [Branches -> 0..Len(commits)] /\ c \in Nat /\ Len(commits) <= c /\ c \in 0..c
      BY <1>1, <1>2, <1>10 DEF RepoTypes
    <3> QED BY <1>2, <1>6, <3>1, RepointTyped
  <2>3. branches' \in [Branches -> 0..c]
    <3>1. branches' = branches /\ branches \in [Branches -> 0..Len(commits)]
      BY <1>1, <1>6 DEF RepoTypes, here
    <3> QED BY <2>1, <3>1
  <2>4. known' \subseteq 1..c /\ published' \subseteq 1..c
    BY <1>1, <1>6, <2>1 DEF RepoTypes
  <2> QED BY <1>10, <2>2, <2>3, <2>4 DEF RepoTypes
<1>12. CloneTypes' /\ Unconfigured'
  BY <1>1, <1>6, CloneStays, SlipTypes DEF here
<1>13. HistoryInv' /\ WitnessInv'
  BY <1>1, <1>9, GrownHistory, GrownWitness
<1>14. verifyCommitStructurally(c)' = {}
  <2>1. TreeOf(c)' = T /\ ChangedPaths(c)' \subseteq {p}
    <3>1. TreeOf(c)' = T /\ ChangedPaths(c)' = UNION {Changed(TreeOf(q), T) : q \in {r}}
      BY <1>1, <1>5, <1>9, GrownChange
    <3> QED BY <1>8, <3>1
  <2>2. p # KeyFile
    BY ConstantsAssumption
  <2> QED BY <1>8, <2>1, <2>2 DEF verifyCommitStructurally, lintK8sManifest, ParseEnvelope
<1>15. PublishedInv'
  <2>1. published \subseteq Made /\ \A d \in published : commits[d].history \subseteq published
    BY <1>1 DEF RepoTypes, Made, PublishedInv
  <2>2. \A d \in published : /\ commits'[d] = commits[d]
                              /\ verifyCommitStructurally(d)' = {}
    BY <1>1, <1>9, <1>10, <2>1, GrownVerdicts DEF PublishedInv
  <2>3. \A d \in Branches : remote'[d] # 0 => remote'[d] \in published'
    BY <1>1, <1>6 DEF PublishedInv, RepoTypes
  <2> QED BY <1>3, <1>6, <1>10, <1>14, <2>1, <2>2, <2>3 DEF PublishedInv
<1>16. BeforeInit'
  BY <1>1, <1>3, <1>6, <1>7, <1>8, <1>10, <1>12 DEF BeforeInit, Unconfigured
<1> QED BY <1>11, <1>12, <1>13, <1>15, <1>16, TwoPartsNext DEF IInv

-----------------------------------------------------------------------------
(* The theorems. *)

LEMMA InitInv == ASSUME Init PROVE IInv
<1>1. TypeOK
  <2>1. commits \in Seq(CommitRecords) /\ Len(commits) = 0
    BY DEF Init
  <2>2. First \in Texts
    BY ConstantsAssumption DEF First
  <2>3. worktree \in Trees
    <3>1. \A p \in Paths : (IF p \in Existing THEN Plain(First) ELSE Absent) \in Blobs
      BY <2>2, BlobTypes
    <3> QED BY <3>1, TreeTypes DEF Init, Trees
  <2>4. CloneTypes
    <3>1. index = EmptyTree /\ EmptyTree \in Trees /\ head \in Branches /\ skip \subseteq StagedPaths
      BY TreeTypes, ConstantsAssumption DEF Init
    <3>2. /\ installed \in BOOLEAN /\ generated \in Keys
          /\ edits \in 0..MaxEdits /\ slips \in 0..MaxSlips
      <4>1. 0 \in Keys /\ 0 \in 0..MaxEdits /\ 0 \in 0..MaxSlips
        BY ConstantsAssumption DEF Keys
      <4>2. installed = FALSE /\ generated = 0 /\ edits = 0 /\ slips = 0
        BY DEF Init
      <4> QED BY <4>1, <4>2
    <3> QED BY <2>3, <3>1, <3>2 DEF CloneTypes
  <2>5. RepoTypes
    BY <2>1, ConstantsAssumption DEF Init, RepoTypes
  <2> QED BY <2>4, <2>5, TwoParts
<1>2. Made = {} /\ published = {}
  BY DEF Init, Made
<1>3. BeforeInit
  BY <1>2 DEF Init, BeforeInit, EmptyTree
<1>4. PublishedInv
  BY <1>2 DEF Init, PublishedInv
<1>5. HistoryInv /\ WitnessInv
  BY <1>2 DEF HistoryInv, WitnessInv
<1> QED BY <1>1, <1>3, <1>4, <1>5 DEF IInv

LEMMA NextInv == ASSUME IInv, Next PROVE IInv'
<1>1. CASE Local
  BY <1>1, LocalInv
<1>2. CASE \E amend \in BOOLEAN : CommitHooked(amend) \/ CommitUnhooked(amend)
  <2>1. PICK amend \in BOOLEAN : CommitHooked(amend) \/ CommitUnhooked(amend)
    BY <1>2
  <2>2. CASE CommitHooked(amend)
    BY <2>2, HookedInv, Zenon
  <2>3. CASE CommitUnhooked(amend)
    BY <2>3, UnhookedInv, Zenon
  <2> QED BY <2>1, <2>2, <2>3
<1>3. CASE \E b \in Branches : Branch(b) \/ DeleteRemote(b)
  BY <1>3, BranchInv, DeleteInv
<1>4. CASE \E b \in Branches, hooked \in BOOLEAN : Checkout(b, hooked)
  <2>1. PICK b \in Branches : \E hooked \in BOOLEAN : Checkout(b, hooked)
    BY <1>4
  <2> QED BY <2>1, CheckoutInv
<1>5. CASE \E c \in known, hooked \in BOOLEAN : FastForward(c, hooked) \/ Merge(c, hooked)
  <2>1. PICK c \in known : \/ \E hooked \in BOOLEAN : FastForward(c, hooked)
                          \/ \E hooked \in BOOLEAN : Merge(c, hooked)
    BY <1>5
  <2> QED BY <2>1, FastForwardInv, MergeInv
<1>6. CASE \E S \in SUBSET Branches : Push(S)
  BY <1>6, PushInv
<1>7. CASE Fetch
  BY <1>7, FetchInv
<1>8. CASE \E b \in Branches, p \in Files : TeammatePush(b, p)
  BY <1>8, TeammateInv
<1> DEFINE Others ==
        \/ Local
        \/ Fetch
        \/ \E amend \in BOOLEAN : CommitHooked(amend) \/ CommitUnhooked(amend)
        \/ \E b \in Branches : Branch(b) \/ DeleteRemote(b)
        \/ \E b \in Branches, hooked \in BOOLEAN : Checkout(b, hooked)
        \/ \E c \in known, hooked \in BOOLEAN : FastForward(c, hooked) \/ Merge(c, hooked)
        \/ \E S \in SUBSET Branches : Push(S)
<1>9. ASSUME User PROVE Others
  <2>1. CASE \E p \in Files : \E blob \in Contents : Edit(p, blob)
    <3>1. Contents \subseteq Blobs
      BY BlobTypes
    <3> QED BY <2>1, <3>1 DEF Local
  <2>2. CASE \E p, q \in Files : p # q /\ worktree.blob[q] # Absent /\ Edit(p, worktree.blob[q])
    <3>1. \A q \in Files : worktree.blob[q] \in Blobs
      BY KeyTyped DEF IInv, TypeOK, Trees
    <3> QED BY <2>2, <3>1 DEF Local
  <2>3. CASE ~(\E p \in Files : \E blob \in Contents : Edit(p, blob))
             /\ ~(\E p, q \in Files : p # q /\ worktree.blob[q] # Absent /\ Edit(p, worktree.blob[q]))
    BY <1>9, <2>3, Zenon DEF User, Local
  <2> QED BY <2>1, <2>2, <2>3
<1> QED BY <1>1, <1>2, <1>3, <1>4, <1>5, <1>6, <1>7, <1>8, <1>9 DEF Next, Local

LEMMA StutterInv == ASSUME IInv, UNCHANGED vars PROVE IInv'
<1>1. TypeOK /\ BeforeInit /\ RepoTypes
  BY TwoParts DEF IInv
<1>2. UNCHANGED <<commits, branches, head, index, worktree, skip, remote, published, known,
                  installed, generated, edits, slips>>
  BY DEF vars, here, there
<1>3. CloneTypes' /\ Unconfigured'
  BY <1>1, <1>2, CloneStays, SlipTypes
<1> QED BY <1>1, <1>2, <1>3, RepoStays, QuietInv

\* The invariant the others follow from: every commit's history is made of earlier
\* commits and closed, what was pushed passes pre-push's structural check, and
\* plaintext or the raw key in a commit goes back to one that does not
\* (verify.go:100-160, hooks.go:125-141).
THEOREM HooksInvariant == Spec => []IInv
<1>1. Init => IInv
  BY InitInv
<1>2. IInv /\ [Next]_vars => IInv'
  BY NextInv, StutterInv
<1> QED BY <1>1, <1>2, PTL DEF Spec

\* The clone, the remote and every commit keep their types; a hidden file is tracked
\* (hooks.go:97-107, lock.go:92-101).
THEOREM HooksTypes == Spec => []TypeOK
<1>1. IInv => TypeOK
  BY DEF IInv
<1> QED BY <1>1, HooksInvariant, PTL

\* No text of a file that a whole history protects reaches the remote, however its
\* commits were made (hooks.go:125-141, verify.go:100-160).
THEOREM NothingLeaksEver == Spec => []NothingLeaks
<1>1. ASSUME IInv PROVE NothingLeaks
  <2>1. published \subseteq Made
    BY <1>1 DEF IInv, TypeOK, Made
  <2>2. ASSUME NEW c \in published, NEW p \in Files PROVE ~Refused(c, p)
    BY <1>1 DEF IInv, PublishedInv, Refused
  <2> QED BY <1>1, <2>1, <2>2 DEF NothingLeaks, IInv, WitnessInv, AlwaysProtected
<1> QED BY <1>1, HooksInvariant, PTL

\* The raw key never reaches the remote in a history that keeps it in a file
\* (verify.go:77-80, verify.go:100-160).
THEOREM KeyStaysHomeEver == Spec => []KeyStaysHome
<1>1. ASSUME IInv PROVE KeyStaysHome
  <2>1. published \subseteq Made
    BY <1>1 DEF IInv, TypeOK, Made
  <2>2. ASSUME NEW c \in published PROVE ~Refused(c, KeyFile)
    BY <1>1 DEF IInv, PublishedInv, Refused
  <2> QED BY <1>1, <2>1, <2>2 DEF KeyStaysHome, IInv, WitnessInv, KeptInAFile
<1> QED BY <1>1, HooksInvariant, PTL

\* What a push leaves at the branch checked out opens with the key of the clone that
\* pushed it (hooks.go:132-136, verify.go:24-98).
THEOREM PushedHeadOpensEver == Spec => PushedHeadOpens
<1> DEFINE Opens == \A p \in Files :
          (installed /\ remote' # remote /\ remote'[head] = HEAD /\ remote[head] # HEAD) =>
              (Protects(HEAD, p) => LET blob == TreeOf(HEAD).blob[p]
                                    IN blob = Absent \/ openFile(blob, Key, p))
<1>1. ASSUME IInv, [Next]_vars PROVE Opens
  <2> SUFFICES ASSUME NEW p \in Files, installed, remote' # remote, remote'[head] = HEAD,
                      remote[head] # HEAD, Protects(HEAD, p), TreeOf(HEAD).blob[p] # Absent
               PROVE  openFile(TreeOf(HEAD).blob[p], Key, p)
    OBVIOUS
  <2>1. TypeOK /\ RepoTypes /\ HEAD \in 0..Len(commits) /\ Len(commits) \in Nat
        /\ TreeOf(HEAD) \in Trees /\ head \in Branches
    BY <1>1, TwoParts, HeadTyped DEF IInv, RepoTypes, TypeOK
  <2>2. HEAD # 0
    BY DEF Protects, TreeOf, EmptyTree
  <2>3. CASE \E S \in SUBSET Branches : Push(S)
    <3>1. Verified(HEAD) /\ TreeOf(HEAD).config # NoConfig
      BY <2>3 DEF Push, HookPrePush, Protects
    <3>2. Key # 0 /\ p \notin VerifyAtRevision(HEAD)
      BY <3>1 DEF Verified
    <3>3. TreeOf(HEAD).config \in Configs /\ Effective(TreeOf(HEAD).config).k8s = TreeOf(HEAD).config.k8s
      BY <2>1, <3>1, ConstantsAssumption DEF Trees, Effective
    <3> QED BY <3>1, <3>2, <3>3 DEF Protects, VerifyAtRevision, lintK8sManifest
  <2>4. CASE \E b \in Branches, q \in Files : TeammatePush(b, q)
    <3>1. PICK b \in Branches : remote' = [remote EXCEPT ![b] = Len(commits) + 1]
      BY <2>4 DEF TeammatePush
    <3> QED BY <2>1, <3>1 DEF RepoTypes
  <2>5. CASE \E b \in Branches : DeleteRemote(b)
    BY <2>1, <2>2, <2>5 DEF DeleteRemote, RepoTypes
  <2>6. \/ \E S \in SUBSET Branches : Push(S)
        \/ \E b \in Branches, q \in Files : TeammatePush(b, q)
        \/ \E b \in Branches : DeleteRemote(b)
        \/ remote' = remote
    <3>1. CASE UNCHANGED vars
      BY <3>1 DEF vars, there
    <3>2. CASE Plugin
      BY <3>2, LocalStays DEF Local
    <3>3. CASE User
      BY <3>3 DEF User, Edit, EditConfig, Stage, StageConfig, Untrack, CommitHooked, CommitUnhooked,
                  CommitRefused, Branch, Checkout, Restore, FastForward, Merge, Fetch, there
    <3> QED BY <1>1, <3>1, <3>2, <3>3 DEF Next
  <2> QED BY <2>3, <2>4, <2>5, <2>6
<1>2. Spec => [][Opens]_vars
  BY <1>1, HooksInvariant, PTL DEF Spec
<1> QED BY <1>2 DEF PushedHeadOpens
=============================================================================
