# Keyfold in TLA+

Keyfold keeps secrets encrypted in Git.  It is two products on one envelope
format: a **git plugin** (`git-keyfold`) that seals files of a repository under
one content key, and a **Kubernetes controller** that turns `GitSecret` objects
into `Secret`s.  This directory models the parts of it whose correctness depends
on the order of steps, checks them with TLC, and proves the safety properties of
all seven, and a refinement, for every value of the constants.

## The system

| Component | State | Operations | What makes it correct | Module |
|---|---|---|---|---|
| GitSecret controller (`internal/controller`) | the objects and Secrets on the API server; informer cache; work queue; locals of the running reconcile | `Reconcile`: get, unseal, ownership guard, release, create-or-update, status update; watches of `GitSecret` and of owned `Secret` | the Secret mirrors the object; nobody else's Secret is touched; the status is true | `GitSecretController`, `SecretMirror` |
| Git plugin, key commands (`internal/cli`: rotate, adduser, removeuser, lock, unlock; `keybackend`) | working tree, index, `key_source`, `key_source.new`, config | the commands, step by step | no file becomes unreadable; removal revokes; no silent access | `KeyRotation` |
| Git plugin, hooks and verify (`internal/cli`: hooks, verify, init) | working tree, index, skip-worktree bits, commits, remote | pre-commit, post-checkout, post-merge, pre-push, verify | no plaintext of a protected file, nor the key, is pushed; what is pushed opens | `GitHooks` |
| GitSecret lifecycle (`cmd/keyfold`, `internal/sealer`) | manifests in files | seal, rewrap, recipients add/remove, rekey, set, migrate, unseal | an object opens for its recipients and no other; an interrupted bulk change can be finished | `SealedManifests` |
| Admission webhook (`internal/webhook`) | a CA per process, the lease, the CA bundle of one configuration | serve, elect, inject, admit | the bundle matches the elected process's CA; what is admitted opens | `WebhookCertificate`, `SealedManifests` |
| Metrics authorization (`internal/metricsauth`) | cache of allowed tokens | authorize: cache, TokenReview, SubjectAccessReview, remember | a revocation is honoured in time; no refusal without cause or failure; the cache is bounded | `MetricsAuth` |
| Config (`internal/config`) | repository config under two names, global config | load, merge, validate, save, match | a global config only adds protection; a save keeps the policy | `RepoConfig` |
| Per-value encryption (`internal/cli/k8svalue.go`, `kubectl-keyfold`) | values in a manifest | encrypt-value, lint, decrypt | a value is bound to its key and object | `GitHooks`, `KeyRotation`, partly |
| Envelope (`crypto`) | none | seal, open, atomic write | authenticated | operators of the modules above |
| gpg and git wrappers (`gpgutil`, `gitutil`) | none | child processes | — | faults of the modules above |
| Controller process (`cmd/keyfold-controller`) | the manager | start, stop, serve the public key | — | `Restart`, `Start`, `Stop` |
| Seal web UI (`cmd/keyfold/ui.go`) | a semaphore | `/api/seal` | slots come back | not modelled |
| Chart, manifests, documentation | — | — | — | not modelled |

How they interact: the lifecycle commands produce `GitSecret` manifests, a GitOps
tool applies them, the webhook admits them, the controller unseals them.  The
controller sees the cluster only through its cache (reads) and the API server
(writes).  The plugin's commands and hooks share the working tree, the index, the
key and the config **without any lock**; gpg and git are child processes that may
fail at any call.

What is hard: reads from a lagging cache and optimistic writes; two writes that
belong together (release and take over, Secret and status, files and key, config
and key); a process that dies between them; errors that are logged and dropped;
retries of what was half done; merges that bring together what was written
apart; two objects, or two commands, on one thing.  `PROJECT.json` lists each
hazard at its line with the properties about it, and says why where there is
none.

## Modules

| Module | What it is |
|---|---|
| `SecretMirror` | what the controller promises, without cache, queue and calls |
| `GitSecretController` | the controller, the API server and the people around it; implements `SecretMirror` |
| `GitSecretController_proofs` | its inductive invariants and nine theorems |
| `SecretMirror_proofs` | the refinement, proved |
| `KeyRotation` | the plugin's key commands in one working tree |
| `KeyRotation_proofs` | type correctness, and six theorems about one command at a time |
| `GitHooks` | the plugin's hooks in one clone, its commits and its remote |
| `GitHooks_proofs` | its inductive invariant and four theorems |
| `SealedManifests` | the lifecycle commands on manifests in a repository of two branches |
| `SealedManifests_proofs` | its inductive invariant and seven theorems |
| `WebhookCertificate` | controller processes, the lease and the CA bundle |
| `WebhookCertificate_proofs` | its inductive invariants and four more theorems |
| `MetricsAuth` | requests for `/metrics`, the cache, rights and time |
| `MetricsAuth_proofs` | its inductive invariant and four theorems |
| `RepoConfig` | config files, globs and the commands that save |
| `RepoConfig_proofs` | what a merge keeps, what a glob selects, and four theorems |
| `MC...` | model values and inputs of the runs |

Every definition that stands for code is mapped to its lines in `PROJECT.json`.
Definitions headed *Mutant of* are broken variants of the definition they name,
used to see that a property can fail.  A module that keeps what happened, for a
property to speak of, declares it as history.

### GitSecretController and SecretMirror

`Reconcile` (gitsecret_controller.go 43-206) is cut at its calls, because other
writers act between them:

| Action | Code |
|---|---|
| `Fetch` | Get of the GitSecret, `sealer.Unseal`, the `UnsealFailed` return |
| `Guard` | Get of the Secret, ownership switch, the `TargetConflict` return |
| `Release` | Update that drops the pre-rename owner |
| `Lookup` | first half of CreateOrUpdate: Get, mutate, `SetControllerReference` |
| `Write` | second half: Create or Update |
| `StatusWrite` | `Status().Update`, after a sync or from `persistStatus` |

The server keeps, per name, a version and an object; a write that changes nothing
keeps the version.  `gsWatch` and `secretWatch` hold what the watches have yet to
deliver; `ObserveGitSecret` and `ObserveSecret` deliver it to the cache, one
object's versions in order and different objects in any order, and enqueue as
`For` and `Owns` do.  All reads of `Reconcile` are from the cache.  A write is
refused unless the version it was computed from is current.  The two tests of a
Secret's owner differ: the guard compares the uid too (`MayTake`),
`SetControllerReference` compares group, kind and name and replaces the reference
(`Controllable`), so that a GitSecret that was deleted and created again takes over
what its predecessor left, by adopt or because the guard read too early.  The clock
moves when it is read.  An `"api"` fault
fails a call before or after it takes effect; a `"gpg"` fault fails Unseal;
a `"crash"` restarts the process, which lists everything anew.

`GitSecret` objects carry a uid and a generation; a spec is a target, adopt, and
what it unseals to.  Left out, because no branch of `Reconcile` depends on them:
recipients, provenance annotations, the Secret's type, condition messages.
`SyncedKeys` moves with `ObservedGeneration` and is not kept.  One namespace:
owner references do not cross one.  One worker, the default of the builder.

`SecretMirror` has three variables: per object its identity, generation, target,
payload and report; the Secrets; and which generations were written.  Its steps
are `Apply`, `Delete`, `Mirror`, `Report`, `Release` and `Others`, each atomic.
The refinement mapping (`Promise`) reads the first two off the API server's state
and the third off the history `applied`; caches, queue and locals map to nothing,
so that `Fetch`, `Guard` and `Lookup` are stuttering steps, `Write` is `Mirror`
and `StatusWrite` is `Report`.  `Mirror` says what a stale reconcile must not do:
write for a generation of the object that there has not been, for the current one
to another target or with other data, or over a Secret of anybody but a GitSecret of
its name.

### KeyRotation

`RotateKeys` is `Plan` (all reads, one step), `Generate`, `Seal`, then per file
`WriteFile` and `Restage`, then `Promote`; `Save` is the config write that
`rotate-keys` (PersistGPGRecipients) and `removeuser` do afterwards.  `AddUser`
is `AddSave` and `AddPromote`; lock and unlock are `ReadFile` and `PutFile` per
file.  `staging` is `key_source.new`; for the env backend it is the key that was
printed and not yet exported.  A fault is `"io"` (a call fails), `"git"` (an
index update fails, which the code ignores) or `"crash"`.  Of a file the model
keeps the key it is sealed under; of a key its number and whom it is wrapped to.
The user edits and commits, at any time when `UserOverlaps` is TRUE.  `Commit` is
`git add` followed by a commit with its pre-commit hook.  Left out: the text of
files (so a lost edit is not seen), the skip-worktree bit, `.gitignore`,
`repo_id`, files deleted from the working tree.

### GitHooks

One clone: the working tree, the index and every commit are trees, each with a config
of its own, since the config is a tracked file.  A blob is absent, plain, a symlink, an
envelope (text, key, path, nonce) or something that merely has the magic bytes.  The
hooks ask git with `--diff-filter=ACMR` (`Changed`), which reports neither deletions nor
type changes: a file in place of a symlink is in no answer.  lock, unlock and
rotate-keys stop at a file that is absent or a symlink (`Readable`).  `HookPreCommit`,
`HookPostCheckout` and post-merge, `HookPrePush`, `Verify`, `InitRepository`, `Lock`,
`Unlock`, `RotateKeys` and `EncryptK8sValue` are the plugin's; around them the user
edits, stages, commits, amends, branches, checks out, restores, merges, pushes sets of
branches, forces and deletes, and teammates push.  A git command with its hook is one
step; a hook that fails partway is a step that does part of it.  A `Slip` is something
out of the ordinary: a hook bypassed, a history rewritten, a conflict resolved in
plaintext, the key force-added.  Pre-push is not bypassed once installed, paths of
`k8s_secret_paths` are not matched by `patterns` too, and teammates do not put files in
place of symlinks.

### SealedManifests

A manifest is a content key and whom it is wrapped to, the data and the key that is
sealed under, whom `spec.recipients` lists, its roles and its provenance stamp.
`recipients add` and `remove` (`Mutate`) compute every file first and then write them
one by one (`Write`, `Abandon`); `SealManifest`, `RewrapManifest`, `Rekey`, `SetValue`
and `Migrate` write one.  `validate` and `VerifyRecipients` are the admission webhook.

There is a second branch, and `Merge` is git's, line by line: it takes the API group,
the wrapped key, the data, the roles and the stamp each from either side (`Splice`),
and of the list whom both sides have and any of those whom one has.  What the merge
base decides and what the user is asked is not told apart, so that every outcome is
tried.  `spliced` records in what way a manifest was left apart and is taken back when
a command wraps, seals or stamps anew; `guarded` records that a manifest was sealed to
a recovery recipient and that neither `--force`, nor `--rewrap`, nor a merge has taken
one away.  A list that names somebody twice is not modelled, as the CRD has it a set
(gitsecret_types.go:56) and the API server refuses it before the webhook; nor is a
manifest on which a merge left the role annotation under its old and its new key.

### WebhookCertificate

A process is a start of the controller and has a CA of its own.  `Start`, `Elect`,
`Inject` (Get), `Land` (Update, which arrives even if its sender has ended),
`CallFails`, `Stop`, `Expire`; others do `EditConfig` and `Install`.  The lease is
taken to be fenced (one holder, released only after its holder ended); leader
election is taken to be on, as the chart has it.  `Orderly` says that the
configuration is created once and before a leader looks for it; see *Other
behaviours* for what happens when it is not.

### MetricsAuth

A request is `Arrive` (cache), `TokenReview`, `SubjectAccessReview`, `Answer`, `Done`,
or `ReviewFails` at any point up to the deadline, which is answered 401 or 403.  Rights
change at any step; `Tick` is time, which stops at a review's deadline.  Ages say how
long a caller has been without a right and are counted up to `Window`.

### RepoConfig

Paths and globs are sequences of segments; `matchSegments` is the code's recursion, and
`GlobsSelect` compares it with a description of the language that cuts a path into one
piece per segment of the glob.  `Load` merges defaults, the global config and the
repository's, under its new or its old name; `InitNew`, `InitAgain` and `Granting`
(adduser, removeuser, rotate-keys) save what they loaded, which `CommandsKeepPolicy`
compares on the machine that saves and on machines with any other global config.  Users
rewrite either file and rename the old one.

## Runs

All runs are expected to pass.  Deadlock is checked in those of `KeyRotation` and
`MetricsAuth`; in the others the system may stop once the bounds are used up.

| Run | Question | States |
|---|---|---|
| `controller` | one object, two payloads, adopt on and off, an unreadable spec, drift, migration, a restart: is Ready earned, is everything reported once it is quiet, and is every behaviour one of `SecretMirror`? | 1.6 M |
| `controller_shared` | two objects want one Secret, created, deleted and created again, a failed API call or a restart: does either take what is not its own or its predecessor's, and is an owned Secret ever left out of date with nothing to bring the worker back? | 4.8 M |
| `controller_live` | two gpg failures, failed API calls or restarts anywhere: under fairness, is an entitled object synced and Ready in the end? | 1.3 M |
| `rotation` | file and gpg backends, a recipient whom only the global config lists, failures and crashes anywhere, a user who does not wait: recoverable, revoked, no silent grant, and does whoever gets the key show up in the committed config? | 4.4 M |
| `rotation_calm` | all backends, no failures, a user who waits: is every staged blob under the key in place, the printed key of the env backend included? | 33 k |
| `hooks` | a file and a manifest that come to be protected, two edits, symlinks among them, and one slip: does anything get out in the clear, does what is pushed open? | 356 k |
| `hooks_branches` | two branches, merges, pushes of either or both, a rotation, symlinks, a force-added key: does it get out by another branch or a merge? | 1.4 M |
| `manifests` | four commands, merges and checkouts on one manifest with two recovery recipients, merged line by line: do the commands keep list, key, data, roles and stamp together, do they mend what a merge left apart, and what does the webhook let through? | 796 k |
| `manifests_live` | two manifests, a bulk addition interrupted and overlapped: does running it again finish it? | 206 k |
| `config` | six globs, three configs, two global ones, three changes: does a file fall out of protection, does a save change the policy, for the machine that saves or for another? | 4.5 k |
| `webhook` | ten starts, four disruptions: is the leader trusted in the end, does it stay so, does a dead CA come back? | 37 k |
| `metrics` | two callers, two requests at once, a cache of one: revoked in time, refused for cause or for a review that failed, bounded | 274 k |

### Bounds, and why they are enough

- Controller: three changes by users allow create, edit, delete, or delete and
  recreate around a reconcile, and a foreign Secret created in the middle of one;
  with two objects, one of them and a change of the Secret, which may have been
  somebody's from the start.  The two objects of `controller_shared` are
  interchangeable, and the run counts them so.  Two faults, at every step, are a
  failure and a failure of what it brings about (`controller_live`, with two changes):
  the second gpg failure in a row leaves no event behind, and only the resync helps.
  `MaxVersion` stops the garbage collector after three or four versions of a Secret: a
  stale cache could otherwise have a Secret created and collected for ever.
  `MaxClock` is one in `controller_live`, enough to tell two times apart and to have
  one status write bring on another reconcile.  Two payloads tell an old
  write from a new one; the shared run needs one, which is enough to tell what the
  controller wrote from what others did.  The faults of
  `controller` are restarts alone, because `QuietIsReported` does not survive a
  failed API call (below); `MirrorsSecrets` does, and is proved for all faults.
  `controller_shared` has no gpg failures, which `QuietOwnedIsSynced` does not survive.
- KeyRotation: two files and a manifest give a write loop with a first, a middle
  and a last; two generated keys a rotation after a rotation (three in the smaller
  run); two faults a failure and a failure of the retry; of three people one runs the
  commands, one comes and goes, and one is in the global config, so that every load
  merges them in.  The two files are interchangeable, and the run counts them so.
- GitHooks: three commits are a base, one that breaks and one that hides it, or
  two sides and their merge.  One slip at any step is the one mistake that the
  properties must survive; two edits are a change and a change of it, or a symlink
  and the file in its place.
- SealedManifests: two content keys tell before from after a rekey; three people are
  one who comes and goes and two for recovery, so that either branch can lose another
  of them; four commands are two on either side of a merge, or a removal, a rekey, a
  branch and its return.  `Lists` is what `--recipient` is given: somebody without a
  recovery role, the rest comes from the keyring.  Failures are in `manifests_live`
  only, whose two files give a bulk change something to be interrupted between.
- WebhookCertificate: ten starts and four disruptions leave, after every
  disruption, processes to start, which `EventuallyTrusted` needs.
- MetricsAuth: the state space is finite without bounds on the number of requests;
  a limit of one makes every second caller an eviction.
- RepoConfig: four paths of one to three segments and six globs put `**` at the
  start, at the end, in the middle and twice in a row, before and after names that
  occur in another order elsewhere.

### Fairness

- `GitSecretController!FairSpec`: weak fairness of the steps of the running
  reconcile, of watches, resync and garbage collector, and strong fairness of
  fetching each queued name.  The work queue is first in, first out and the worker
  loops for as long as the manager runs, so a queued name is fetched in the end
  even while another one keeps being requeued.  Nothing is assumed of users, and
  faults are finite in number: no liveness is claimed of a server that always
  fails.
- `SealedManifests!FairSpec`: a bulk command that has begun goes on, and somebody
  runs the interrupted addition again as long as it says it would change anything.
  That somebody does is what the command's message asks of its user; what is
  checked is that this is enough.
- `WebhookCertificate!FairSpec`: a Deployment starts the processes it lacks, one
  is elected when the lease is free, calls are answered, and the lease of an ended
  holder expires.
- The other modules have none: nobody need run a command or send a request, and no
  property of theirs is about what must happen.

## What is proved

Assumptions are those the modules name, which every run evaluates
(`ConstantsAssumption`, `MirrorAssumption`, `CallersAssumption`); sets, limits and
times are otherwise arbitrary.

| Module | Theorem | Property |
|---|---|---|
| `GitSecretController_proofs` | `InductiveInvariant` | `Spec => []Inv` |
| | `TypeCorrectness` | `TypeOK` |
| | `ReadyIsAlwaysEarned` | `ReadyIsEarned` |
| | `ObservedMovesForward` | `ObservedNeverRegresses` |
| | `NobodyIsRobbed` | `NoTheft` |
| | `GuardHolds` | `GuardedSecretIsLeftAlone` |
| | `WorkerIsBroughtBack` | `Spec => []WakeInv` |
| | `QuietReports` | `QuietIsReported`, if `"api"` is not in `FaultKinds` |
| | `QuietReadyHolds` | `QuietReadyIsTrue`, if `"api"` is not in `FaultKinds` |
| | `QuietOwnedHolds` | `QuietOwnedIsSynced`, if `"gpg"` is not in `FaultKinds` |
| `SecretMirror_proofs` | `ControllerMirrorsSecrets` | `MirrorsSecrets` |
| `MetricsAuth_proofs` | `ReviewerInvariant` | `Spec => []IInv` |
| | `ReviewerTypes` | `TypeOK` |
| | `RevocationIsBounded` | `RevokedSoonRefused` |
| | `RefusalsHaveCause` | `RefusedForCause` |
| | `CacheStaysBounded` | `CacheIsBounded` |
| `KeyRotation_proofs` | `RotationTypes` | `TypeOK` |
| | `EveryFileRecovers` | `Recoverable`, if `Single` and the key outlives the process |
| | `NobodyGetsTheKeyUnlisted` | `NoSilentGrant`, if `Single` |
| | `GrantsAreShown` | `GrantsShow`, if `Single` |
| | `RemovalRevokes` | `Revoked`, if `Single` |
| | `WhatIsStagedOpens` | `StagedOpens`, if `Calm` |
| | `AddUserRewrapsOnly` | `AddUserKeepsKey`, if `Single` |
| `GitHooks_proofs` | `HooksInvariant` | `Spec => []IInv` |
| | `HooksTypes` | `TypeOK` |
| | `NothingLeaksEver` | `NothingLeaks` |
| | `KeyStaysHomeEver` | `KeyStaysHome` |
| | `PushedHeadOpensEver` | `PushedHeadOpens` |
| `SealedManifests_proofs` | `ManifestInvariant` | `Spec => []IInv` |
| | `ManifestTypes` | `TypeOK` |
| | `EveryoneReads` | `EveryRecipientReads` |
| | `StampsSpeakTrue` | `StampIsTrue` |
| | `CountIsEnough` | `AdmittedOpensForRequired` |
| | `RerunsFinish` | `Spec => []RerunFinishes` |
| | `RekeyLocksOut` | `LockedOut`, if `~Overlaps` |
| | `RecoveryRemains` | `RecoveryStays` |
| `RepoConfig_proofs` | `ConfigTypes` | `TypeOK` |
| | `GlobalNeverUnprotects` | `GlobalOnlyProtectsMore` |
| | `CommandsNeverChangePolicy` | `CommandsKeepPolicy` |
| | `GlobsSelectExactly` | `GlobsSelect` |
| `WebhookCertificate_proofs` | `CertificateInvariant` | `Spec => []IInv` |
| | `CertificateTypes` | `TypeOK` |
| | `NoDeadCAReturns` | `NeverAnEarlierCA` |
| | `LeaderStaysTrusted` | `SettledIsTrusted` |
| | `NobodyWaitsInVain` | `Spec => []SomethingIsDue` |

**The controller.**  `ReadyIsEarned` is not inductive: a status write is computed
from a cached copy, so one has to know how that copy relates to the server.  `Inv`
adds
- `CopiesInv`: every copy, in the cache, in a watch or in the hands of the running
  reconcile, is the server's object or an older version of it;
- `StatusInv`: the status in *every* copy is truthful, since a later write may
  carry any of it forward;
- `JobInv`: what the reconcile has established by the step it is at (the object
  unseals, the Secret the guard read is one it may have (`Permitted`), the Secret read
  since is controllable, the status to be written is truthful).

Each step either moves an entry to its next version, which makes all copies of it
older, or leaves it; the lemmas `...Moves`, `...Version` and `...Job` say which,
action by action.  The write accepted by the server is then the one computed from
what is there, which gives the four consequences.

**The quiet controller.**  What the worker left alone is settled only if nothing it
has not seen can go unnoticed.  `WakeInv` adds to `Inv` that the newest version of
everything is in the cache or coming (`Delivered`), that a running reconcile works
from the newest object, unless its name is queued or an event on the way
(`JobCurrent`), and that it is about to put on record only what excuses it
(`StatusStep`).  An object that is `Current` has no event of its own coming and is
not queued; it is `Settled` when its target is in sync, or when a version it
controlled is in the Secret's cache or watch with another behind it, so that a
delivery enqueues it (`WillWake`).  `StaysSettled` says that no step undoes this,
`OwnershipIsTaken` that only the object's own reconcile can make a Secret its own,
and the `...Verdict` lemmas how each step of a reconcile may end.

**The refinement.**  A write of a Secret is made for a copy of its object that may
be old, and `Inv` does not say in what.  `MirrorInv` adds `IdentityInv` (a copy of
the same uid has a smaller generation, or the same one and then the same spec, and
no copy's uid is above its version), `WrittenInv` (no uid that was written for is
above the object's version, so that an object created later is not one of them) and
`RecordInv` (a condition other than Synced leaves the observed generation alone).
`GitSecretStep` and `SecretStep` sort all of `Next` into the four things that can
happen to one object and the three that can happen to one Secret, and
`ObjectMirrors`, `WriteMirrors` and `SecretMirrors` find the step of `SecretMirror`
for each.

**The metrics reviewer.**  `RevokedSoonRefused` needs to know how old the reviews are
that an answer rests on: `IInv` says that a request under review is no older than the
deadline and that the right it was granted was there when it began or since, that what
is left of a cache entry and the age of the right behind it add up to no more than the
two times together, and that a request without a right meanwhile is marked, and one
whose review failed.  `CacheIsBounded` rests on the cardinality of what `Room` leaves.

**The webhook's CA.**  A process that lost the lease may still have an Update in
flight, so `NeverAnEarlierCA` needs to know what that Update was computed from.
`RequestInv` says that one the apiserver will still accept carries the CA of a leader
no earlier than those whose CAs are in the configuration; it rests on `LeaseInv`
(whoever holds the lease leads last), `BundleInv` (what is published is a leader's)
and `TermsInv` (no two processes lead in one term).  `CountInv` gives the bound on
versions: a process sends one Update at most, and only disruptions count besides.
`EventuallyTrusted` is liveness, but its safe halves are proved: `SettledIsTrusted`, that
the end is not undone while `Orderly` holds, and `SomethingIsDue`, that before it
somebody has a step to take.  `SettledInv` says that what is still on its way when the
leader is done carries an older version than the configuration has, and that no CA is
published before its process has sent it; `AnswerInv` that whoever waits for an answer
has an Update on its way.

**The key commands.**  Types hold of any number of commands at once.  The promises
need that nobody writes between a command's reads and its writes, which no lock in
the code ensures: they are stated for `Single`, at most one process, and fail
otherwise (*Other behaviours*).  `Alone` is the invariant then:
- `JobInv`: what a command read when it started is still what is on disk; while a
  rotation writes, `key_source.new` is the new key wrapped to whom it chose; the env
  backend's printed key is exported before anything else starts;
- `GrantInv`: the key is wrapped to nobody outside the merged config, at every step,
  which is why adduser saves the config first;
- `FilesInv`: before a rotation writes, all files open with the old key; while it
  does, those left to write with the old and the others with the new; after it ended,
  however it did, with one of the two that are on disk.  It is conditional on `Safe`:
  the new key is on disk, or nothing fails but git.

`Revoked` is not inductive, because a removal is recorded by the last of its steps.
`RemovedInv` adds what holds before it: nobody has a key that is yet to be generated
(`GrantedKeys`, `HeldWasGenerated`), and whom a rotation removes does not have the
key it rotates to (`Passed`); then a file gets a new key only from those in use
(`InUse`), which are closed to everyone removed whom the global config does not
list.  `GrantsShow` follows from `JobInv`: when a rotation saves the config the key is
wrapped to whom it saves, and when adduser puts the key in place the config already
lists them.  `StagedOpens` is about `Calm`: no failed call, a user who waits, no
manifests (which RotateKeys restages only if sealed), crashes only where the key is on
disk.  `StagedInv` follows the write loop: the blobs of the files no longer to be
written are under the new key.

**The hooks.**  `NothingLeaks` speaks of the content of every published commit, and
pre-push looks at what each commit changes.  `WitnessInv` is the bridge: a commit
anywhere that holds plaintext of a file its whole history protects, or the raw key,
has in its history a commit that `verifyCommitStructurally` refuses, because content
comes from a parent unless the commit changes it, or changes its type: of the last the
hooks know nothing, so the plaintext is excepted when a commit of the history put it in
place of a symlink (`ReplacesLink`).  `PublishedInv` says that what is on
the remote is there with its history and is not refused, `HistoryInv` that histories
are made of earlier commits and closed, and `BeforeInit` that nothing is protected
before there are hooks.  There is no hypothesis on slips: bypassed hooks, rewritten
histories and force-added keys are among the steps.

**The manifests.**  `VersionsInv` says of every version of a manifest that is to be
found (in either branch, or computed and not yet written) what `EveryRecipientReads`,
`StampIsTrue` and `RecoveryStays` say of the working tree, each under what `spliced`
and `guarded` record, so that it speaks of what a merge leaves apart and of what the
commands do to it; `KeysInv` that a key belongs to one manifest, so that no merge or
write can carry it to another.  `CountIsEnough` follows: two finite sets of one size,
one within the other, are the same.  It is why a list that a merge has only made longer
is refused, and why one that it has changed is not.  `RerunsFinish` is what safety has
to say of `RetryConverges`: an interrupted addition that is run again has what is left
of it to do, is refused by nothing that is done already, and leaves whoever ran it able
to run it once more.  `LockedOut` fails when a command runs while a bulk change is being
written, so it is proved for `~Overlaps`; `PendingInv` then says that what is about to be
written was computed from what is still there.

**The config.**  A merge of layers takes its policy from the repository and adds only
patterns and recipients from elsewhere (`Merged`), and it is a fixed point: a config
that was merged and saved, with other recipients, merges to itself (`MergedAgain`).
Both hold whatever a glob matches.

`GlobsSelect` says what it matches.  The matcher is a recursion over the glob, and
the prover cannot do an induction whose predicate it is given.  So the reference, that
a path can be cut into one piece per segment of the glob, is shown to satisfy the
recursion's own equation (`CutsUnfold`: a first piece is given to the head of the glob,
and to `**` one segment more or no more), and two functions that satisfy it are the
same (`OneSolution`): were they not, there would be a shortest glob on which they
differ (`LeastOf`), and the equation reduces it to a shorter one.

Every safety property that a run checks is proved.  Out of the prover's reach are
`EventuallySynced`, `RetryConverges` and `EventuallyTrusted`, which are liveness under
fairness; `WorkerIsBroughtBack`, `RerunsFinish`, `LeaderStaysTrusted` and
`NobodyWaitsInVain` are what is proved of each.

## Other behaviours of the code

Where the code does something its documentation or a reader would not expect, the
models do it too.  Each of these sentences is a definition in its module that TLC
refutes when it is checked.

| Definition | What happens |
|---|---|
| `GitSecretController!NoClobber` | a Secret created between the guard's read and CreateOrUpdate's is taken over without adopt (gitsecret_controller.go:147) |
| `GitSecretController!ReleasedIsNotRefused` | a migration interrupted after the release is refused as a conflict from then on (gitsecret_controller.go:120, UPGRADING.md) |
| `GitSecretController!SteadyStateDoesNotWrite` | a reconcile with nothing to do writes, as Data is compared with StringData, and its write brings on the next reconcile (gitsecret_controller.go:197) |
| `KeyRotation!RerunIsSafe` | a partly written rotation cannot be run again: the key it starts from does not open what it wrote (rotate.go:83, 207) |
| `KeyRotation!AddUserKeepsKey` | adduser that overlaps rotate-keys puts an old key back over the rotated one (adduser.go:73) |
| `GitHooks!HistoryIsProtected` | a plaintext file committed in place of a symlink is neither sealed by pre-commit nor seen by pre-push, though every commit protects it (gitutil.go:72, 85) |
| `GitHooks!PushedIsProtected` | a commit below HEAD whose config begins to match a file without changing it is pushed with the plaintext: pre-push looks at the paths a commit changes (hooks.go:125, 223) |
| `GitHooks!CommitHidesNoEdit` | a commit of a staged part of a file hides the unstaged rest from git status (hooks.go:66) |
| `RepoConfig!GlobalIdStaysHome` | a global `repo_id` reaches a repository that has none, and the first command that saves commits it for everybody (config.go:298 calls it local) |
| `WebhookCertificate!WindowCloses` | a configuration created after the leader has looked for it never gets a CA from that leader (setup.go:39, admission-webhook.md:38) |

Properties that hold only as their run is configured:

- `Recoverable` of the env backend, with failures: a process that dies while it
  writes takes the only copy of the new key with it (rotate.go:174).
- `Revoked` does not speak of recipients of the global config: removed, they come
  back with the next merge (config.go:304).
- `GrantsShow` speaks of commands that succeed: a rotation that put the new key in
  place and could not save leaves a recipient of the global config with a key that
  shows up nowhere (`Save`).
- `StagedOpens` with a user who commits while a rotation runs.
- `QuietIsReported` and `QuietReadyIsTrue` with API failures: an error of the status
  write after `UnsealFailed` or `TargetConflict` is dropped, and the report comes with
  the next event or resync.
- `QuietOwnedIsSynced` with gpg failures: an `UnsealFailed` that is on record already
  is neither written nor retried.
- `LockedOut` with commands that overlap a bulk change, which writes what it computed
  before them.
- `StagedOpens` with failing index updates, or with crashes and the env backend
  (`rotation_calm` has neither; the proof is for crashes of the other backends too).

And, without a definition of their own: adopt does not take over what another controller
controls, unless it is a GitSecret of the same name, whose Secret also a reconcile
without adopt takes that read the cache too early (`Controllable`); a transient gpg
failure stays on record as `UnsealFailed` until the next event or resync (`Fetch`), and
a change of the keys is not an event, although gitsecret_controller.go:94 says that the
watch reports it; a removal that fails in the write loop has changed files
(`WriteFile`); adduser reports somebody as present whose key its failed first try did
not put in place (`AlreadyPresent`); the env backend's new key is printed with the
advice to use it even when the rotation failed (`Printed`); `recipients remove --force`
of the last recipient still fails, in the rewrap; after a merge that listed somebody the
key is not wrapped to, `recipients add` says they are there already; a line by line
merge of manifests that were both changed can list as many recipients as the key is
wrapped to, but others, which the webhook admits as it counts (sealer.go:150-156;
threat-model.md, T11), put a key with data of another version, which nobody opens and
`rekey` cannot mend, keep no recovery recipient when each side removed another, and keep
a stamp of the values of the other side (`Splice`); on an empty list it rewraps to the
newcomer alone; `--rewrap` leaves roles of former recipients behind; a command that
saves the config commits what it loaded, so that the global config's patterns,
`key_backend` and `key_source` become those of every machine wherever the committed file
left them out, although rotate.go:257 speaks of `gpg_recipients` only (`Save`); a
truncated config next to a global one may still load (config.go:408); renaming an older
config changes the key_source it left implicit (UPGRADING.md:83).

## Not modelled

- The Seal web UI: a form in front of `Seal`, which `SealedManifests` models, with
  a semaphore taken and released in one handler.
- `kubectl-keyfold`'s decrypt, apply, edit and view: they keep no state; of YAML
  nothing is left but one value per manifest.
- The command lines of gpg and git and the parsing of what they print, pickers and
  prompts, flags of the controller process, the public-key server.
- The ciphers and the envelope's layout, which are a matter of cryptography: an
  envelope opens with its key at its path and nothing else does.
- Chart, manifests, examples and documentation.

## Plan

The runs' safety properties are proved; what is left is to weaken hypotheses
(`Single`, `Calm`, `~Overlaps`) where the code, and not only the proof, allows it.
