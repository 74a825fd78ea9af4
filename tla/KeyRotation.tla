---------------------------- MODULE KeyRotation ----------------------------
(***************************************************************************)
(* The git plugin's commands that touch the repository's content key       *)
(* (internal/cli: rotate.go, adduser.go, removeuser.go, lock.go), run in   *)
(* one working tree.                                                       *)
(*                                                                         *)
(* Protected files are plaintext or sealed under one content key; the key  *)
(* lives in key_source, wrapped to recipients when the backend is gpg, and *)
(* a rotation stages the next one in key_source.new.  Any call may fail    *)
(* and the process may die between any two of them.  Nothing locks the     *)
(* repository: Procs is the number of commands that may run at once.       *)
(*                                                                         *)
(* Of a file only the key it is sealed under is kept, not its text.  The   *)
(* reads RotateKeys makes before it writes anything are one step.          *)
(***************************************************************************)
EXTENDS Naturals, FiniteSets

CONSTANTS
    Procs,       \* commands that may run at once
    Files,       \* files that match the config's patterns
    Manifests,   \* k8s_secret_paths: one sealed or plain value each
    People,      \* GPG identities
    Me,          \* the one who runs the commands
    Global,      \* recipients of the machine's global config, a subset of People
    Backends,    \* key_backends to try: a subset of {"file", "env", "gpg"}
    Plain,       \* contents that are not an envelope
    None,        \* nothing there
    UserOverlaps, \* whether the user edits and commits while a command runs
    FaultKinds,  \* the failures that occur: a subset of {"io", "git", "crash"}
    MaxKeys,     \* bound: keys ever generated
    MaxEdits,    \* bound: edits and commits by the user
    MaxFaults    \* bound: failures

Keys == 0..MaxKeys
Paths == Files \cup Manifests
Wrapped == [dek : Keys, to : SUBSET People]

ASSUME ConstantsAssumption ==
    /\ Files \cap Manifests = {}
    /\ Me \in People
    /\ Global \subseteq People
    /\ Backends \subseteq {"file", "env", "gpg"}
    /\ Plain \notin Nat /\ None \notin Nat /\ Plain # None
    /\ None \notin Wrapped /\ None \notin People
    /\ UserOverlaps \in BOOLEAN
    /\ FaultKinds \subseteq {"io", "git", "crash"}
    /\ MaxKeys \in Nat /\ MaxEdits \in Nat /\ MaxFaults \in Nat

VARIABLES
    worktree,   \* path -> the key it is sealed under, or Plain
    index,      \* path -> the key the staged blob is sealed under
    key,        \* key_source: the content key and whom it is wrapped to
    staging,    \* key_source.new; for env, the key printed and not yet exported
    config,     \* the repository's config file: key_backend and gpg_recipients
    pc,         \* what each command does next
    job,        \* its locals
    last,       \* how the last command of each process ended
    generated,  \* keys generated so far
    edits, faults, \* used up of MaxEdits and MaxFaults
    grants,     \* history: <<person, key>> that person was able to unwrap
    removed     \* history: removed by a removeuser that succeeded, not added since

disk == <<worktree, index, key, staging, config>>
process == <<pc, job, last>>
history == <<generated, edits, faults, grants, removed>>
vars == <<disk, process, history>>

Commands == {"rotate", "remove", "add", "lock", "unlock"}
Results == {"ok", "present", "decrypt", "io"}

\* dek: the key read; to: the recipients to wrap to and to save; new: the key
\* generated; todo: files left; file: the one being processed; rotated:
\* RotatedFiles.
Jobs == [cmd : Commands \cup {None}, who : People \cup {None}, dek : Keys,
         to : SUBSET People, new : Keys, todo : SUBSET Paths,
         file : Paths \cup {None}, rotated : SUBSET Paths]
NoJob == [cmd |-> None, who |-> None, dek |-> 0, to |-> {}, new |-> 0,
          todo |-> {}, file |-> None, rotated |-> {}]

TypeOK ==
    /\ worktree \in [Paths -> Keys \cup {Plain}]
    /\ index \in [Paths -> Keys]
    /\ key \in Wrapped
    /\ staging \in Wrapped \cup {None}
    /\ config \in [backend : Backends, recipients : SUBSET People]
    /\ pc \in [Procs -> {"idle", "plan", "generate", "seal", "write", "index", "save",
                         "addSave", "addPromote", "file", "put"}]
    /\ job \in [Procs -> Jobs]
    /\ \A p \in Procs : pc[p] = "idle" => job[p] = NoJob
    /\ last \in [Procs -> [cmd : Commands \cup {None}, who : People \cup {None},
                           result : Results]]
    /\ generated \in Keys
    /\ edits \in 0..MaxEdits
    /\ faults \in 0..MaxFaults
    /\ grants \subseteq People \X Keys
    /\ removed \subseteq People

Backend == config.backend
OnDisk == Backend \in {"file", "gpg"}

\* The config a command loads: the repository's and the global recipients.
Effective == Global \cup config.recipients

\* Mutant of WrappedTo: everybody who was a recipient stays one.
WrappedToAll(new, to) == [dek |-> new, to |-> IF Backend = "gpg" THEN Effective ELSE {}]

WrappedTo(new, to) == [dek |-> new, to |-> IF Backend = "gpg" THEN to ELSE {}]

\* A repository after init: its files sealed under the first key or not yet.
Init ==
    /\ worktree \in [Paths -> {Plain, 0}]
    /\ index = [f \in Paths |-> 0]
    /\ \/ config \in [backend : Backends \cap {"gpg"},
                     recipients : {team \in SUBSET People : Me \in team}]
       \/ config \in [backend : Backends \ {"gpg"}, recipients : {{}}]
    /\ key = WrappedTo(0, config.recipients)
    /\ staging = None
    /\ pc = [p \in Procs |-> "idle"]
    /\ job = [p \in Procs |-> NoJob]
    /\ last = [p \in Procs |-> [cmd |-> None, who |-> None, result |-> "ok"]]
    /\ generated = 0 /\ edits = 0 /\ faults = 0
    /\ grants = {<<r, 0>> : r \in key.to}
    /\ removed = {}

-----------------------------------------------------------------------------
(* Failures, and how a command goes on or ends. *)

Fault(kind) == kind \in FaultKinds /\ faults < MaxFaults /\ faults' = faults + 1

Goto(p, step, locals) ==
    /\ pc' = [pc EXCEPT ![p] = step]
    /\ job' = [job EXCEPT ![p] = locals]
    /\ UNCHANGED last

\* Mutant of Leave: the locals outlive the command.
LeaveWithJob(p) == pc' = [pc EXCEPT ![p] = "idle"] /\ UNCHANGED job

Leave(p) == pc' = [pc EXCEPT ![p] = "idle"] /\ job' = [job EXCEPT ![p] = NoJob]

Exit(p, result) ==
    /\ Leave(p)
    /\ last' = [last EXCEPT ![p] = [cmd |-> job[p].cmd, who |-> job[p].who,
                                    result |-> result]]

Fail(p) == Fault("io") /\ Exit(p, "io")

\* gpg opens what it has a secret key for; the other backends keep the key raw.
CanUnwrap == Backend = "gpg" => Me \in key.to

\* The user exports a key the moment it is printed.
PrintedKeyIsUsed == Backend = "env" => staging = None

Grant(wrapped) == grants' = grants \cup {<<r, wrapped.dek>> : r \in wrapped.to}

\* RotateKeys with a backend that cannot keep the key returns it, and the caller
\* prints it, whether the rotation succeeded or not; until then it is in memory
\* only.
Printed(p) == staging' = IF OnDisk THEN staging ELSE WrappedTo(job[p].new, {})

-----------------------------------------------------------------------------
(* Loading the config and the key; a command that finds no key it can open, or *)
(* refuses its arguments, ends at once and changes nothing.                    *)

Locals(cmd, who, to, todo) ==
    [NoJob EXCEPT !.cmd = cmd, !.who = who, !.dek = key.dek, !.to = to, !.todo = todo]

Begin(p, step, locals) ==
    /\ pc[p] = "idle" /\ PrintedKeyIsUsed
    /\ CanUnwrap
    /\ Goto(p, step, locals)
    /\ UNCHANGED <<disk, history>>

StartRotate(p) ==
    /\ generated < MaxKeys
    /\ Begin(p, "plan", Locals("rotate", None, Effective, {}))

\* RemoveUser refuses a stranger and the last recipient; it rotates for the rest.
StartRemove(p, who) ==
    /\ generated < MaxKeys
    /\ Backend = "gpg"
    /\ who \in Effective
    /\ Effective # {who}
    /\ Begin(p, "plan", Locals("remove", who, Effective \ {who}, {}))

\* Mutant of FirstOfAdd: the key is rewrapped before the config is saved.
FirstIsPromote == "addPromote"

\* AddUser saves the config first, with the rewrapped key in a temporary file.
FirstOfAdd == "addSave"

StartAdd(p, who) ==
    /\ Backend = "gpg"
    /\ who \notin Effective
    /\ Begin(p, FirstOfAdd, Locals("add", who, Effective \cup {who}, {}))

\* There is nothing to do for somebody the config already lists.
AlreadyPresent(p, who) ==
    /\ pc[p] = "idle"
    /\ Backend = "gpg"
    /\ who \in Effective
    /\ last' = [last EXCEPT ![p] = [cmd |-> "add", who |-> who, result |-> "present"]]
    /\ UNCHANGED <<pc, job, disk, history>>

StartLock(p, cmd) == Begin(p, "file", Locals(cmd, None, {}, Files))

-----------------------------------------------------------------------------
(* RotateKeys. *)

\* Every file is read and opened under the old key before anything is written;
\* of a manifest, only a sealed value counts.
Plan(p) ==
    LET opened == \A f \in Paths : worktree[f] \in {Plain, job[p].dek}
        matched == Files \cup {m \in Manifests : worktree[m] # Plain}
    IN  /\ pc[p] = "plan"
        /\ \/ /\ opened
              /\ Goto(p, "generate", [job[p] EXCEPT !.todo = matched])
              /\ UNCHANGED faults
           \/ ~opened /\ Exit(p, "decrypt") /\ UNCHANGED faults
           \/ Fail(p)
        /\ UNCHANGED <<disk, generated, edits, grants, removed>>

NextKey == generated + 1

\* Backend.Generate puts the new key in key_source.new, whatever is there.
Generate(p) ==
    /\ pc[p] = "generate"
    /\ \/ /\ generated < MaxKeys
          /\ generated' = generated + 1
          /\ Goto(p, "seal", [job[p] EXCEPT !.new = NextKey])
          /\ IF OnDisk
             THEN /\ staging' = WrappedTo(NextKey, job[p].to)
                  /\ Grant(staging')
             ELSE UNCHANGED <<staging, grants>>
          /\ UNCHANGED faults
       \/ Fail(p) /\ UNCHANGED <<staging, generated, grants>>
    /\ UNCHANGED <<worktree, index, key, config, edits, removed>>

\* Everything is sealed in memory; a failure takes the staged key away again.
Seal(p) ==
    /\ pc[p] = "seal"
    /\ \/ Goto(p, "write", job[p]) /\ UNCHANGED <<staging, faults>>
       \/ /\ Fail(p)
          /\ IF OnDisk THEN staging' = None ELSE Printed(p)
    /\ UNCHANGED <<worktree, index, key, config, generated, edits, grants, removed>>

\* Mutant of LeaveStaging: a failed write cleans up like a failed seal.
CleanUpStaging(p) == staging' = None

\* After a failed write the staged key stays: files are sealed under it.
LeaveStaging(p) == Printed(p)

\* The files are written back one after another, the manifests last.
WriteFile(p, f) ==
    /\ pc[p] = "write"
    /\ f \in job[p].todo
    /\ f \in Manifests => job[p].todo \subseteq Manifests
    /\ \/ /\ worktree' = [worktree EXCEPT ![f] = job[p].new]
          /\ Goto(p, "index", [job[p] EXCEPT !.file = f, !.todo = @ \ {f},
                                             !.rotated = @ \cup {f}])
          /\ UNCHANGED <<staging, faults>>
       \/ Fail(p) /\ LeaveStaging(p) /\ UNCHANGED worktree
    /\ UNCHANGED <<index, key, config, generated, edits, grants, removed>>

\* Mutant of Restaged: the staged blob stays what it was.
NotRestaged(p) == index

Restaged(p) == [index EXCEPT ![job[p].file] = job[p].new]

\* After each file the index is pointed at its new blob; an error is ignored.
Restage(p) ==
    /\ pc[p] = "index"
    /\ Goto(p, "write", [job[p] EXCEPT !.file = None])
    /\ \/ index' = Restaged(p) /\ UNCHANGED faults
       \/ Fault("git") /\ UNCHANGED index
    /\ UNCHANGED <<worktree, key, staging, config, generated, edits, grants, removed>>

\* key_source.new is renamed over key_source; for env the rotation is over.
Promote(p) ==
    /\ pc[p] = "write"
    /\ job[p].todo = {}
    /\ \/ /\ OnDisk /\ staging # None
          /\ key' = staging
          /\ staging' = None
          /\ IF Backend = "gpg" THEN Goto(p, "save", job[p]) ELSE Exit(p, "ok")
          /\ UNCHANGED faults
       \/ /\ OnDisk
          /\ IF staging = None THEN UNCHANGED faults ELSE Fault("io")
          /\ Exit(p, "io")
          /\ UNCHANGED <<key, staging>>
       \/ ~OnDisk /\ Exit(p, "ok") /\ Printed(p) /\ UNCHANGED <<key, faults>>
    /\ UNCHANGED <<worktree, index, config, generated, edits, grants, removed>>

\* Mutant of Persisted: rotate-keys leaves the config alone.
PersistedByRemoval(p) ==
    IF job[p].cmd = "remove" THEN [config EXCEPT !.recipients = job[p].to] ELSE config

Persisted(p) == [config EXCEPT !.recipients = job[p].to]

\* PersistGPGRecipients, or RemoveUser's config.Save.
Save(p) ==
    /\ pc[p] = "save"
    /\ \/ /\ config' = Persisted(p)
          /\ removed' = removed \cup (IF job[p].cmd = "remove" THEN {job[p].who} ELSE {})
          /\ Exit(p, "ok")
          /\ UNCHANGED faults
       \/ Fail(p) /\ UNCHANGED <<config, removed>>
    /\ UNCHANGED <<worktree, index, key, staging, generated, edits, grants>>

Rotate(p) == Plan(p) \/ Generate(p) \/ Seal(p) \/ (\E f \in Paths : WriteFile(p, f))
                 \/ Restage(p) \/ Promote(p) \/ Save(p)

-----------------------------------------------------------------------------
(* AddUser: the same key wrapped for one more. *)

AddSave(p) ==
    /\ pc[p] = "addSave"
    /\ \/ /\ config' = [config EXCEPT !.recipients = job[p].to]
          /\ removed' = removed \ {job[p].who}
          /\ Goto(p, "addPromote", job[p])
          /\ UNCHANGED faults
       \/ Fail(p) /\ UNCHANGED <<config, removed>>
    /\ UNCHANGED <<worktree, index, key, staging, generated, edits, grants>>

\* The temporary file holds the key AddUser read when it started.
AddPromote(p) ==
    LET rewrapped == WrappedTo(job[p].dek, job[p].to)
    IN  /\ pc[p] = "addPromote"
        /\ \/ /\ key' = rewrapped
              /\ Grant(rewrapped)
              /\ Exit(p, "ok")
              /\ UNCHANGED faults
           \/ Fail(p) /\ UNCHANGED <<key, grants>>
        /\ UNCHANGED <<worktree, index, staging, config, generated, edits, removed>>

-----------------------------------------------------------------------------
(* Lock and Unlock: one file after another, each read and then written. *)

ReadFile(p, f) ==
    LET lock == job[p].cmd = "lock"
        wanted == (worktree[f] # Plain) = lock
        opened == lock \/ worktree[f] = job[p].dek
    IN  /\ pc[p] = "file"
        /\ f \in job[p].todo
        /\ \/ /\ wanted
              /\ Goto(p, "file", [job[p] EXCEPT !.todo = @ \ {f}])
              /\ UNCHANGED faults
           \/ /\ ~wanted /\ opened
              /\ Goto(p, "put", [job[p] EXCEPT !.file = f, !.todo = @ \ {f}])
              /\ UNCHANGED faults
           \/ ~wanted /\ ~opened /\ Exit(p, "decrypt") /\ UNCHANGED faults
           \/ Fail(p)
        /\ UNCHANGED <<disk, generated, edits, grants, removed>>

PutFile(p) ==
    LET new == IF job[p].cmd = "lock" THEN job[p].dek ELSE Plain
    IN  /\ pc[p] = "put"
        /\ \/ /\ worktree' = [worktree EXCEPT ![job[p].file] = new]
              /\ Goto(p, "file", [job[p] EXCEPT !.file = None])
              /\ UNCHANGED faults
           \/ Fail(p) /\ UNCHANGED worktree
        /\ UNCHANGED <<index, key, staging, config, generated, edits, grants, removed>>

AllDone(p) ==
    /\ pc[p] = "file"
    /\ job[p].todo = {}
    /\ Exit(p, "ok")
    /\ UNCHANGED <<disk, history>>

LockOrUnlock(p) == (\E f \in Files : ReadFile(p, f)) \/ PutFile(p) \/ AllDone(p)

-----------------------------------------------------------------------------
(* Crashes, and the user. *)

\* The process dies; what it held in memory is gone, temporary files stay unused.
Crash(p) ==
    /\ Fault("crash")
    /\ pc[p] # "idle"
    /\ Leave(p)
    /\ UNCHANGED <<disk, last, generated, edits, grants, removed>>

\* The user puts the key that was printed into the environment.
Export ==
    /\ ~OnDisk /\ staging # None
    /\ key' = staging
    /\ staging' = None
    /\ UNCHANGED <<worktree, index, config, process, history>>

UserTurn ==
    /\ edits < MaxEdits
    /\ edits' = edits + 1
    /\ UserOverlaps \/ \A p \in Procs : pc[p] = "idle"
    /\ PrintedKeyIsUsed

\* The user saves a plaintext version of a file.
Edit(f) ==
    /\ UserTurn
    /\ worktree[f] # Plain
    /\ worktree' = [worktree EXCEPT ![f] = Plain]
    /\ UNCHANGED <<index, key, staging, config, process, generated, faults, grants, removed>>

\* The user stages a file and commits: the pre-commit hook seals what is staged
\* as plaintext and leaves an envelope alone, of whatever key; of a manifest it
\* wants the value to open.
Commit(f) ==
    /\ UserTurn
    /\ CanUnwrap
    /\ f \in Manifests => worktree[f] = key.dek
    /\ index' = [index EXCEPT ![f] = IF worktree[f] = Plain THEN key.dek ELSE worktree[f]]
    /\ UNCHANGED <<worktree, key, staging, config, process, generated, faults, grants, removed>>

Start(p) ==
    \/ StartRotate(p)
    \/ \E who \in People : StartRemove(p, who) \/ StartAdd(p, who) \/ AlreadyPresent(p, who)
    \/ \E cmd \in {"lock", "unlock"} : StartLock(p, cmd)

User == Export \/ (\E f \in Paths : Edit(f) \/ Commit(f))

Next ==
    \/ \E p \in Procs : \/ Start(p) \/ Rotate(p) \/ AddSave(p) \/ AddPromote(p)
                        \/ LockOrUnlock(p) \/ Crash(p)
    \/ User

Spec == Init /\ [][Next]_vars

-----------------------------------------------------------------------------
(* What the commands promise. *)

\* The keys somebody still has: key_source, key_source.new or the key printed,
\* and with env the one a running rotation has yet to print.
Kept ==
    LET rotating == {p \in Procs : pc[p] \in {"seal", "write", "index"}}
        staged == IF staging = None THEN {} ELSE {staging.dek}
    IN  {key.dek} \cup staged \cup (IF OnDisk THEN {} ELSE {job[p].new : p \in rotating})

\* A failure partway never leaves an unrecoverable file: whatever fails or dies
\* between writing the files and swapping the key, every sealed file opens with
\* a key that is still there.
Recoverable == \A f \in Paths : worktree[f] \in {Plain} \cup Kept

\* removeuser is a revocation of access to current data: the key is not wrapped
\* to somebody who was removed, and no file in the working tree is sealed under
\* a key they were ever able to unwrap, whatever commands ran since.  Whom the global
\* config lists comes back with the next merge.
Revoked ==
    \A r \in removed \ Global :
        /\ r \notin key.to
        /\ \A f \in Paths : <<r, worktree[f]>> \notin grants

\* No command, failed or not, gives somebody the key whom the config that commands load
\* does not list.
NoSilentGrant == key.to \subseteq Effective

\* And a command that succeeds leaves nobody with the key who does not show up in the
\* committed config, a recipient of the global one included (rotate.go:256-264).
GrantsShow ==
    [][\A p \in Procs : (Save(p) \/ AddPromote(p)) /\ last'[p].result = "ok" =>
          key'.to \subseteq config'.recipients]_vars

\* With no command running and no rotation half done, what is staged opens with
\* the key that will be committed with it: a rotation restages all it rewrote.
StagedOpens ==
    (staging = None /\ \A p \in Procs : pc[p] = "idle") =>
        \A f \in Paths : index[f] = key.dek

\* A rotation that failed can be run again once the fault is gone: rotate-keys
\* never meets a file that the key it started from does not open.
RerunIsSafe == \A p \in Procs : last[p].cmd = "rotate" => last[p].result # "decrypt"

\* adduser leaves the content key unchanged and only rewraps it.
AddUserKeepsKey == [][\A p \in Procs : AddPromote(p) => key'.dek = key.dek]_vars

=============================================================================
