------------------------- MODULE KeyRotation_proofs -------------------------
(***************************************************************************)
(* Proofs about KeyRotation.  Types hold whatever runs; the promises hold  *)
(* of one command at a time, because nothing locks the repository: what a  *)
(* command read when it started is then still what is there when it        *)
(* writes.                                                                 *)
(***************************************************************************)
EXTENDS KeyRotation, TLAPS

-----------------------------------------------------------------------------
(* Types. *)

Steps == {"idle", "plan", "generate", "seal", "write", "index", "save",
          "addSave", "addPromote", "file", "put"}
Ends == [cmd : Commands \cup {None}, who : People \cup {None}, result : Results]

DiskTypes ==
    /\ worktree \in [Paths -> Keys \cup {Plain}]
    /\ index \in [Paths -> Keys]
    /\ key \in Wrapped
    /\ staging \in Wrapped \cup {None}
    /\ config \in [backend : Backends, recipients : SUBSET People]

ProcessTypes ==
    /\ pc \in [Procs -> Steps]
    /\ job \in [Procs -> Jobs]
    /\ \A p \in Procs : pc[p] = "idle" => job[p] = NoJob
    /\ last \in [Procs -> Ends]

HistoryTypes ==
    /\ generated \in Keys
    /\ edits \in 0..MaxEdits
    /\ faults \in 0..MaxFaults
    /\ grants \subseteq People \X Keys
    /\ removed \subseteq People

LEMMA ThreeParts == TypeOK <=> DiskTypes /\ ProcessTypes /\ HistoryTypes
BY DEF TypeOK, DiskTypes, ProcessTypes, HistoryTypes, Steps, Ends

LEMMA ThreePartsNext == TypeOK' <=> DiskTypes' /\ ProcessTypes' /\ HistoryTypes'
BY DEF TypeOK, DiskTypes, ProcessTypes, HistoryTypes, Steps, Ends

\* removeuser and adduser, while they run, are about somebody.
WhoInv ==
    \A p \in Procs :
        pc[p] # "idle" /\ job[p].cmd \in {"remove", "add"} => job[p].who \in People

LEMMA ZeroIsAKey == 0 \in Keys /\ MaxKeys \in Nat
BY ConstantsAssumption DEF Keys

LEMMA NoJobTyped == NoJob \in Jobs
BY ZeroIsAKey DEF NoJob, Jobs

LEMMA JobFields ==
    ASSUME ProcessTypes, NEW p \in Procs
    PROVE  /\ pc[p] \in Steps /\ job[p] \in Jobs
           /\ job[p].cmd \in Commands \cup {None} /\ job[p].who \in People \cup {None}
           /\ job[p].dek \in Keys /\ job[p].to \subseteq People /\ job[p].new \in Keys
           /\ job[p].todo \subseteq Paths /\ job[p].file \in Paths \cup {None}
BY DEF ProcessTypes, Jobs

LEMMA DiskFields ==
    ASSUME DiskTypes
    PROVE  /\ key.dek \in Keys /\ key.to \subseteq People
           /\ config.backend \in Backends /\ config.recipients \subseteq People
           /\ Effective \subseteq People
           /\ staging # None => /\ staging \in Wrapped
                                /\ staging.dek \in Keys /\ staging.to \subseteq People
BY ConstantsAssumption DEF DiskTypes, Wrapped, Effective

LEMMA WrappedTyped ==
    ASSUME NEW new \in Keys, NEW to \in SUBSET People
    PROVE  /\ WrappedTo(new, to) \in Wrapped /\ WrappedTo(new, to) # None
           /\ WrappedTo(new, to).dek = new /\ WrappedTo(new, to).to \subseteq to
BY ConstantsAssumption DEF WrappedTo, Wrapped

LEMMA GotoTypes ==
    ASSUME ProcessTypes, NEW p \in Procs, NEW step \in Steps, step # "idle",
           NEW locals \in Jobs, Goto(p, step, locals)
    PROVE  ProcessTypes' /\ pc'[p] = step /\ job'[p] = locals
BY DEF ProcessTypes, Goto

LEMMA LeaveTypes ==
    ASSUME ProcessTypes, NEW p \in Procs, Leave(p)
    PROVE  /\ pc' \in [Procs -> Steps] /\ job' \in [Procs -> Jobs]
           /\ \A q \in Procs : pc'[q] = "idle" => job'[q] = NoJob
           /\ pc'[p] = "idle"
BY NoJobTyped DEF ProcessTypes, Leave, Steps

LEMMA ExitTypes ==
    ASSUME ProcessTypes, NEW p \in Procs, NEW result \in Results, Exit(p, result)
    PROVE  ProcessTypes' /\ pc'[p] = "idle"
<1>1. [cmd |-> job[p].cmd, who |-> job[p].who, result |-> result] \in Ends
  BY JobFields DEF Ends
<1>2. last' \in [Procs -> Ends]
  BY <1>1 DEF Exit, ProcessTypes
<1> QED BY <1>2, LeaveTypes DEF Exit, ProcessTypes

LEMMA FaultTypes ==
    ASSUME HistoryTypes, NEW kind, Fault(kind) PROVE faults' \in 0..MaxFaults
BY ConstantsAssumption DEF HistoryTypes, Fault

LEMMA FailTypes ==
    ASSUME ProcessTypes, HistoryTypes, NEW p \in Procs, Fail(p)
    PROVE  ProcessTypes' /\ pc'[p] = "idle" /\ faults' \in 0..MaxFaults /\ "io" \in FaultKinds
BY ExitTypes, FaultTypes DEF Fail, Results, Fault

\* The locals a command starts with, and the one field each of its steps changes.
LEMMA LocalsTyped ==
    ASSUME DiskTypes, NEW cmd \in Commands, NEW who \in People \cup {None},
           NEW to \in SUBSET People, NEW todo \in SUBSET Paths
    PROVE  /\ Locals(cmd, who, to, todo) \in Jobs
           /\ Locals(cmd, who, to, todo).cmd = cmd /\ Locals(cmd, who, to, todo).who = who
           /\ Locals(cmd, who, to, todo).to = to /\ Locals(cmd, who, to, todo).dek = key.dek
BY NoJobTyped, DiskFields DEF Locals, Jobs, NoJob

LEMMA BeginTypes ==
    ASSUME TypeOK, NEW p \in Procs, NEW step \in Steps, step # "idle", NEW cmd \in Commands,
           NEW who \in People \cup {None}, NEW to \in SUBSET People, NEW todo \in SUBSET Paths,
           Begin(p, step, Locals(cmd, who, to, todo))
    PROVE  TypeOK' /\ pc'[p] = step /\ job'[p] = Locals(cmd, who, to, todo)
<1>1. DiskTypes /\ ProcessTypes /\ HistoryTypes
  BY ThreeParts
<1>2. DiskTypes' /\ HistoryTypes'
  BY <1>1 DEF Begin, disk, history, DiskTypes, HistoryTypes
<1>3. ProcessTypes' /\ pc'[p] = step /\ job'[p] = Locals(cmd, who, to, todo)
  BY <1>1, LocalsTyped, GotoTypes DEF Begin
<1> QED BY <1>2, <1>3, ThreePartsNext

LEMMA StartTypes == ASSUME TypeOK, NEW p \in Procs, Start(p) PROVE TypeOK'
<1>1. DiskTypes /\ ProcessTypes /\ HistoryTypes /\ Effective \subseteq People
  BY ThreeParts, DiskFields
<1>2. CASE StartRotate(p)
  <2>1. Begin(p, "plan", Locals("rotate", None, Effective, {}))
    BY <1>2 DEF StartRotate
  <2> QED BY <1>1, <2>1, BeginTypes DEF Steps, Commands
<1>3. ASSUME NEW who \in People, StartRemove(p, who) PROVE TypeOK'
  <2>1. Begin(p, "plan", Locals("remove", who, Effective \ {who}, {}))
    BY <1>3 DEF StartRemove
  <2> QED BY <1>1, <2>1, BeginTypes DEF Steps, Commands
<1>4. ASSUME NEW who \in People, StartAdd(p, who) PROVE TypeOK'
  <2>1. Begin(p, "addSave", Locals("add", who, Effective \cup {who}, {}))
    BY <1>4 DEF StartAdd, FirstOfAdd
  <2> QED BY <1>1, <2>1, BeginTypes DEF Steps, Commands
<1>5. ASSUME NEW who \in People, AlreadyPresent(p, who) PROVE TypeOK'
  <2>1. [cmd |-> "add", who |-> who, result |-> "present"] \in Ends
    BY DEF Ends, Commands, Results
  <2>2. ProcessTypes'
    BY <1>1, <1>5, <2>1 DEF ProcessTypes, AlreadyPresent
  <2>3. DiskTypes' /\ HistoryTypes'
    BY <1>1, <1>5 DEF AlreadyPresent, disk, history, DiskTypes, HistoryTypes
  <2> QED BY <2>2, <2>3, ThreePartsNext
<1>6. ASSUME NEW cmd \in {"lock", "unlock"}, StartLock(p, cmd) PROVE TypeOK'
  <2>1. Begin(p, "file", Locals(cmd, None, {}, Files)) /\ Files \subseteq Paths
    BY <1>6 DEF StartLock, Paths
  <2> QED BY <1>6, <2>1, BeginTypes DEF Steps, Commands
<1> QED BY <1>2, <1>3, <1>4, <1>5, <1>6 DEF Start

LEMMA PlanTypes == ASSUME TypeOK, NEW p \in Procs, Plan(p) PROVE TypeOK'
<1>1. DiskTypes /\ ProcessTypes /\ HistoryTypes
  BY ThreeParts
<1> DEFINE matched == Files \cup {m \in Manifests : worktree[m] # Plain}
<1>2. [job[p] EXCEPT !.todo = matched] \in Jobs
  BY <1>1, JobFields DEF Jobs, Paths
<1>3. ProcessTypes' /\ faults' \in 0..MaxFaults
  <2>1. CASE Goto(p, "generate", [job[p] EXCEPT !.todo = matched]) /\ UNCHANGED faults
    <3>1. faults' \in 0..MaxFaults
      BY <1>1, <2>1 DEF HistoryTypes
    <3> QED BY <1>1, <1>2, <2>1, <3>1, GotoTypes DEF Steps
  <2>2. CASE Exit(p, "decrypt") /\ UNCHANGED faults
    BY <1>1, <2>2, ExitTypes DEF Results, HistoryTypes
  <2>3. CASE Fail(p)
    BY <1>1, <2>3, FailTypes
  <2> QED BY <2>1, <2>2, <2>3 DEF Plan
<1>4. DiskTypes' /\ HistoryTypes'
  BY <1>1, <1>3 DEF Plan, disk, DiskTypes, HistoryTypes
<1> QED BY <1>3, <1>4, ThreePartsNext

LEMMA NextKeyTyped ==
    ASSUME HistoryTypes, generated < MaxKeys PROVE NextKey \in Keys /\ NextKey > generated
BY ZeroIsAKey DEF HistoryTypes, NextKey, Keys

LEMMA GenerateTypes == ASSUME TypeOK, NEW p \in Procs, Generate(p) PROVE TypeOK'
<1>1. DiskTypes /\ ProcessTypes /\ HistoryTypes
  BY ThreeParts
<1>2. CASE Fail(p) /\ UNCHANGED <<staging, generated, grants>>
  BY <1>1, <1>2, FailTypes, ThreePartsNext DEF Generate, DiskTypes, HistoryTypes
<1>3. CASE /\ generated < MaxKeys
           /\ generated' = generated + 1
           /\ Goto(p, "seal", [job[p] EXCEPT !.new = NextKey])
           /\ IF OnDisk
              THEN staging' = WrappedTo(NextKey, job[p].to) /\ Grant(staging')
              ELSE UNCHANGED <<staging, grants>>
           /\ UNCHANGED faults
  <2>1. NextKey \in Keys /\ generated' = NextKey
    BY <1>1, <1>3, NextKeyTyped DEF NextKey
  <2>2. [job[p] EXCEPT !.new = NextKey] \in Jobs /\ job[p].to \subseteq People
    BY <1>1, <2>1, JobFields DEF Jobs
  <2>3. ProcessTypes'
    BY <1>1, <1>3, <2>2, GotoTypes DEF Steps
  <2>4. staging' \in Wrapped \cup {None} /\ grants' \subseteq People \X Keys
    <3>1. CASE OnDisk
      <4>1. /\ staging' \in Wrapped /\ staging'.dek \in Keys /\ staging'.to \subseteq People
        BY <1>3, <2>1, <2>2, <3>1, WrappedTyped
      <4>2. grants' = grants \cup {<<r, staging'.dek>> : r \in staging'.to}
        BY <1>3, <3>1 DEF Grant
      <4> QED BY <1>1, <4>1, <4>2 DEF HistoryTypes
    <3>2. CASE ~OnDisk
      BY <1>1, <1>3, <3>2 DEF DiskTypes, HistoryTypes
    <3> QED BY <3>1, <3>2
  <2>5. DiskTypes' /\ HistoryTypes'
    BY <1>1, <1>3, <2>1, <2>4 DEF Generate, DiskTypes, HistoryTypes
  <2> QED BY <2>3, <2>5, ThreePartsNext
<1> QED BY <1>2, <1>3 DEF Generate

LEMMA PrintedTyped ==
    ASSUME DiskTypes, ProcessTypes, NEW p \in Procs, Printed(p)
    PROVE  staging' \in Wrapped \cup {None}
BY JobFields, WrappedTyped DEF Printed, DiskTypes

LEMMA SealTypes == ASSUME TypeOK, NEW p \in Procs, Seal(p) PROVE TypeOK'
<1>1. DiskTypes /\ ProcessTypes /\ HistoryTypes /\ job[p] \in Jobs
  BY ThreeParts, JobFields
<1>2. CASE Goto(p, "write", job[p]) /\ UNCHANGED <<staging, faults>>
  <2>1. ProcessTypes'
    BY <1>1, <1>2, GotoTypes DEF Steps
  <2>2. DiskTypes' /\ HistoryTypes'
    BY <1>1, <1>2 DEF Seal, DiskTypes, HistoryTypes
  <2> QED BY <2>1, <2>2, ThreePartsNext
<1>3. CASE Fail(p) /\ IF OnDisk THEN staging' = None ELSE Printed(p)
  <2>1. staging' \in Wrapped \cup {None}
    BY <1>1, <1>3, PrintedTyped
  <2>2. ProcessTypes' /\ faults' \in 0..MaxFaults
    BY <1>1, <1>3, FailTypes
  <2>3. DiskTypes' /\ HistoryTypes'
    BY <1>1, <2>1, <2>2 DEF Seal, DiskTypes, HistoryTypes
  <2> QED BY <2>2, <2>3, ThreePartsNext
<1> QED BY <1>2, <1>3 DEF Seal

LEMMA WriteTypes == ASSUME TypeOK, NEW p \in Procs, NEW f \in Paths, WriteFile(p, f) PROVE TypeOK'
<1>1. DiskTypes /\ ProcessTypes /\ HistoryTypes
  BY ThreeParts
<1> DEFINE locals == [job[p] EXCEPT !.file = f, !.todo = @ \ {f}, !.rotated = @ \cup {f}]
<1>2. CASE worktree' = [worktree EXCEPT ![f] = job[p].new] /\ Goto(p, "index", locals)
           /\ UNCHANGED <<staging, faults>>
  <2>1. locals \in Jobs
    BY <1>1, JobFields DEF Jobs
  <2>2. ProcessTypes'
    BY <1>1, <1>2, <2>1, GotoTypes DEF Steps
  <2>3. DiskTypes' /\ HistoryTypes'
    BY <1>1, <1>2, JobFields DEF WriteFile, DiskTypes, HistoryTypes
  <2> QED BY <2>2, <2>3, ThreePartsNext
<1>3. CASE Fail(p) /\ LeaveStaging(p) /\ UNCHANGED worktree
  <2>1. staging' \in Wrapped \cup {None}
    BY <1>1, <1>3, PrintedTyped DEF LeaveStaging
  <2>2. ProcessTypes' /\ faults' \in 0..MaxFaults
    BY <1>1, <1>3, FailTypes
  <2>3. DiskTypes' /\ HistoryTypes'
    BY <1>1, <1>3, <2>1, <2>2 DEF WriteFile, DiskTypes, HistoryTypes
  <2> QED BY <2>2, <2>3, ThreePartsNext
<1> QED BY <1>2, <1>3 DEF WriteFile

LEMMA RestageTypes == ASSUME TypeOK, NEW p \in Procs, Restage(p) PROVE TypeOK'
<1>1. DiskTypes /\ ProcessTypes /\ HistoryTypes
  BY ThreeParts
<1>2. [job[p] EXCEPT !.file = None] \in Jobs
  BY <1>1, JobFields DEF Jobs
<1>3. ProcessTypes'
  BY <1>1, <1>2, GotoTypes DEF Restage, Steps
<1>4. index' \in [Paths -> Keys] /\ faults' \in 0..MaxFaults
  BY <1>1, JobFields, FaultTypes DEF Restage, Restaged, DiskTypes, HistoryTypes
<1>5. DiskTypes' /\ HistoryTypes'
  BY <1>1, <1>4 DEF Restage, DiskTypes, HistoryTypes
<1> QED BY <1>3, <1>5, ThreePartsNext

LEMMA PromoteTypes == ASSUME TypeOK, NEW p \in Procs, Promote(p) PROVE TypeOK'
<1>1. DiskTypes /\ ProcessTypes /\ HistoryTypes /\ job[p] \in Jobs
  BY ThreeParts, JobFields
<1>2. ProcessTypes'
  BY <1>1, GotoTypes, ExitTypes DEF Promote, Steps, Results
<1>3. faults' \in 0..MaxFaults /\ key' \in Wrapped /\ staging' \in Wrapped \cup {None}
  BY <1>1, FaultTypes, PrintedTyped DEF Promote, DiskTypes, HistoryTypes
<1>4. DiskTypes' /\ HistoryTypes'
  BY <1>1, <1>3 DEF Promote, DiskTypes, HistoryTypes
<1> QED BY <1>2, <1>4, ThreePartsNext

LEMMA SaveTypes == ASSUME TypeOK, WhoInv, NEW p \in Procs, Save(p) PROVE TypeOK'
<1>1. DiskTypes /\ ProcessTypes /\ HistoryTypes
  BY ThreeParts
<1>2. CASE /\ config' = [config EXCEPT !.recipients = job[p].to]
           /\ removed' = removed \cup (IF job[p].cmd = "remove" THEN {job[p].who} ELSE {})
           /\ Exit(p, "ok")
           /\ UNCHANGED faults
  <2>1. job[p].cmd = "remove" => job[p].who \in People
    BY DEF Save, WhoInv
  <2>2. ProcessTypes'
    BY <1>1, <1>2, ExitTypes DEF Results
  <2>3. DiskTypes' /\ HistoryTypes'
    BY <1>1, <1>2, <2>1, JobFields DEF Save, DiskTypes, HistoryTypes
  <2> QED BY <2>2, <2>3, ThreePartsNext
<1>3. CASE Fail(p) /\ UNCHANGED <<config, removed>>
  BY <1>1, <1>3, FailTypes, ThreePartsNext DEF Save, DiskTypes, HistoryTypes
<1> QED BY <1>2, <1>3 DEF Save, Persisted

LEMMA AddSaveTypes == ASSUME TypeOK, NEW p \in Procs, AddSave(p) PROVE TypeOK'
<1>1. DiskTypes /\ ProcessTypes /\ HistoryTypes /\ job[p] \in Jobs
  BY ThreeParts, JobFields
<1>2. CASE /\ config' = [config EXCEPT !.recipients = job[p].to]
           /\ removed' = removed \ {job[p].who}
           /\ Goto(p, "addPromote", job[p])
           /\ UNCHANGED faults
  <2>1. ProcessTypes'
    BY <1>1, <1>2, GotoTypes DEF Steps
  <2>2. DiskTypes' /\ HistoryTypes'
    BY <1>1, <1>2, JobFields DEF AddSave, DiskTypes, HistoryTypes
  <2> QED BY <2>1, <2>2, ThreePartsNext
<1>3. CASE Fail(p) /\ UNCHANGED <<config, removed>>
  BY <1>1, <1>3, FailTypes, ThreePartsNext DEF AddSave, DiskTypes, HistoryTypes
<1> QED BY <1>2, <1>3 DEF AddSave

LEMMA AddPromoteTypes == ASSUME TypeOK, NEW p \in Procs, AddPromote(p) PROVE TypeOK'
<1>1. DiskTypes /\ ProcessTypes /\ HistoryTypes
  BY ThreeParts
<1> DEFINE rewrapped == WrappedTo(job[p].dek, job[p].to)
<1>2. CASE key' = rewrapped /\ Grant(rewrapped) /\ Exit(p, "ok") /\ UNCHANGED faults
  <2>1. rewrapped \in Wrapped /\ rewrapped.dek \in Keys /\ rewrapped.to \subseteq People
    BY <1>1, JobFields, WrappedTyped
  <2>2. grants' = grants \cup {<<r, rewrapped.dek>> : r \in rewrapped.to}
    BY <1>2 DEF Grant
  <2>3. ProcessTypes'
    BY <1>1, <1>2, ExitTypes DEF Results
  <2> HIDE DEF rewrapped
  <2>4. DiskTypes' /\ HistoryTypes'
    BY <1>1, <1>2, <2>1, <2>2 DEF AddPromote, DiskTypes, HistoryTypes
  <2> QED BY <2>3, <2>4, ThreePartsNext
<1>3. CASE Fail(p) /\ UNCHANGED <<key, grants>>
  BY <1>1, <1>3, FailTypes, ThreePartsNext DEF AddPromote, DiskTypes, HistoryTypes
<1> QED BY <1>2, <1>3 DEF AddPromote

LEMMA ReadTypes == ASSUME TypeOK, NEW p \in Procs, NEW f \in Files, ReadFile(p, f) PROVE TypeOK'
<1>1. DiskTypes /\ ProcessTypes /\ HistoryTypes
  BY ThreeParts
<1>2. /\ [job[p] EXCEPT !.todo = @ \ {f}] \in Jobs
      /\ [job[p] EXCEPT !.file = f, !.todo = @ \ {f}] \in Jobs
  BY <1>1, JobFields DEF Jobs, Paths
<1>3. ProcessTypes' /\ faults' \in 0..MaxFaults
  <2>1. CASE Goto(p, "file", [job[p] EXCEPT !.todo = @ \ {f}]) /\ UNCHANGED faults
    BY <1>1, <1>2, <2>1, GotoTypes DEF Steps, HistoryTypes
  <2>2. CASE Goto(p, "put", [job[p] EXCEPT !.file = f, !.todo = @ \ {f}]) /\ UNCHANGED faults
    BY <1>1, <1>2, <2>2, GotoTypes DEF Steps, HistoryTypes
  <2>3. CASE Exit(p, "decrypt") /\ UNCHANGED faults
    BY <1>1, <2>3, ExitTypes DEF Results, HistoryTypes
  <2>4. CASE Fail(p)
    BY <1>1, <2>4, FailTypes
  <2> QED BY <2>1, <2>2, <2>3, <2>4 DEF ReadFile
<1>4. DiskTypes' /\ HistoryTypes'
  BY <1>1, <1>3 DEF ReadFile, disk, DiskTypes, HistoryTypes
<1> QED BY <1>3, <1>4, ThreePartsNext

LEMMA PutTypes == ASSUME TypeOK, NEW p \in Procs, PutFile(p) PROVE TypeOK'
<1>1. DiskTypes /\ ProcessTypes /\ HistoryTypes
  BY ThreeParts
<1> DEFINE new == IF job[p].cmd = "lock" THEN job[p].dek ELSE Plain
<1>2. CASE worktree' = [worktree EXCEPT ![job[p].file] = new]
           /\ Goto(p, "file", [job[p] EXCEPT !.file = None]) /\ UNCHANGED faults
  <2>1. [job[p] EXCEPT !.file = None] \in Jobs /\ new \in Keys \cup {Plain}
    BY <1>1, JobFields DEF Jobs
  <2>2. ProcessTypes'
    BY <1>1, <1>2, <2>1, GotoTypes DEF Steps
  <2> HIDE DEF new
  <2>3. DiskTypes' /\ HistoryTypes'
    BY <1>1, <1>2, <2>1 DEF PutFile, DiskTypes, HistoryTypes
  <2> QED BY <2>2, <2>3, ThreePartsNext
<1>3. CASE Fail(p) /\ UNCHANGED worktree
  BY <1>1, <1>3, FailTypes, ThreePartsNext DEF PutFile, DiskTypes, HistoryTypes
<1> QED BY <1>2, <1>3 DEF PutFile

LEMMA DoneTypes == ASSUME TypeOK, NEW p \in Procs, AllDone(p) PROVE TypeOK'
<1>1. DiskTypes /\ ProcessTypes /\ HistoryTypes
  BY ThreeParts
<1>2. ProcessTypes'
  BY <1>1, ExitTypes DEF AllDone, Results
<1>3. DiskTypes' /\ HistoryTypes'
  BY <1>1 DEF AllDone, disk, history, DiskTypes, HistoryTypes
<1> QED BY <1>2, <1>3, ThreePartsNext

LEMMA CrashTypes == ASSUME TypeOK, NEW p \in Procs, Crash(p) PROVE TypeOK'
<1>1. DiskTypes /\ ProcessTypes /\ HistoryTypes
  BY ThreeParts
<1>2. ProcessTypes'
  BY <1>1, LeaveTypes DEF Crash, ProcessTypes
<1>3. DiskTypes' /\ HistoryTypes'
  BY <1>1, FaultTypes DEF Crash, disk, DiskTypes, HistoryTypes
<1> QED BY <1>2, <1>3, ThreePartsNext

LEMMA UserTypes == ASSUME TypeOK, User PROVE TypeOK'
<1>1. DiskTypes /\ ProcessTypes /\ HistoryTypes
  BY ThreeParts
<1>2. ProcessTypes'
  BY <1>1 DEF User, Export, Edit, Commit, process, ProcessTypes
<1>3. edits < MaxEdits => edits + 1 \in 0..MaxEdits
  BY <1>1, ConstantsAssumption DEF HistoryTypes
<1>4. CASE Export
  BY <1>1, <1>2, <1>4, ThreePartsNext DEF Export, history, DiskTypes, HistoryTypes
<1>5. ASSUME NEW f \in Paths, Edit(f) PROVE TypeOK'
  BY <1>1, <1>2, <1>3, <1>5, ThreePartsNext DEF Edit, UserTurn, DiskTypes, HistoryTypes
<1>6. ASSUME NEW f \in Paths, Commit(f) PROVE TypeOK'
  <2>1. (IF worktree[f] = Plain THEN key.dek ELSE worktree[f]) \in Keys
    BY <1>1, DiskFields DEF DiskTypes
  <2>2. DiskTypes'
    BY <1>1, <1>6, <2>1 DEF Commit, DiskTypes
  <2>3. HistoryTypes'
    BY <1>1, <1>3, <1>6 DEF Commit, UserTurn, HistoryTypes
  <2> QED BY <1>2, <2>2, <2>3, ThreePartsNext
<1> QED BY <1>4, <1>5, <1>6 DEF User

\* A command is about the same person throughout.
LEMMA WhoGoto ==
    ASSUME ProcessTypes, WhoInv, NEW p \in Procs, NEW step, NEW locals, pc[p] # "idle",
           Goto(p, step, locals), locals.cmd = job[p].cmd, locals.who = job[p].who
    PROVE  WhoInv'
BY DEF ProcessTypes, WhoInv, Goto

LEMMA WhoLeave == ASSUME ProcessTypes, WhoInv, NEW p \in Procs, Leave(p) PROVE WhoInv'
BY DEF ProcessTypes, WhoInv, Leave

LEMMA WhoBegin ==
    ASSUME TypeOK, WhoInv, NEW p \in Procs, NEW step \in Steps, step # "idle", NEW cmd \in Commands,
           NEW who \in People \cup {None}, NEW to \in SUBSET People, NEW todo \in SUBSET Paths,
           Begin(p, step, Locals(cmd, who, to, todo)), cmd \in {"remove", "add"} => who \in People
    PROVE  WhoInv'
<1>1. ProcessTypes /\ DiskTypes
  BY ThreeParts
<1>2. Locals(cmd, who, to, todo).cmd = cmd /\ Locals(cmd, who, to, todo).who = who
  BY <1>1, LocalsTyped
<1> QED BY <1>1, <1>2 DEF ProcessTypes, WhoInv, Begin, Goto

Step(p) ==
    \/ Plan(p) \/ Generate(p) \/ Seal(p) \/ (\E f \in Paths : WriteFile(p, f))
    \/ Restage(p) \/ Promote(p) \/ Save(p) \/ AddSave(p) \/ AddPromote(p)
    \/ (\E f \in Files : ReadFile(p, f)) \/ PutFile(p) \/ AllDone(p) \/ Crash(p)

LEMMA NextSteps == Next <=> (\E p \in Procs : Start(p) \/ Step(p)) \/ User
BY DEF Next, Step, Rotate, LockOrUnlock

LEMMA WhoStart == ASSUME TypeOK, WhoInv, NEW p \in Procs, Start(p) PROVE WhoInv'
<1>1. Effective \subseteq People /\ Files \subseteq Paths
  BY ThreeParts, DiskFields DEF Paths
<1>2. CASE StartRotate(p)
  <2>1. Begin(p, "plan", Locals("rotate", None, Effective, {}))
    BY <1>2 DEF StartRotate
  <2> QED BY <1>1, <2>1, WhoBegin DEF Steps, Commands
<1>3. ASSUME NEW who \in People, StartRemove(p, who) PROVE WhoInv'
  <2>1. Begin(p, "plan", Locals("remove", who, Effective \ {who}, {}))
    BY <1>3 DEF StartRemove
  <2> QED BY <1>1, <2>1, WhoBegin DEF Steps, Commands
<1>4. ASSUME NEW who \in People, StartAdd(p, who) PROVE WhoInv'
  <2>1. Begin(p, "addSave", Locals("add", who, Effective \cup {who}, {}))
    BY <1>4 DEF StartAdd, FirstOfAdd
  <2> QED BY <1>1, <2>1, WhoBegin DEF Steps, Commands
<1>5. ASSUME NEW who \in People, AlreadyPresent(p, who) PROVE WhoInv'
  BY <1>5 DEF AlreadyPresent, WhoInv
<1>6. ASSUME NEW cmd \in {"lock", "unlock"}, StartLock(p, cmd) PROVE WhoInv'
  <2>1. Begin(p, "file", Locals(cmd, None, {}, Files))
    BY <1>6 DEF StartLock
  <2> QED BY <1>1, <1>6, <2>1, WhoBegin DEF Steps, Commands
<1> QED BY <1>2, <1>3, <1>4, <1>5, <1>6 DEF Start

LEMMA WhoStep == ASSUME TypeOK, WhoInv, NEW p \in Procs, Step(p) PROVE WhoInv'
<1>1. ProcessTypes /\ job[p] \in Jobs
  BY ThreeParts, JobFields
<1>2. CASE Leave(p)
  BY <1>1, <1>2, WhoLeave
<1>3. CASE \E step, locals : /\ pc[p] # "idle" /\ Goto(p, step, locals)
                             /\ locals.cmd = job[p].cmd /\ locals.who = job[p].who
  BY <1>1, <1>3, WhoGoto
<1>5. CASE Plan(p)
  <2> DEFINE locals == [job[p] EXCEPT !.todo = Files \cup {m \in Manifests : worktree[m] # Plain}]
  <2>1. locals.cmd = job[p].cmd /\ locals.who = job[p].who
    BY <1>1 DEF Jobs
  <2>2. pc[p] # "idle" /\ (Goto(p, "generate", locals) \/ Exit(p, "decrypt") \/ Exit(p, "io"))
    BY <1>5 DEF Plan, Fail
  <2> HIDE DEF locals
  <2> QED BY <1>2, <1>3, <2>1, <2>2 DEF Exit
<1>6. CASE Generate(p)
  <2> DEFINE locals == [job[p] EXCEPT !.new = NextKey]
  <2>1. locals.cmd = job[p].cmd /\ locals.who = job[p].who
    BY <1>1 DEF Jobs
  <2>2. pc[p] # "idle" /\ (Goto(p, "seal", locals) \/ Exit(p, "io"))
    BY <1>6 DEF Generate, Fail
  <2> HIDE DEF locals
  <2> QED BY <1>2, <1>3, <2>1, <2>2 DEF Exit
<1>7. CASE Seal(p)
  BY <1>2, <1>3, <1>7 DEF Seal, Exit, Fail
<1>8. ASSUME NEW f \in Paths, WriteFile(p, f) PROVE WhoInv'
  <2> DEFINE locals == [job[p] EXCEPT !.file = f, !.todo = @ \ {f}, !.rotated = @ \cup {f}]
  <2>1. locals.cmd = job[p].cmd /\ locals.who = job[p].who
    BY <1>1 DEF Jobs
  <2>2. pc[p] # "idle" /\ (Goto(p, "index", locals) \/ Exit(p, "io"))
    BY <1>8 DEF WriteFile, Fail
  <2> HIDE DEF locals
  <2> QED BY <1>2, <1>3, <2>1, <2>2 DEF Exit
<1>9. CASE Restage(p)
  <2> DEFINE locals == [job[p] EXCEPT !.file = None]
  <2>1. locals.cmd = job[p].cmd /\ locals.who = job[p].who
    BY <1>1 DEF Jobs
  <2>2. pc[p] # "idle" /\ (Goto(p, "write", locals))
    BY <1>9 DEF Restage
  <2> HIDE DEF locals
  <2> QED BY <1>2, <1>3, <2>1, <2>2 DEF Exit
<1>10. CASE Promote(p)
  BY <1>2, <1>3, <1>10 DEF Promote, Exit, Fail
<1>11. CASE Save(p)
  BY <1>2, <1>11 DEF Save, Exit, Fail
<1>12. CASE AddSave(p)
  BY <1>2, <1>3, <1>12 DEF AddSave, Exit, Fail
<1>13. CASE AddPromote(p)
  BY <1>2, <1>13 DEF AddPromote, Exit, Fail
<1>14. ASSUME NEW f \in Files, ReadFile(p, f) PROVE WhoInv'
  <2> DEFINE skipped == [job[p] EXCEPT !.todo = @ \ {f}]
             locals == [job[p] EXCEPT !.file = f, !.todo = @ \ {f}]
  <2>1. /\ locals.cmd = job[p].cmd /\ locals.who = job[p].who
        /\ skipped.cmd = job[p].cmd /\ skipped.who = job[p].who
    BY <1>1 DEF Jobs
  <2>2. /\ pc[p] # "idle"
        /\ \/ Goto(p, "put", locals) \/ Goto(p, "file", skipped)
           \/ Exit(p, "decrypt") \/ Exit(p, "io")
    BY <1>14 DEF ReadFile, Fail
  <2> HIDE DEF locals, skipped
  <2> QED BY <1>2, <1>3, <2>1, <2>2 DEF Exit
<1>15. CASE PutFile(p)
  <2> DEFINE locals == [job[p] EXCEPT !.file = None]
  <2>1. locals.cmd = job[p].cmd /\ locals.who = job[p].who
    BY <1>1 DEF Jobs
  <2>2. pc[p] # "idle" /\ (Goto(p, "file", locals) \/ Exit(p, "io"))
    BY <1>15 DEF PutFile, Fail
  <2> HIDE DEF locals
  <2> QED BY <1>2, <1>3, <2>1, <2>2 DEF Exit
<1>16. CASE AllDone(p) \/ Crash(p)
  BY <1>2, <1>16 DEF AllDone, Crash, Exit
<1> QED BY <1>5, <1>6, <1>7, <1>8, <1>9, <1>10, <1>11, <1>12, <1>13, <1>14, <1>15, <1>16 DEF Step

LEMMA StepTypes == ASSUME TypeOK, WhoInv, NEW p \in Procs, Step(p) PROVE TypeOK'
BY PlanTypes, GenerateTypes, SealTypes, WriteTypes, RestageTypes, PromoteTypes, SaveTypes,
   AddSaveTypes, AddPromoteTypes, ReadTypes, PutTypes, DoneTypes, CrashTypes DEF Step

LEMMA InitTyped == ASSUME Init PROVE TypeOK /\ WhoInv
<1>1. config \in [backend : Backends, recipients : SUBSET People]
  BY DEF Init
<1>2. key = WrappedTo(0, config.recipients)
  BY DEF Init
<1>3. key \in Wrapped /\ key.dek = 0 /\ key.to \subseteq People /\ 0 \in Keys
  BY <1>1, <1>2, ZeroIsAKey, WrappedTyped
<1>4. DiskTypes
  BY <1>1, <1>3 DEF Init, DiskTypes
<1>5. ProcessTypes /\ WhoInv
  BY NoJobTyped DEF Init, ProcessTypes, WhoInv, Ends, Results, Steps
<1>6. HistoryTypes
  BY <1>3, ConstantsAssumption DEF Init, HistoryTypes
<1> QED BY <1>4, <1>5, <1>6, ThreeParts

LEMMA NextTypes == ASSUME TypeOK, WhoInv, [Next]_vars PROVE TypeOK' /\ WhoInv'
<1>1. CASE UNCHANGED vars
  BY <1>1 DEF vars, disk, process, history, TypeOK, WhoInv
<1>2. ASSUME NEW p \in Procs, Start(p) PROVE TypeOK' /\ WhoInv'
  BY <1>2, StartTypes, WhoStart
<1>3. ASSUME NEW p \in Procs, Step(p) PROVE TypeOK' /\ WhoInv'
  BY <1>3, StepTypes, WhoStep
<1>4. CASE User
  <2>1. WhoInv'
    BY <1>4 DEF User, Export, Edit, Commit, process, WhoInv
  <2> QED BY <1>4, <2>1, UserTypes
<1> QED BY <1>1, <1>2, <1>3, <1>4, NextSteps

\* Whatever runs at once and whatever fails, the key files, the config and every
\* command's locals keep their types (rotate.go, adduser.go, removeuser.go, lock.go).
THEOREM RotationTypes == Spec => []TypeOK
<1>1. Init => TypeOK /\ WhoInv
  BY InitTyped
<1>2. (TypeOK /\ WhoInv) /\ [Next]_vars => (TypeOK /\ WhoInv)'
  BY NextTypes
<1> QED BY <1>1, <1>2, PTL DEF Spec

-----------------------------------------------------------------------------
(* One command at a time. *)

\* No two commands run at once.
Single == \A p, q \in Procs : p = q

\* Whether a failure leaves what Recoverable counts on: the key that env's rotation
\* generates is in memory only.
Safe == OnDisk \/ FaultKinds \subseteq {"git"}

Rotation == {"plan", "generate", "seal", "write", "index", "save"}

\* What a command holds agrees with what is on disk: nobody else writes there.
JobOf(p) ==
    /\ pc[p] \notin {"idle", "save"} => job[p].dek = key.dek
    /\ pc[p] \in {"seal", "write", "index"} =>
          staging = IF OnDisk THEN WrappedTo(job[p].new, job[p].to) ELSE None
    /\ pc[p] = "save" =>
          /\ Backend = "gpg" /\ staging = None
          /\ key = WrappedTo(job[p].new, job[p].to)
    /\ pc[p] \in Rotation =>
          /\ job[p].cmd \in {"rotate", "remove"}
          /\ job[p].to \subseteq Effective
          /\ job[p].cmd = "remove" => Backend = "gpg" /\ job[p].who \notin job[p].to
    /\ pc[p] = "addSave" => job[p].to = Effective \cup {job[p].who}
    /\ pc[p] = "addPromote" => config.recipients = job[p].to
    /\ pc[p] \in {"addSave", "addPromote"} => Backend = "gpg" /\ job[p].cmd = "add"

\* A key that was printed is exported before anything else starts.
PrintedInv == ~OnDisk /\ staging # None => staging.to = {} /\ \A p \in Procs : pc[p] = "idle"

JobInv == PrintedInv /\ \A p \in Procs : JobOf(p)

\* The key is wrapped to nobody whom a command would not load from the configs.
GrantInv == key.to \subseteq Effective

\* Which keys open the files: before a rotation writes and after it ended, while it
\* writes, and of env when the new key was printed.
FilesOpen ==
    \A f \in Paths : \/ worktree[f] \in {Plain, key.dek}
                     \/ staging # None /\ worktree[f] = staging.dek

FilesOf(p) ==
    \A f \in Paths :
        /\ pc[p] \in {"generate", "seal"} => \/ worktree[f] = Plain
                                             \/ f \in job[p].todo /\ worktree[f] = key.dek
        /\ pc[p] = "save" => worktree[f] \in {Plain, key.dek}
        /\ pc[p] \in {"write", "index"} =>
              worktree[f] \in {Plain, IF f \in job[p].todo THEN key.dek ELSE job[p].new}

PrintedOpens == ~OnDisk /\ staging # None => \A f \in Paths : worktree[f] \in {Plain, staging.dek}

Settled == \A p \in Procs : pc[p] \notin {"generate", "seal", "write", "index"}

FilesInv ==
    Safe => /\ Settled => FilesOpen
            /\ PrintedOpens
            /\ \A p \in Procs : FilesOf(p)

Alone == TypeOK /\ WhoInv /\ JobInv /\ GrantInv /\ FilesInv
AloneStep == JobInv' /\ GrantInv' /\ FilesInv'

LEMMA AloneFacts ==
    ASSUME Alone, NEW p \in Procs
    PROVE  /\ DiskTypes /\ ProcessTypes /\ HistoryTypes
           /\ job[p] \in Jobs /\ job[p].new \in Keys /\ job[p].to \subseteq People
           /\ JobOf(p) /\ PrintedInv /\ GrantInv
           /\ Safe => (Settled => FilesOpen) /\ PrintedOpens /\ FilesOf(p)
BY ThreeParts, JobFields DEF Alone, JobInv, FilesInv

\* All the processes are this one.
LEMMA OneProcess ==
    ASSUME Single, NEW p \in Procs, JobOf(p)', PrintedInv', GrantInv',
           Safe' => (Settled => FilesOpen)' /\ PrintedOpens' /\ FilesOf(p)'
    PROVE  AloneStep
<1>1. \A q \in Procs : q = p
  BY DEF Single
<1> QED BY <1>1 DEF AloneStep, JobInv, FilesInv

\* A command that ends promises what is on disk, and nothing of its own.
LEMMA Ended ==
    ASSUME Single, NEW p \in Procs, pc'[p] = "idle", PrintedInv', GrantInv',
           Safe' => FilesOpen' /\ PrintedOpens'
    PROVE  AloneStep
<1>1. JobOf(p)' /\ FilesOf(p)'
  BY DEF JobOf, FilesOf, Rotation
<1> QED BY <1>1, OneProcess

\* Every file opens whenever a command may end without writing.
LEMMA OpensNow ==
    ASSUME Single, Alone, NEW p \in Procs, Safe, OnDisk \/ pc[p] \notin {"write", "index"}
    PROVE  FilesOpen
<1>1. /\ (Settled => FilesOpen) /\ FilesOf(p) /\ JobOf(p) /\ DiskTypes
      /\ job[p].new \in Keys /\ job[p].to \subseteq People
  BY AloneFacts
<1>2. CASE pc[p] \notin {"generate", "seal", "write", "index"}
  BY <1>1, <1>2 DEF Settled, Single
<1>3. CASE pc[p] \in {"generate", "seal"}
  BY <1>1, <1>3 DEF FilesOf, FilesOpen
<1>4. CASE pc[p] \in {"write", "index"}
  <2>1. staging # None /\ staging.dek = job[p].new
    BY <1>1, <1>4, WrappedTyped DEF JobOf
  <2> QED BY <1>1, <1>4, <2>1 DEF FilesOf, FilesOpen
<1> QED BY <1>2, <1>3, <1>4

\* A command that fails, or dies, before it changed anything on disk.
LEMMA EndedEarly ==
    ASSUME Single, Alone, NEW p \in Procs, pc'[p] = "idle",
           UNCHANGED <<worktree, key, staging, config>>,
           \A q \in Procs : pc'[q] = pc[q] \/ pc'[q] = "idle",
           Safe => OnDisk \/ pc[p] \notin {"write", "index"}
    PROVE  AloneStep
<1>1. PrintedInv /\ GrantInv /\ (Safe => PrintedOpens)
  BY AloneFacts
<1>2. Safe' = Safe /\ (Safe => FilesOpen)
  BY OpensNow DEF Safe, OnDisk, Backend
<1>3. PrintedInv' /\ GrantInv' /\ (Safe' => FilesOpen' /\ PrintedOpens')
  BY <1>1, <1>2 DEF PrintedInv, GrantInv, PrintedOpens, FilesOpen, OnDisk, Backend, Effective, Safe
<1> QED BY <1>3, Ended

LEMMA BeginAlone ==
    ASSUME Single, Alone, NEW p \in Procs, NEW step \in {"plan", "addSave", "file"},
           NEW cmd \in Commands, NEW who \in People \cup {None}, NEW to \in SUBSET People,
           NEW todo \in SUBSET Paths, Begin(p, step, Locals(cmd, who, to, todo)),
           step = "plan" => /\ cmd \in {"rotate", "remove"} /\ to \subseteq Effective
                            /\ cmd = "remove" => Backend = "gpg" /\ who \notin to,
           step = "addSave" => Backend = "gpg" /\ cmd = "add" /\ to = Effective \cup {who}
    PROVE  AloneStep
<1>1. /\ DiskTypes /\ ProcessTypes /\ TypeOK /\ GrantInv
      /\ Safe => (Settled => FilesOpen) /\ PrintedOpens
  BY AloneFacts DEF Alone
<1>2. /\ pc'[p] = step /\ step # "idle"
      /\ job'[p] = Locals(cmd, who, to, todo)
  BY <1>1, BeginTypes DEF Steps
<1>3. /\ job'[p].dek = key.dek /\ job'[p].cmd = cmd /\ job'[p].who = who /\ job'[p].to = to
  BY <1>1, <1>2, LocalsTyped
<1>4. UNCHANGED <<worktree, index, key, staging, config>> /\ pc[p] = "idle"
  BY DEF Begin, disk
<1>5. ~OnDisk => staging = None
  BY <1>1, ConstantsAssumption DEF Begin, PrintedKeyIsUsed, OnDisk, Backend, DiskTypes
<1>6. JobOf(p)'
  BY <1>2, <1>3, <1>4 DEF JobOf, Rotation, Effective, Backend, OnDisk
<1>7. PrintedInv' /\ GrantInv'
  BY <1>1, <1>4, <1>5 DEF PrintedInv, GrantInv, Effective, OnDisk, Backend
<1>8. Settled
  BY <1>4 DEF Settled, Single
<1>9. Safe' => (Settled => FilesOpen)' /\ PrintedOpens' /\ FilesOf(p)'
  BY <1>1, <1>2, <1>4, <1>8 DEF Safe, FilesOpen, PrintedOpens, FilesOf, OnDisk, Backend
<1> QED BY <1>6, <1>7, <1>9, OneProcess

LEMMA StartAlone == ASSUME Single, Alone, NEW p \in Procs, Start(p) PROVE AloneStep
<1>1. Effective \subseteq People /\ Files \subseteq Paths
  BY AloneFacts, DiskFields DEF Paths
<1>2. CASE StartRotate(p)
  <2>1. Begin(p, "plan", Locals("rotate", None, Effective, {}))
    BY <1>2 DEF StartRotate
  <2> QED BY <1>1, <2>1, BeginAlone DEF Commands
<1>3. ASSUME NEW who \in People, StartRemove(p, who) PROVE AloneStep
  <2>1. Begin(p, "plan", Locals("remove", who, Effective \ {who}, {})) /\ Backend = "gpg"
    BY <1>3 DEF StartRemove
  <2> QED BY <1>1, <2>1, BeginAlone DEF Commands
<1>4. ASSUME NEW who \in People, StartAdd(p, who) PROVE AloneStep
  <2>1. Begin(p, "addSave", Locals("add", who, Effective \cup {who}, {})) /\ Backend = "gpg"
    BY <1>4 DEF StartAdd, FirstOfAdd
  <2> QED BY <1>1, <2>1, BeginAlone DEF Commands
<1>5. ASSUME NEW who \in People, AlreadyPresent(p, who) PROVE AloneStep
  <2>1. UNCHANGED <<worktree, key, staging, config, pc>> /\ pc[p] = "idle"
    BY <1>5 DEF AlreadyPresent, disk
  <2> QED BY <2>1, EndedEarly
<1>6. ASSUME NEW cmd \in {"lock", "unlock"}, StartLock(p, cmd) PROVE AloneStep
  <2>1. Begin(p, "file", Locals(cmd, None, {}, Files))
    BY <1>6 DEF StartLock
  <2> QED BY <1>1, <1>6, <2>1, BeginAlone DEF Commands
<1> QED BY <1>2, <1>3, <1>4, <1>5, <1>6 DEF Start

LEMMA ExitFacts ==
    ASSUME ProcessTypes, NEW p \in Procs, Leave(p)
    PROVE  pc'[p] = "idle" /\ \A q \in Procs : pc'[q] = pc[q] \/ pc'[q] = "idle"
BY DEF ProcessTypes, Leave

LEMMA GotoFacts ==
    ASSUME ProcessTypes, NEW p \in Procs, NEW step, NEW locals, Goto(p, step, locals)
    PROVE  pc'[p] = step /\ job'[p] = locals
BY DEF ProcessTypes, Goto

LEMMA FailAlone ==
    ASSUME Single, Alone, NEW p \in Procs, Leave(p), UNCHANGED <<worktree, key, staging, config>>,
           pc[p] \notin {"write", "index"} \/ OnDisk
    PROVE  AloneStep
BY AloneFacts, ExitFacts, EndedEarly

LEMMA PlanAlone == ASSUME Single, Alone, NEW p \in Procs, Plan(p) PROVE AloneStep
<1>1. /\ DiskTypes /\ ProcessTypes /\ JobOf(p) /\ PrintedInv /\ GrantInv /\ job[p] \in Jobs
      /\ Safe => PrintedOpens
  BY AloneFacts
<1>2. UNCHANGED <<worktree, key, staging, config>> /\ pc[p] = "plan"
  BY DEF Plan, disk
<1>3. CASE Leave(p)
  BY <1>2, <1>3, FailAlone
<1> DEFINE locals == [job[p] EXCEPT !.todo = Files \cup {m \in Manifests : worktree[m] # Plain}]
<1>4. CASE (\A f \in Paths : worktree[f] \in {Plain, job[p].dek}) /\ Goto(p, "generate", locals)
  <2>1. /\ locals.dek = job[p].dek /\ locals.cmd = job[p].cmd /\ locals.who = job[p].who
        /\ locals.to = job[p].to
    BY <1>1 DEF Jobs
  <2> HIDE DEF locals
  <2>2. pc'[p] = "generate" /\ job'[p] = locals
    BY <1>1, <1>4, GotoFacts
  <2>3. JobOf(p)'
    BY <1>1, <1>2, <2>1, <2>2 DEF JobOf, Rotation, Effective, Backend
  <2>4. PrintedInv' /\ GrantInv'
    BY <1>1, <1>2 DEF PrintedInv, GrantInv, Effective, OnDisk, Backend
  <2>5. \A f \in Paths : worktree[f] = Plain \/ (f \in locals.todo /\ worktree[f] = key.dek)
    <3>1. locals.todo = Files \cup {m \in Manifests : worktree[m] # Plain}
      BY <1>1 DEF Jobs, locals
    <3> QED BY <1>1, <1>2, <1>4, <3>1 DEF Paths, JobOf
  <2>6. Safe' => (Settled => FilesOpen)' /\ PrintedOpens' /\ FilesOf(p)'
    BY <1>1, <1>2, <2>2, <2>5 DEF Safe, Settled, PrintedOpens, FilesOf, OnDisk, Backend
  <2> QED BY <2>3, <2>4, <2>6, OneProcess
<1> QED BY <1>3, <1>4 DEF Plan, Fail, Exit

LEMMA GenerateAlone == ASSUME Single, Alone, NEW p \in Procs, Generate(p) PROVE AloneStep
<1>1. /\ DiskTypes /\ ProcessTypes /\ HistoryTypes /\ JobOf(p) /\ PrintedInv /\ GrantInv
      /\ job[p] \in Jobs /\ job[p].to \subseteq People
      /\ Safe => PrintedOpens /\ FilesOf(p)
  BY AloneFacts
<1>2. UNCHANGED <<worktree, key, config>> /\ pc[p] = "generate"
  BY DEF Generate
<1>3. CASE Leave(p) /\ UNCHANGED staging
  BY <1>2, <1>3, FailAlone
<1> DEFINE locals == [job[p] EXCEPT !.new = NextKey]
<1>4. CASE /\ generated < MaxKeys /\ Goto(p, "seal", locals)
           /\ IF OnDisk THEN staging' = WrappedTo(NextKey, job[p].to) ELSE UNCHANGED staging
  <2>1. /\ locals.dek = job[p].dek /\ locals.cmd = job[p].cmd /\ locals.who = job[p].who
        /\ locals.to = job[p].to /\ locals.new = NextKey
    BY <1>1 DEF Jobs
  <2> HIDE DEF locals
  <2>2. pc'[p] = "seal" /\ job'[p] = locals
    BY <1>1, <1>4, GotoFacts
  <2>3. ~OnDisk => staging = None
    BY <1>1, <1>2 DEF PrintedInv
  <2>4. JobOf(p)'
    BY <1>1, <1>2, <1>4, <2>1, <2>2, <2>3 DEF JobOf, Rotation, Effective, OnDisk, Backend, WrappedTo
  <2>5. PrintedInv' /\ GrantInv'
    BY <1>1, <1>2, <1>4, <2>3 DEF PrintedInv, GrantInv, Effective, OnDisk, Backend
  <2>6. Safe' => (Settled => FilesOpen)' /\ PrintedOpens' /\ FilesOf(p)'
    <3>1. locals.todo = job[p].todo
      BY <1>1 DEF Jobs, locals
    <3> QED BY <1>1, <1>2, <1>4, <2>2, <2>3, <3>1
            DEF Safe, Settled, PrintedOpens, FilesOf, OnDisk, Backend
  <2> QED BY <2>4, <2>5, <2>6, OneProcess
<1> QED BY <1>3, <1>4 DEF Generate, Fail, Exit

\* A backend other than env keeps its keys in files; a failure with env is not safe.
LEMMA UnsafeFault ==
    ASSUME NEW kind \in {"io", "crash"}, Fault(kind) PROVE Safe => OnDisk
BY DEF Fault, Safe

LEMMA PrintedFacts ==
    ASSUME DiskTypes, ProcessTypes, NEW p \in Procs, Printed(p)
    PROVE  /\ OnDisk => staging' = staging
           /\ ~OnDisk => staging' # None /\ staging'.dek = job[p].new /\ staging'.to = {}
<1>1. WrappedTo(job[p].new, {}) # None /\ WrappedTo(job[p].new, {}).dek = job[p].new
      /\ WrappedTo(job[p].new, {}).to = {}
  BY JobFields, WrappedTyped
<1> QED BY <1>1 DEF Printed

LEMMA SealAlone == ASSUME Single, Alone, NEW p \in Procs, Seal(p) PROVE AloneStep
<1>1. /\ DiskTypes /\ ProcessTypes /\ JobOf(p) /\ PrintedInv /\ GrantInv /\ job[p] \in Jobs
      /\ Safe => PrintedOpens /\ FilesOf(p)
  BY AloneFacts
<1>2. UNCHANGED <<worktree, key, config>> /\ pc[p] = "seal"
  BY DEF Seal
<1>3. CASE Fail(p) /\ IF OnDisk THEN staging' = None ELSE Printed(p)
  <2>1. pc'[p] = "idle" /\ (Safe => OnDisk)
    BY <1>1, <1>3, ExitFacts, UnsafeFault DEF Fail, Exit
  <2>2. \A q \in Procs : pc'[q] = "idle"
    BY <2>1 DEF Single
  <2>3. PrintedInv'
    BY <1>1, <1>2, <1>3, <2>2, PrintedFacts DEF PrintedInv, OnDisk, Backend
  <2>4. GrantInv' /\ (Safe' => FilesOpen' /\ PrintedOpens')
    BY <1>1, <1>2, <1>3, <2>1
       DEF GrantInv, Effective, Safe, FilesOpen, PrintedOpens, FilesOf, OnDisk, Backend
  <2> QED BY <2>1, <2>3, <2>4, Ended
<1>4. CASE Goto(p, "write", job[p]) /\ UNCHANGED staging
  <2>1. pc'[p] = "write" /\ job'[p] = job[p]
    BY <1>1, <1>4, GotoFacts
  <2>2. JobOf(p)'
    BY <1>1, <1>2, <1>4, <2>1 DEF JobOf, Rotation, Effective, OnDisk, Backend, WrappedTo
  <2>3. PrintedInv' /\ GrantInv'
    <3>1. ~OnDisk => staging = None
      BY <1>1, <1>2 DEF PrintedInv
    <3> QED BY <1>1, <1>2, <1>4, <3>1 DEF PrintedInv, GrantInv, Effective, OnDisk, Backend
  <2>4. Safe' => (Settled => FilesOpen)' /\ PrintedOpens' /\ FilesOf(p)'
    BY <1>1, <1>2, <1>4, <2>1 DEF Safe, Settled, PrintedOpens, FilesOf, OnDisk, Backend
  <2> QED BY <2>2, <2>3, <2>4, OneProcess
<1> QED BY <1>3, <1>4 DEF Seal, Fail

LEMMA WriteAlone ==
    ASSUME Single, Alone, NEW p \in Procs, NEW f \in Paths, WriteFile(p, f) PROVE AloneStep
<1>1. /\ DiskTypes /\ ProcessTypes /\ JobOf(p) /\ PrintedInv /\ GrantInv /\ job[p] \in Jobs
      /\ Safe => PrintedOpens /\ FilesOf(p)
  BY AloneFacts
<1>2. UNCHANGED <<key, config>> /\ pc[p] = "write"
  BY DEF WriteFile
<1>3. CASE Fail(p) /\ LeaveStaging(p) /\ UNCHANGED worktree
  <2>1. pc'[p] = "idle" /\ (Safe => OnDisk) /\ Printed(p)
    BY <1>1, <1>3, ExitFacts, UnsafeFault DEF Fail, Exit, LeaveStaging
  <2>2. OnDisk => staging' = staging
    BY <1>1, <2>1, PrintedFacts
  <2>3. CASE OnDisk
    BY <1>2, <1>3, <2>2, <2>3, FailAlone DEF Fail, Exit
  <2>4. CASE ~OnDisk
    <3>1. \A q \in Procs : pc'[q] = "idle"
      BY <2>1 DEF Single
    <3>2. PrintedInv'
      BY <1>1, <1>2, <2>1, <2>4, <3>1, PrintedFacts DEF PrintedInv, OnDisk, Backend
    <3>3. GrantInv' /\ ~Safe'
      BY <1>1, <1>2, <2>1, <2>4 DEF GrantInv, Effective, Safe, OnDisk, Backend
    <3> QED BY <2>1, <3>2, <3>3, Ended
  <2> QED BY <2>3, <2>4
<1> DEFINE locals == [job[p] EXCEPT !.file = f, !.todo = @ \ {f}, !.rotated = @ \cup {f}]
<1>4. CASE worktree' = [worktree EXCEPT ![f] = job[p].new] /\ Goto(p, "index", locals)
           /\ UNCHANGED staging
  <2>1. /\ locals.dek = job[p].dek /\ locals.cmd = job[p].cmd /\ locals.who = job[p].who
        /\ locals.to = job[p].to /\ locals.new = job[p].new /\ locals.todo = job[p].todo \ {f}
    BY <1>1 DEF Jobs
  <2> HIDE DEF locals
  <2>2. pc'[p] = "index" /\ job'[p] = locals
    BY <1>1, <1>4, GotoFacts
  <2>3. JobOf(p)'
    BY <1>1, <1>2, <1>4, <2>1, <2>2 DEF JobOf, Rotation, Effective, OnDisk, Backend, WrappedTo
  <2>4. ~OnDisk => staging = None
    BY <1>1, <1>2 DEF PrintedInv
  <2>5. PrintedInv' /\ GrantInv'
    BY <1>1, <1>2, <1>4, <2>4 DEF PrintedInv, GrantInv, Effective, OnDisk, Backend
  <2>6. Safe => FilesOf(p)'
    <3>1. \A g \in Paths : worktree'[g] = IF g = f THEN job[p].new ELSE worktree[g]
      BY <1>1, <1>4 DEF DiskTypes
    <3> QED BY <1>1, <1>2, <2>1, <2>2, <3>1 DEF FilesOf
  <2>7. Safe' => (Settled => FilesOpen)' /\ PrintedOpens' /\ FilesOf(p)'
    BY <1>2, <1>4, <2>2, <2>4, <2>6 DEF Safe, Settled, PrintedOpens, OnDisk, Backend
  <2> QED BY <2>3, <2>5, <2>7, OneProcess
<1> QED BY <1>3, <1>4 DEF WriteFile

LEMMA RestageAlone == ASSUME Single, Alone, NEW p \in Procs, Restage(p) PROVE AloneStep
<1>1. /\ DiskTypes /\ ProcessTypes /\ JobOf(p) /\ PrintedInv /\ GrantInv /\ job[p] \in Jobs
      /\ Safe => PrintedOpens /\ FilesOf(p)
  BY AloneFacts
<1> DEFINE locals == [job[p] EXCEPT !.file = None]
<1>2. UNCHANGED <<worktree, key, staging, config>> /\ pc[p] = "index" /\ Goto(p, "write", locals)
  BY DEF Restage
<1>3. /\ locals.dek = job[p].dek /\ locals.cmd = job[p].cmd /\ locals.who = job[p].who
      /\ locals.to = job[p].to /\ locals.new = job[p].new /\ locals.todo = job[p].todo
  BY <1>1 DEF Jobs
<1> HIDE DEF locals
<1>4. pc'[p] = "write" /\ job'[p] = locals
  BY <1>1, <1>2, GotoFacts
<1>5. JobOf(p)'
  BY <1>1, <1>2, <1>3, <1>4 DEF JobOf, Rotation, Effective, OnDisk, Backend, WrappedTo
<1>6. ~OnDisk => staging = None
  BY <1>1, <1>2 DEF PrintedInv
<1>7. PrintedInv' /\ GrantInv'
  BY <1>1, <1>2, <1>6 DEF PrintedInv, GrantInv, Effective, OnDisk, Backend
<1>8. Safe' => (Settled => FilesOpen)' /\ PrintedOpens' /\ FilesOf(p)'
  BY <1>1, <1>2, <1>3, <1>4, <1>6 DEF Safe, Settled, PrintedOpens, FilesOf, OnDisk, Backend
<1> QED BY <1>5, <1>7, <1>8, OneProcess

LEMMA PromoteAlone == ASSUME Single, Alone, NEW p \in Procs, Promote(p) PROVE AloneStep
<1>1. /\ DiskTypes /\ ProcessTypes /\ JobOf(p) /\ PrintedInv /\ GrantInv /\ job[p] \in Jobs
      /\ job[p].new \in Keys /\ job[p].to \subseteq People
      /\ Safe => PrintedOpens /\ FilesOf(p)
  BY AloneFacts
<1>2. UNCHANGED <<worktree, config>> /\ pc[p] = "write" /\ job[p].todo = {}
  BY DEF Promote
<1>3. Safe => \A f \in Paths : worktree[f] \in {Plain, job[p].new}
  BY <1>1, <1>2 DEF FilesOf
<1>4. CASE OnDisk /\ key' = staging /\ staging' = None
           /\ IF Backend = "gpg" THEN Goto(p, "save", job[p]) ELSE Exit(p, "ok")
  <2>1. key' = WrappedTo(job[p].new, job[p].to) /\ job[p].to \subseteq Effective
    BY <1>1, <1>2, <1>4 DEF JobOf, Rotation
  <2>2. key'.dek = job[p].new /\ key'.to \subseteq job[p].to
    BY <1>1, <2>1, WrappedTyped
  <2>3. PrintedInv' /\ GrantInv'
    BY <1>2, <1>4, <2>1, <2>2 DEF PrintedInv, GrantInv, Effective
  <2>4. Safe' => FilesOpen' /\ PrintedOpens' /\ \A f \in Paths : worktree'[f] \in {Plain, key'.dek}
    BY <1>2, <1>3, <1>4, <2>2 DEF Safe, FilesOpen, PrintedOpens, OnDisk, Backend
  <2>5. CASE Backend = "gpg"
    <3>1. pc'[p] = "save" /\ job'[p] = job[p]
      BY <1>1, <1>4, <2>5, GotoFacts
    <3>2. JobOf(p)'
      BY <1>1, <1>2, <1>4, <2>1, <2>5, <3>1 DEF JobOf, Rotation, Effective, Backend, WrappedTo
    <3>3. Safe' => FilesOf(p)'
      BY <2>4, <3>1 DEF FilesOf
    <3> QED BY <2>3, <2>4, <3>2, <3>3, OneProcess
  <2>6. CASE Backend # "gpg"
    BY <1>1, <1>4, <2>3, <2>4, <2>6, ExitFacts, Ended DEF Exit
  <2> QED BY <2>5, <2>6
<1>5. CASE OnDisk /\ Exit(p, "io") /\ UNCHANGED <<key, staging>>
  BY <1>2, <1>5, FailAlone DEF Exit
<1>6. CASE ~OnDisk /\ Exit(p, "ok") /\ Printed(p) /\ UNCHANGED key
  <2>1. pc'[p] = "idle" /\ \A q \in Procs : pc'[q] = "idle"
    BY <1>1, <1>6, ExitFacts DEF Exit, Single
  <2>2. PrintedInv' /\ GrantInv'
    BY <1>1, <1>2, <1>6, <2>1, PrintedFacts DEF PrintedInv, GrantInv, Effective
  <2>3. Safe' => FilesOpen' /\ PrintedOpens'
    <3>1. staging' # None /\ staging'.dek = job[p].new
      BY <1>1, <1>6, PrintedFacts
    <3> QED BY <1>2, <1>3, <3>1 DEF Safe, FilesOpen, PrintedOpens, OnDisk, Backend
  <2> QED BY <2>1, <2>2, <2>3, Ended
<1> QED BY <1>4, <1>5, <1>6 DEF Promote

LEMMA SaveAlone == ASSUME Single, Alone, NEW p \in Procs, Save(p) PROVE AloneStep
<1>1. /\ DiskTypes /\ ProcessTypes /\ JobOf(p) /\ PrintedInv /\ GrantInv
      /\ job[p].new \in Keys /\ job[p].to \subseteq People
      /\ Safe => PrintedOpens /\ FilesOf(p)
  BY AloneFacts
<1>2. UNCHANGED <<worktree, key, staging>> /\ pc[p] = "save"
  BY DEF Save
<1>3. CASE config' = [config EXCEPT !.recipients = job[p].to] /\ Exit(p, "ok")
  <2>1. config'.recipients = job[p].to /\ config'.backend = config.backend
    BY <1>1, <1>3 DEF DiskTypes
  <2>2. pc'[p] = "idle"
    BY <1>1, <1>3, ExitFacts DEF Exit
  <2>3. key = WrappedTo(job[p].new, job[p].to) /\ staging = None
    BY <1>1, <1>2 DEF JobOf
  <2>4. key.to \subseteq job[p].to
    BY <1>1, <2>3, WrappedTyped
  <2>5. PrintedInv' /\ GrantInv'
    BY <1>2, <2>1, <2>3, <2>4 DEF PrintedInv, GrantInv, Effective
  <2>6. Safe' => FilesOpen' /\ PrintedOpens'
    BY <1>1, <1>2, <2>1, <2>3 DEF Safe, FilesOpen, PrintedOpens, FilesOf, OnDisk, Backend
  <2> QED BY <2>2, <2>5, <2>6, Ended
<1>4. CASE Fail(p) /\ UNCHANGED config
  BY <1>2, <1>4, FailAlone DEF Fail, Exit
<1> QED BY <1>3, <1>4 DEF Save, Persisted

LEMMA AddSaveAlone == ASSUME Single, Alone, NEW p \in Procs, AddSave(p) PROVE AloneStep
<1>1. /\ DiskTypes /\ ProcessTypes /\ JobOf(p) /\ PrintedInv /\ GrantInv
      /\ Safe => (Settled => FilesOpen) /\ PrintedOpens
  BY AloneFacts
<1>2. UNCHANGED <<worktree, key, staging>> /\ pc[p] = "addSave"
  BY DEF AddSave
<1>3. CASE config' = [config EXCEPT !.recipients = job[p].to] /\ Goto(p, "addPromote", job[p])
  <2>1. config'.recipients = job[p].to /\ config'.backend = config.backend
    BY <1>1, <1>3 DEF DiskTypes
  <2>2. pc'[p] = "addPromote" /\ job'[p] = job[p]
    BY <1>1, <1>3, GotoFacts
  <2>3. JobOf(p)'
    BY <1>1, <1>2, <2>1, <2>2 DEF JobOf, Rotation, Backend
  <2>4. PrintedInv' /\ GrantInv'
    BY <1>1, <1>2, <2>1 DEF PrintedInv, GrantInv, Effective, JobOf, Backend, OnDisk
  <2>5. Settled
    BY <1>2 DEF Settled, Single
  <2>6. Safe' => (Settled => FilesOpen)' /\ PrintedOpens' /\ FilesOf(p)'
    BY <1>1, <1>2, <2>1, <2>2, <2>5 DEF Safe, FilesOpen, PrintedOpens, FilesOf, OnDisk, Backend
  <2> QED BY <2>3, <2>4, <2>6, OneProcess
<1>4. CASE Fail(p) /\ UNCHANGED config
  BY <1>2, <1>4, FailAlone DEF Fail, Exit
<1> QED BY <1>3, <1>4 DEF AddSave

LEMMA AddPromoteAlone == ASSUME Single, Alone, NEW p \in Procs, AddPromote(p) PROVE AloneStep
<1>1. /\ DiskTypes /\ ProcessTypes /\ JobOf(p) /\ PrintedInv /\ GrantInv
      /\ job[p].dek \in Keys /\ job[p].to \subseteq People
      /\ Safe => (Settled => FilesOpen) /\ PrintedOpens
  BY AloneFacts, JobFields
<1>2. UNCHANGED <<worktree, staging, config>> /\ pc[p] = "addPromote"
  BY DEF AddPromote
<1>3. CASE key' = WrappedTo(job[p].dek, job[p].to) /\ Exit(p, "ok")
  <2>1. pc'[p] = "idle"
    BY <1>1, <1>3, ExitFacts DEF Exit
  <2>2. key'.dek = key.dek /\ key'.to \subseteq config.recipients /\ Backend = "gpg"
    BY <1>1, <1>2, <1>3, WrappedTyped DEF JobOf
  <2>3. PrintedInv' /\ GrantInv'
    BY <1>2, <2>2 DEF PrintedInv, GrantInv, Effective, OnDisk, Backend
  <2>4. Settled
    BY <1>2 DEF Settled, Single
  <2>5. Safe' => FilesOpen' /\ PrintedOpens'
    BY <1>1, <1>2, <2>2, <2>4 DEF Safe, FilesOpen, PrintedOpens, OnDisk, Backend
  <2> QED BY <2>1, <2>3, <2>5, Ended
<1>4. CASE Fail(p) /\ UNCHANGED key
  BY <1>2, <1>4, FailAlone DEF Fail, Exit
<1> QED BY <1>3, <1>4 DEF AddPromote

LEMMA ReadAlone ==
    ASSUME Single, Alone, NEW p \in Procs, NEW f \in Files, ReadFile(p, f) PROVE AloneStep
<1>1. /\ DiskTypes /\ ProcessTypes /\ JobOf(p) /\ PrintedInv /\ GrantInv /\ job[p] \in Jobs
      /\ Safe => (Settled => FilesOpen) /\ PrintedOpens
  BY AloneFacts
<1>2. UNCHANGED <<worktree, key, staging, config>> /\ pc[p] = "file"
  BY DEF ReadFile, disk
<1>3. CASE Leave(p)
  BY <1>2, <1>3, FailAlone
<1>4. ASSUME NEW step \in {"file", "put"}, NEW locals, Goto(p, step, locals),
             locals.dek = job[p].dek
      PROVE AloneStep
  <2>1. pc'[p] = step /\ job'[p] = locals
    BY <1>1, <1>4, GotoFacts
  <2>2. JobOf(p)'
    BY <1>1, <1>2, <1>4, <2>1 DEF JobOf, Rotation
  <2>3. PrintedInv' /\ GrantInv' /\ Settled
    BY <1>1, <1>2 DEF PrintedInv, GrantInv, Effective, OnDisk, Backend, Settled, Single
  <2>4. Safe' => (Settled => FilesOpen)' /\ PrintedOpens' /\ FilesOf(p)'
    BY <1>1, <1>2, <2>1, <2>3 DEF Safe, FilesOpen, PrintedOpens, FilesOf, OnDisk, Backend
  <2> QED BY <2>2, <2>3, <2>4, OneProcess
<1> DEFINE skipped == [job[p] EXCEPT !.todo = @ \ {f}]
           locals == [job[p] EXCEPT !.file = f, !.todo = @ \ {f}]
<1>5. skipped.dek = job[p].dek /\ locals.dek = job[p].dek
  BY <1>1 DEF Jobs
<1>6. Leave(p) \/ Goto(p, "file", skipped) \/ Goto(p, "put", locals)
  BY DEF ReadFile, Exit, Fail
<1> HIDE DEF skipped, locals
<1> QED BY <1>3, <1>4, <1>5, <1>6

LEMMA PutAlone == ASSUME Single, Alone, NEW p \in Procs, PutFile(p) PROVE AloneStep
<1>1. /\ DiskTypes /\ ProcessTypes /\ JobOf(p) /\ PrintedInv /\ GrantInv /\ job[p] \in Jobs
      /\ Safe => (Settled => FilesOpen) /\ PrintedOpens
  BY AloneFacts
<1>2. UNCHANGED <<key, staging, config>> /\ pc[p] = "put"
  BY DEF PutFile
<1> DEFINE new == IF job[p].cmd = "lock" THEN job[p].dek ELSE Plain
           locals == [job[p] EXCEPT !.file = None]
<1>3. CASE worktree' = [worktree EXCEPT ![job[p].file] = new] /\ Goto(p, "file", locals)
  <2>1. locals.dek = job[p].dek /\ job[p].dek = key.dek
    BY <1>1, <1>2 DEF Jobs, JobOf
  <2>2. new \in {Plain, key.dek}
    BY <2>1
  <2> HIDE DEF locals, new
  <2>3. pc'[p] = "file" /\ job'[p] = locals
    BY <1>1, <1>3, GotoFacts
  <2>4. JobOf(p)'
    BY <1>1, <1>2, <2>1, <2>3 DEF JobOf, Rotation
  <2>5. PrintedInv' /\ GrantInv' /\ Settled /\ (~OnDisk => staging = None)
    BY <1>1, <1>2 DEF PrintedInv, GrantInv, Effective, OnDisk, Backend, Settled, Single
  <2>6. Safe => FilesOpen'
    BY <1>1, <1>2, <1>3, <2>2, <2>5 DEF FilesOpen, DiskTypes
  <2>7. Safe' => (Settled => FilesOpen)' /\ PrintedOpens' /\ FilesOf(p)'
    BY <1>2, <2>3, <2>5, <2>6 DEF Safe, PrintedOpens, FilesOf, OnDisk, Backend
  <2> QED BY <2>4, <2>5, <2>7, OneProcess
<1>4. CASE Fail(p) /\ UNCHANGED worktree
  BY <1>2, <1>4, FailAlone DEF Fail, Exit
<1> QED BY <1>3, <1>4 DEF PutFile

LEMMA EndAlone == ASSUME Single, Alone, NEW p \in Procs, AllDone(p) \/ Crash(p) PROVE AloneStep
<1>1. CASE AllDone(p)
  BY <1>1, FailAlone DEF AllDone, Exit, disk
<1>2. CASE Crash(p)
  <2>1. Leave(p) /\ UNCHANGED <<worktree, key, staging, config>> /\ (Safe => OnDisk)
    BY <1>2, UnsafeFault DEF Crash, disk
  <2> QED BY <2>1, AloneFacts, ExitFacts, EndedEarly
<1> QED BY <1>1, <1>2

LEMMA UserAlone == ASSUME Single, Alone, User PROVE AloneStep
<1>1. /\ DiskTypes /\ ProcessTypes /\ PrintedInv /\ GrantInv /\ \A p \in Procs : JobOf(p)
      /\ Safe => (Settled => FilesOpen) /\ PrintedOpens /\ \A p \in Procs : FilesOf(p)
  BY ThreeParts DEF Alone, JobInv, FilesInv
<1>2. UNCHANGED <<pc, job, config>>
  BY DEF User, Export, Edit, Commit, process
<1>3. CASE Export
  <2>1. /\ key' = staging /\ staging' = None /\ worktree' = worktree
        /\ staging.to = {} /\ ~OnDisk /\ staging # None
    BY <1>1, <1>3 DEF Export, PrintedInv
  <2>2. \A p \in Procs : pc[p] = "idle"
    BY <1>1, <2>1 DEF PrintedInv
  <2>3. JobInv'
    BY <1>2, <2>1, <2>2 DEF JobInv, PrintedInv, JobOf, Rotation
  <2>4. GrantInv'
    BY <2>1 DEF GrantInv
  <2>5. FilesInv'
    BY <1>1, <1>2, <2>1, <2>2 DEF FilesInv, Safe, FilesOpen, PrintedOpens, FilesOf, OnDisk, Backend
  <2> QED BY <2>3, <2>4, <2>5 DEF AloneStep
<1>4. ASSUME UNCHANGED <<key, staging>>,
             \A f \in Paths : worktree'[f] \in {Plain, worktree[f]}
      PROVE  AloneStep
  <2>1. JobInv' /\ GrantInv'
    BY <1>1, <1>2, <1>4
       DEF JobInv, PrintedInv, JobOf, Rotation, GrantInv, Effective, OnDisk, Backend, WrappedTo
  <2>2. Safe => (Settled' => FilesOpen') /\ PrintedOpens' /\ \A p \in Procs : FilesOf(p)'
    BY <1>1, <1>2, <1>4 DEF Settled, FilesOpen, PrintedOpens, FilesOf, OnDisk, Backend
  <2>3. FilesInv'
    BY <1>2, <2>2 DEF FilesInv, Safe, OnDisk, Backend
  <2> QED BY <2>1, <2>3 DEF AloneStep
<1>5. ASSUME NEW f \in Paths, Edit(f) \/ Commit(f) PROVE AloneStep
  <2>1. UNCHANGED <<key, staging>> /\ \A g \in Paths : worktree'[g] \in {Plain, worktree[g]}
    BY <1>1, <1>5 DEF Edit, Commit, DiskTypes
  <2> QED BY <1>4, <2>1
<1> QED BY <1>3, <1>5 DEF User

-----------------------------------------------------------------------------
(* Revocation, with one command at a time. *)

\* The keys in key_source and key_source.new, and those that open something.
Held == {key.dek} \cup (IF staging = None THEN {} ELSE {staging.dek})
InUse == Held \cup {worktree[f] : f \in Paths}

HeldWasGenerated == Backend = "gpg" => \A k \in Held : k <= generated

\* Nobody has a key that is yet to be generated.
GrantedKeys == \A r \in People, k \in Keys : <<r, k>> \in grants => k <= generated

\* Somebody who was removed is in no config and unwraps none of the keys in use.
LockedOut(r) ==
    /\ Backend = "gpg"
    /\ r \notin Effective
    /\ \A k \in InUse : <<r, k>> \notin grants

\* Whom a rotation removes does not get the key it rotates to.
Passed(p) ==
    pc[p] \in {"seal", "write", "index", "save"} /\ job[p].cmd = "remove" =>
        <<job[p].who, job[p].new>> \notin grants

RemovedInv ==
    /\ GrantedKeys
    /\ HeldWasGenerated
    /\ \A r \in removed \ Global : LockedOut(r)
    /\ \A p \in Procs : Passed(p)

LEMMA PlainIsNoKey == ASSUME HistoryTypes, NEW r PROVE <<r, Plain>> \notin grants
BY ConstantsAssumption DEF HistoryTypes, Keys

\* A step that gives the key to nobody, removes nobody and puts no key to use.
LEMMA RemovedKept ==
    ASSUME Alone, RemovedInv, UNCHANGED <<grants, generated>>, removed' \subseteq removed,
           config'.backend = config.backend, \A r \in removed' \ Global : r \notin Effective',
           Backend = "gpg" => Held' \subseteq Held /\ InUse' \subseteq InUse \cup {Plain},
           \A p \in Procs : Passed(p)'
    PROVE  RemovedInv'
<1>1. HistoryTypes
  BY ThreeParts DEF Alone
<1>2. GrantedKeys' /\ HeldWasGenerated'
  BY DEF RemovedInv, GrantedKeys, HeldWasGenerated, Backend
<1>3. ASSUME NEW r \in removed' \ Global PROVE LockedOut(r)'
  <2>1. LockedOut(r) /\ <<r, Plain>> \notin grants
    BY <1>1, <1>3, PlainIsNoKey DEF RemovedInv
  <2> QED BY <1>3, <2>1 DEF LockedOut, Backend
<1> QED BY <1>2, <1>3 DEF RemovedInv

LEMMA DiskUse == ASSUME UNCHANGED <<worktree, key, staging>> PROVE Held' = Held /\ InUse' = InUse
BY DEF Held, InUse

\* What each step puts to use, of a repository with the gpg backend.
LEMMA WriteUse ==
    ASSUME Single, Alone, NEW p \in Procs, Backend = "gpg", NEW f \in Paths, WriteFile(p, f)
    PROVE  Held' = Held /\ InUse' \subseteq InUse
<1>1. /\ DiskTypes /\ ProcessTypes /\ JobOf(p) /\ OnDisk
      /\ job[p].new \in Keys /\ job[p].to \subseteq People
  BY AloneFacts DEF OnDisk
<1>2. key' = key /\ pc[p] = "write"
  BY DEF WriteFile
<1>3. staging # None /\ staging.dek = job[p].new
  BY <1>1, <1>2, WrappedTyped DEF JobOf
<1>4. staging' = staging
  BY <1>1, PrintedFacts DEF WriteFile, LeaveStaging
<1>5. worktree' = [worktree EXCEPT ![f] = job[p].new] \/ worktree' = worktree
  BY DEF WriteFile
<1>6. \A g \in Paths : worktree'[g] \in {worktree[g], job[p].new}
  BY <1>1, <1>5 DEF DiskTypes
<1> QED BY <1>2, <1>3, <1>4, <1>6 DEF Held, InUse

LEMMA PutUse ==
    ASSUME Single, Alone, NEW p \in Procs, PutFile(p)
    PROVE  Held' = Held /\ InUse' \subseteq InUse \cup {Plain}
<1>1. DiskTypes /\ JobOf(p)
  BY AloneFacts
<1>2. UNCHANGED <<key, staging>> /\ pc[p] = "put"
  BY DEF PutFile
<1>3. job[p].dek = key.dek
  BY <1>1, <1>2 DEF JobOf
<1>4. \A g \in Paths : worktree'[g] \in {worktree[g], key.dek, Plain}
  BY <1>1, <1>3 DEF PutFile, DiskTypes
<1> QED BY <1>2, <1>4 DEF Held, InUse

\* The steps that leave the job as it is keep what it has passed.
LEMMA PassedKept ==
    ASSUME Single, RemovedInv, NEW p \in Procs, grants' = grants,
           \/ pc'[p] \notin {"seal", "write", "index", "save"}
           \/ /\ pc[p] \in {"seal", "write", "index"}
              /\ job'[p].cmd = job[p].cmd /\ job'[p].who = job[p].who /\ job'[p].new = job[p].new
    PROVE  \A q \in Procs : Passed(q)'
<1>1. \A q \in Procs : q = p
  BY DEF Single
<1> QED BY <1>1 DEF RemovedInv, Passed

LEMMA GenerateRemoved ==
    ASSUME Single, Alone, RemovedInv, NEW p \in Procs, Generate(p) PROVE RemovedInv'
<1>1. /\ DiskTypes /\ ProcessTypes /\ HistoryTypes /\ JobOf(p) /\ PrintedInv
      /\ job[p] \in Jobs /\ job[p].to \subseteq People
  BY AloneFacts
<1>2. UNCHANGED <<worktree, key, config, removed>> /\ pc[p] = "generate"
  BY DEF Generate
<1>3. CASE Leave(p) /\ UNCHANGED <<staging, generated, grants>>
  <2>1. \A q \in Procs : Passed(q)'
    BY <1>1, <1>3, ExitFacts, PassedKept
  <2> QED BY <1>2, <1>3, <2>1, DiskUse, RemovedKept DEF RemovedInv, LockedOut, Effective
<1> DEFINE locals == [job[p] EXCEPT !.new = NextKey]
<1>4. CASE /\ generated < MaxKeys /\ generated' = generated + 1 /\ Goto(p, "seal", locals)
           /\ IF OnDisk THEN staging' = WrappedTo(NextKey, job[p].to) /\ Grant(staging')
              ELSE UNCHANGED <<staging, grants>>
  <2>1. NextKey \in Keys /\ NextKey > generated /\ generated' = NextKey /\ generated \in Nat
    BY <1>1, <1>4, NextKeyTyped DEF NextKey, HistoryTypes, Keys
  <2>2. /\ locals.cmd = job[p].cmd /\ locals.who = job[p].who /\ locals.new = NextKey
    BY <1>1 DEF Jobs
  <2> HIDE DEF locals
  <2>3. pc'[p] = "seal" /\ job'[p] = locals
    BY <1>1, <1>4, GotoFacts
  <2>4. /\ \A r, k : <<r, k>> \in grants' => <<r, k>> \in grants \/ (r \in job[p].to /\ k = NextKey)
        /\ OnDisk => staging'.dek = NextKey
        /\ ~OnDisk => staging' = staging
    <3>1. CASE OnDisk
      <4>1. staging'.dek = NextKey /\ staging'.to \subseteq job[p].to
        BY <1>1, <1>4, <2>1, <3>1, WrappedTyped
      <4>2. grants' = grants \cup {<<r, staging'.dek>> : r \in staging'.to}
        BY <1>4, <3>1 DEF Grant
      <4> QED BY <3>1, <4>1, <4>2
    <3>2. CASE ~OnDisk
      BY <1>4, <3>2
    <3> QED BY <3>1, <3>2
  <2>5. \A k \in Keys, r \in People : <<r, k>> \in grants => k <= generated
    BY DEF RemovedInv, GrantedKeys
  <2>6. GrantedKeys'
    <3> SUFFICES ASSUME NEW r \in People, NEW k \in Keys, <<r, k>> \in grants' PROVE k <= generated'
      BY DEF GrantedKeys
    <3>1. k <= generated \/ k = NextKey
      BY <2>4, <2>5
    <3>2. k \in Nat
      BY DEF Keys
    <3> QED BY <2>1, <3>1, <3>2
  <2>7. \A r : <<r, NextKey>> \notin grants
    <3>1. \A r \in People : <<r, NextKey>> \notin grants
      BY <2>1, <2>5 DEF Keys
    <3>2. grants \subseteq People \X Keys
      BY <1>1 DEF HistoryTypes
    <3> QED BY <3>1, <3>2
  <2>8. ASSUME NEW r \in removed' \ Global PROVE LockedOut(r)'
    <3>1. LockedOut(r)
      BY <1>2, <2>8 DEF RemovedInv
    <3>2. OnDisk /\ r \notin job[p].to
      BY <1>1, <1>2, <3>1 DEF LockedOut, OnDisk, JobOf, Rotation
    <3>3. InUse' \subseteq InUse \cup {NextKey}
      BY <1>2, <2>4, <3>2 DEF Held, InUse
    <3>4. \A k \in InUse \cup {NextKey} : <<r, k>> \notin grants'
      BY <2>4, <2>7, <3>1, <3>2 DEF LockedOut
    <3> QED BY <1>2, <3>1, <3>3, <3>4 DEF LockedOut, Effective, Backend
  <2>9. ASSUME NEW q \in Procs PROVE Passed(q)'
    <3>1. q = p
      BY DEF Single
    <3>2. job[p].cmd = "remove" => job[p].who \notin job[p].to
      BY <1>1, <1>2 DEF JobOf, Rotation
    <3> QED BY <2>2, <2>3, <2>4, <2>7, <3>1, <3>2 DEF Passed
  <2>10. HeldWasGenerated'
    <3> SUFFICES ASSUME Backend = "gpg" PROVE \A k \in Held' : k <= generated'
      BY <1>2 DEF HeldWasGenerated, Backend
    <3>1. Held' = {key.dek, NextKey}
      <4>1. WrappedTo(NextKey, job[p].to) # None
        BY <1>1, <2>1, WrappedTyped
      <4> QED BY <1>2, <1>4, <2>4, <4>1 DEF OnDisk, Held
    <3>2. key.dek <= generated /\ key.dek \in Nat
      BY <1>1, DiskFields DEF RemovedInv, HeldWasGenerated, Held, Keys
    <3>3. NextKey \in Nat /\ \A k \in Held' : k = key.dek \/ k = NextKey
      BY <2>1, <3>1 DEF Keys
    <3> QED BY <2>1, <3>2, <3>3
  <2> QED BY <2>6, <2>8, <2>9, <2>10 DEF RemovedInv
<1> QED BY <1>3, <1>4 DEF Generate, Fail, Exit

LEMMA AddPromoteRemoved ==
    ASSUME Single, Alone, RemovedInv, NEW p \in Procs, AddPromote(p) PROVE RemovedInv'
<1>1. /\ DiskTypes /\ ProcessTypes /\ HistoryTypes /\ JobOf(p)
      /\ job[p].dek \in Keys /\ job[p].to \subseteq People
  BY AloneFacts, JobFields
<1>2. /\ UNCHANGED <<worktree, staging, config, removed, generated>>
      /\ pc[p] = "addPromote" /\ Leave(p)
  BY DEF AddPromote, Fail, Exit
<1>3. pc'[p] = "idle" /\ \A q \in Procs : Passed(q)'
  <2>1. pc'[p] = "idle"
    BY <1>1, <1>2, ExitFacts
  <2> QED BY <2>1 DEF Passed, Single
<1>4. CASE UNCHANGED <<key, grants>>
  BY <1>2, <1>3, <1>4, DiskUse, RemovedKept DEF RemovedInv, LockedOut, Effective
<1> DEFINE rewrapped == WrappedTo(job[p].dek, job[p].to)
<1>5. CASE key' = rewrapped /\ Grant(rewrapped)
  <2>1. rewrapped.dek = key.dek /\ rewrapped.to \subseteq config.recipients /\ key.dek \in Keys
    BY <1>1, <1>2, WrappedTyped, DiskFields DEF JobOf
  <2>2. grants' = grants \cup {<<r, rewrapped.dek>> : r \in rewrapped.to}
    BY <1>5 DEF Grant
  <2> HIDE DEF rewrapped
  <2>3. \A r, k : <<r, k>> \in grants' =>
           <<r, k>> \in grants \/ (r \in config.recipients /\ k = key.dek)
    BY <2>1, <2>2
  <2>4. key.dek <= generated /\ HeldWasGenerated'
    BY <1>1, <1>2, <1>5, <2>1 DEF JobOf, RemovedInv, HeldWasGenerated, Held, Backend
  <2>5. GrantedKeys'
    BY <1>2, <2>3, <2>4 DEF RemovedInv, GrantedKeys
  <2>6. InUse' = InUse
    BY <1>2, <1>5, <2>1 DEF InUse, Held
  <2>7. ASSUME NEW r \in removed' \ Global PROVE LockedOut(r)'
    <3>1. LockedOut(r)
      BY <1>2, <2>7 DEF RemovedInv
    <3> QED BY <1>2, <2>3, <2>6, <3>1 DEF LockedOut, Effective, Backend
  <2> QED BY <1>3, <2>4, <2>5, <2>7 DEF RemovedInv
<1> QED BY <1>4, <1>5 DEF AddPromote

\* Whoever leaves, or moves on with the keys as they were.
LEMMA StillRemoved ==
    ASSUME Single, Alone, RemovedInv, NEW p \in Procs,
           UNCHANGED <<worktree, key, staging, config, generated, grants, removed>>,
           \/ pc'[p] \notin {"seal", "write", "index", "save"}
           \/ /\ pc[p] \in {"seal", "write", "index"}
              /\ job'[p].cmd = job[p].cmd /\ job'[p].who = job[p].who /\ job'[p].new = job[p].new
    PROVE  RemovedInv'
<1>1. \A q \in Procs : Passed(q)'
  BY PassedKept
<1> QED BY <1>1, DiskUse, RemovedKept DEF RemovedInv, LockedOut, Effective

LEMMA StartRemoved ==
    ASSUME Single, Alone, RemovedInv, TypeOK', NEW p \in Procs, Start(p) PROVE RemovedInv'
<1>1. UNCHANGED <<disk, history>>
  BY DEF Start, StartRotate, StartRemove, StartAdd, AlreadyPresent, StartLock, Begin
<1>2. ProcessTypes /\ pc[p] = "idle"
  BY AloneFacts DEF Start, StartRotate, StartRemove, StartAdd, AlreadyPresent, StartLock, Begin
<1>3. pc'[p] \in {"plan", "addSave", "file", "idle"}
  BY <1>2 DEF Start, StartRotate, StartRemove, StartAdd, AlreadyPresent, StartLock, Begin,
     FirstOfAdd, Goto, ProcessTypes
<1> QED BY <1>1, <1>3, StillRemoved DEF disk, history

LEMMA PlanRemoved == ASSUME Single, Alone, RemovedInv, NEW p \in Procs, Plan(p) PROVE RemovedInv'
<1>1. ProcessTypes /\ UNCHANGED <<worktree, key, staging, config, generated, grants, removed>>
  BY AloneFacts DEF Plan, disk
<1>2. pc'[p] \in {"generate", "idle"}
  BY <1>1 DEF Plan, Fail, Exit, Leave, Goto, ProcessTypes
<1> QED BY <1>1, <1>2, StillRemoved

LEMMA EndRemoved ==
    ASSUME Single, Alone, RemovedInv, NEW p \in Procs, AllDone(p) \/ Crash(p) PROVE RemovedInv'
<1>1. ProcessTypes /\ UNCHANGED <<worktree, key, staging, config, generated, grants, removed>>
  BY AloneFacts DEF AllDone, Crash, disk, history
<1>2. pc'[p] = "idle"
  BY <1>1 DEF AllDone, Crash, Exit, Leave, ProcessTypes
<1> QED BY <1>1, <1>2, StillRemoved

LEMMA ReadRemoved ==
    ASSUME Single, Alone, RemovedInv, NEW p \in Procs, NEW f \in Files, ReadFile(p, f)
    PROVE  RemovedInv'
<1>1. ProcessTypes /\ UNCHANGED <<worktree, key, staging, config, generated, grants, removed>>
  BY AloneFacts DEF ReadFile, disk
<1>2. pc'[p] \in {"file", "put", "idle"}
  BY <1>1 DEF ReadFile, Fail, Exit, Leave, Goto, ProcessTypes
<1> QED BY <1>1, <1>2, StillRemoved

LEMMA PutRemoved == ASSUME Single, Alone, RemovedInv, NEW p \in Procs, PutFile(p) PROVE RemovedInv'
<1>1. ProcessTypes /\ UNCHANGED <<key, staging, config, generated, grants, removed>>
  BY AloneFacts DEF PutFile
<1>2. pc'[p] \in {"file", "idle"}
  BY <1>1 DEF PutFile, Fail, Exit, Leave, Goto, ProcessTypes
<1>3. \A q \in Procs : Passed(q)'
  BY <1>1, <1>2, PassedKept
<1> QED BY <1>1, <1>3, PutUse, RemovedKept DEF RemovedInv, LockedOut, Effective

LEMMA WriteRemoved ==
    ASSUME Single, Alone, RemovedInv, NEW p \in Procs, NEW f \in Paths, WriteFile(p, f)
    PROVE  RemovedInv'
<1>1. /\ ProcessTypes /\ job[p] \in Jobs /\ pc[p] = "write"
      /\ UNCHANGED <<key, config, generated, grants, removed>>
  BY AloneFacts DEF WriteFile
<1>2. \/ pc'[p] = "idle"
      \/ job'[p].cmd = job[p].cmd /\ job'[p].who = job[p].who /\ job'[p].new = job[p].new
  <2> DEFINE locals == [job[p] EXCEPT !.file = f, !.todo = @ \ {f}, !.rotated = @ \cup {f}]
  <2>1. locals.cmd = job[p].cmd /\ locals.who = job[p].who /\ locals.new = job[p].new
    BY <1>1 DEF Jobs
  <2>2. Goto(p, "index", locals) \/ Leave(p)
    BY DEF WriteFile, Fail, Exit
  <2> HIDE DEF locals
  <2> QED BY <1>1, <2>1, <2>2, GotoFacts, ExitFacts
<1>3. \A q \in Procs : Passed(q)'
  BY <1>1, <1>2, PassedKept
<1> QED BY <1>1, <1>3, WriteUse, RemovedKept DEF RemovedInv, LockedOut, Effective

LEMMA SealRemoved == ASSUME Single, Alone, RemovedInv, NEW p \in Procs, Seal(p) PROVE RemovedInv'
<1>1. /\ ProcessTypes /\ pc[p] = "seal"
      /\ UNCHANGED <<worktree, key, config, generated, grants, removed>>
  BY AloneFacts DEF Seal
<1>2. Backend = "gpg" => staging' \in {staging, None}
  BY DEF Seal, OnDisk
<1>3. Backend = "gpg" => Held' \subseteq Held /\ InUse' \subseteq InUse
  BY <1>1, <1>2 DEF Held, InUse
<1>4. pc'[p] = "idle" \/ job'[p] = job[p]
  BY <1>1, GotoFacts, ExitFacts DEF Seal, Fail, Exit
<1>5. \A q \in Procs : Passed(q)'
  BY <1>1, <1>4, PassedKept
<1> QED BY <1>1, <1>3, <1>5, RemovedKept DEF RemovedInv, LockedOut, Effective

LEMMA RestageRemoved ==
    ASSUME Single, Alone, RemovedInv, NEW p \in Procs, Restage(p) PROVE RemovedInv'
<1>1. /\ ProcessTypes /\ job[p] \in Jobs
      /\ UNCHANGED <<worktree, key, staging, config, generated, grants, removed>>
  BY AloneFacts DEF Restage
<1> DEFINE locals == [job[p] EXCEPT !.file = None]
<1>2. locals.cmd = job[p].cmd /\ locals.who = job[p].who /\ locals.new = job[p].new
  BY <1>1 DEF Jobs
<1>3. pc[p] = "index" /\ Goto(p, "write", locals)
  BY DEF Restage
<1> HIDE DEF locals
<1> QED BY <1>1, <1>2, <1>3, GotoFacts, StillRemoved

LEMMA PromoteRemoved ==
    ASSUME Single, Alone, RemovedInv, NEW p \in Procs, Promote(p) PROVE RemovedInv'
<1>1. /\ ProcessTypes /\ pc[p] = "write"
      /\ UNCHANGED <<worktree, config, generated, grants, removed>>
  BY AloneFacts DEF Promote
<1>2. Backend = "gpg" => Held' \subseteq Held
  BY DEF Promote, OnDisk, Held
<1>3. Backend = "gpg" => InUse' \subseteq InUse
  BY <1>1, <1>2 DEF InUse
<1>4. pc'[p] = "idle" \/ job'[p] = job[p]
  BY <1>1, GotoFacts, ExitFacts DEF Promote, Exit
<1>5. \A q \in Procs : Passed(q)'
  BY <1>1, <1>4, PassedKept
<1> QED BY <1>1, <1>2, <1>3, <1>5, RemovedKept DEF RemovedInv, LockedOut, Effective

\* Once the config is saved, every file opens with the new key and with no other.
LEMMA SaveRemoved ==
    ASSUME Single, Alone, RemovedInv, NEW p \in Procs, Save(p) PROVE RemovedInv'
<1>1. /\ DiskTypes /\ ProcessTypes /\ HistoryTypes /\ JobOf(p) /\ job[p].new \in Keys
      /\ job[p].to \subseteq People
      /\ Safe => FilesOf(p)
  BY AloneFacts
<1>2. /\ pc[p] = "save"
      /\ UNCHANGED <<worktree, key, staging, generated, grants>>
  BY DEF Save
<1>3. Leave(p)
  BY DEF Save, Fail, Exit
<1>4. pc'[p] = "idle"
  BY <1>1, <1>3, ExitFacts
<1>5. \A q \in Procs : Passed(q)'
  BY <1>2, <1>4, PassedKept
<1>6. CASE UNCHANGED <<config, removed>>
  BY <1>2, <1>4, <1>6, StillRemoved
<1>7. CASE /\ config' = [config EXCEPT !.recipients = job[p].to]
           /\ removed' = removed \cup (IF job[p].cmd = "remove" THEN {job[p].who} ELSE {})
  <2>1. config'.recipients = job[p].to /\ config'.backend = config.backend
    BY <1>1, <1>7 DEF DiskTypes
  <2>2. /\ Backend = "gpg" /\ staging = None /\ key.dek = job[p].new
        /\ job[p].to \subseteq Effective
        /\ job[p].cmd = "remove" => job[p].who \notin job[p].to
    <3>1. key = WrappedTo(job[p].new, job[p].to) /\ staging = None /\ Backend = "gpg"
      BY <1>1, <1>2 DEF JobOf
    <3>2. key.dek = job[p].new
      BY <1>1, <3>1, WrappedTyped
    <3> QED BY <1>1, <1>2, <3>1, <3>2 DEF JobOf, Rotation
  <2>3. \A k \in InUse : k \in {Plain, key.dek}
    <3>1. \A f \in Paths : worktree[f] \in {Plain, key.dek}
      BY <1>1, <1>2, <2>2 DEF FilesOf, Safe, OnDisk
    <3>2. Held = {key.dek}
      BY <2>2 DEF Held
    <3> QED BY <3>1, <3>2 DEF InUse
  <2>4. HeldWasGenerated' /\ GrantedKeys' /\ InUse' = InUse
    BY <1>2, <2>1, DiskUse DEF RemovedInv, HeldWasGenerated, GrantedKeys, Backend
  <2>5. ASSUME NEW r \in removed' \ Global PROVE LockedOut(r)'
    <3>1. CASE r \in removed
      <4>1. LockedOut(r)
        BY <3>1 DEF RemovedInv
      <4> QED BY <1>2, <2>1, <2>2, <2>4, <2>5, <4>1 DEF LockedOut, Effective, Backend
    <3>2. CASE job[p].cmd = "remove" /\ r = job[p].who
      <4>1. <<r, key.dek>> \notin grants
        BY <1>2, <2>2, <3>2 DEF RemovedInv, Passed
      <4>2. \A k \in InUse : <<r, k>> \notin grants
        BY <1>1, <2>3, <4>1, PlainIsNoKey
      <4> QED BY <1>2, <2>1, <2>2, <2>4, <2>5, <3>2, <4>2 DEF LockedOut, Effective, Backend
    <3> QED BY <1>7, <2>5, <3>1, <3>2
  <2> QED BY <1>5, <2>4, <2>5 DEF RemovedInv
<1> QED BY <1>6, <1>7 DEF Save, Persisted

LEMMA AddSaveRemoved ==
    ASSUME Single, Alone, RemovedInv, NEW p \in Procs, AddSave(p) PROVE RemovedInv'
<1>1. DiskTypes /\ ProcessTypes /\ JobOf(p)
  BY AloneFacts
<1>2. pc[p] = "addSave" /\ UNCHANGED <<worktree, key, staging, generated, grants>>
  BY DEF AddSave
<1>3. pc'[p] \in {"idle", "addPromote"}
  BY <1>1 DEF AddSave, Fail, Exit, Leave, Goto, ProcessTypes
<1>4. \A q \in Procs : Passed(q)'
  BY <1>2, <1>3, PassedKept
<1>5. CASE UNCHANGED <<config, removed>>
  BY <1>2, <1>3, <1>5, StillRemoved
<1>6. CASE /\ config' = [config EXCEPT !.recipients = job[p].to]
           /\ removed' = removed \ {job[p].who}
  <2>1. config'.recipients = Effective \cup {job[p].who} /\ config'.backend = config.backend
    BY <1>1, <1>2, <1>6 DEF DiskTypes, JobOf
  <2>2. \A r \in removed' \ Global : r \notin Effective'
    BY <1>6, <2>1 DEF RemovedInv, LockedOut, Effective
  <2> QED BY <1>2, <1>4, <1>6, <2>1, <2>2, DiskUse, RemovedKept
<1> QED BY <1>5, <1>6 DEF AddSave

LEMMA UserRemoved == ASSUME Single, Alone, RemovedInv, User PROVE RemovedInv'
<1>1. DiskTypes
  BY ThreeParts DEF Alone
<1>2. UNCHANGED <<pc, job, config, grants, generated, removed>>
  BY DEF User, Export, Edit, Commit, process, history
<1>3. Backend = "gpg" => UNCHANGED <<key, staging>>
  BY DEF User, Export, Edit, Commit, OnDisk
<1>4. Backend = "gpg" => \A g \in Paths : worktree'[g] \in {Plain, worktree[g]}
  BY <1>1 DEF User, Export, Edit, Commit, DiskTypes
<1>5. Backend = "gpg" => Held' = Held /\ InUse' \subseteq InUse \cup {Plain}
  BY <1>3, <1>4 DEF Held, InUse
<1>6. \A q \in Procs : Passed(q)'
  BY <1>2 DEF RemovedInv, Passed
<1> QED BY <1>2, <1>5, <1>6, RemovedKept DEF RemovedInv, LockedOut, Effective

-----------------------------------------------------------------------------
(* What is staged, while nothing fails but the process, and the user waits. *)

Calm ==
    /\ Single /\ ~UserOverlaps /\ Manifests = {}
    /\ FaultKinds \subseteq {"crash"}
    /\ Backends \subseteq {"file", "gpg"} \/ FaultKinds = {}

\* A rotation has restaged every file that it no longer has to write.
StagedOf(p) ==
    /\ pc[p] \in {"generate", "seal"} => Files \subseteq job[p].todo
    /\ pc[p] = "write" => \A f \in Paths \ job[p].todo : index[f] = job[p].new
    /\ pc[p] = "index" =>
          \A f \in Paths \ (job[p].todo \cup {job[p].file}) : index[f] = job[p].new

Unwritten == \A p \in Procs : pc[p] \notin {"write", "index"}

StagedInv ==
    /\ staging = None /\ Unwritten => \A f \in Paths : index[f] = key.dek
    /\ ~OnDisk /\ staging # None => \A f \in Paths : index[f] = staging.dek
    /\ \A p \in Procs : StagedOf(p)

LEMMA CalmFacts ==
    ASSUME Calm, Alone
    PROVE  /\ Paths = Files /\ Safe
           /\ \A kind : kind # "crash" => ~Fault(kind)
           /\ \A kind : Fault(kind) => OnDisk
           /\ ~OnDisk => Backend = "env"
BY AloneFacts, ThreeParts, ConstantsAssumption
   DEF Calm, Paths, Safe, Fault, OnDisk, Backend, Alone, DiskTypes

\* A step that touches neither what is staged nor which key is kept.
LEMMA StagedKept ==
    ASSUME Single, StagedInv, NEW p \in Procs, UNCHANGED <<index, staging>>, key'.dek = key.dek,
           config'.backend = config.backend, pc'[p] \notin {"generate", "seal", "write", "index"},
           pc[p] \in {"write", "index"} => staging # None
    PROVE  StagedInv'
<1>1. \A q \in Procs : q = p
  BY DEF Single
<1> QED BY <1>1 DEF StagedInv, StagedOf, Unwritten, OnDisk, Backend

LEMMA StartStaged == ASSUME Calm, Alone, StagedInv, NEW p \in Procs, Start(p) PROVE StagedInv'
<1>1. UNCHANGED disk
  BY DEF Start, StartRotate, StartRemove, StartAdd, AlreadyPresent, StartLock, Begin
<1>2. ProcessTypes /\ pc[p] = "idle"
  BY AloneFacts DEF Start, StartRotate, StartRemove, StartAdd, AlreadyPresent, StartLock, Begin
<1>3. pc'[p] \in {"plan", "addSave", "file", "idle"}
  BY <1>2 DEF Start, StartRotate, StartRemove, StartAdd, AlreadyPresent, StartLock, Begin,
     FirstOfAdd, Goto, ProcessTypes
<1> QED BY <1>1, <1>2, <1>3, StagedKept DEF Calm, disk

LEMMA PlanStaged == ASSUME Calm, Alone, StagedInv, NEW p \in Procs, Plan(p) PROVE StagedInv'
<1>1. ProcessTypes /\ job[p] \in Jobs /\ UNCHANGED <<index, key, staging, config>> /\ pc[p] = "plan"
  BY AloneFacts DEF Plan, disk
<1>2. CASE Leave(p)
  BY <1>1, <1>2, ExitFacts, StagedKept DEF Calm
<1> DEFINE locals == [job[p] EXCEPT !.todo = Files \cup {m \in Manifests : worktree[m] # Plain}]
<1>3. CASE Goto(p, "generate", locals)
  <2>1. Files \subseteq locals.todo
    BY <1>1 DEF Jobs
  <2> HIDE DEF locals
  <2>2. pc'[p] = "generate" /\ job'[p] = locals /\ \A q \in Procs : q = p
    BY <1>1, <1>3, GotoFacts DEF Calm, Single
  <2> QED BY <1>1, <2>1, <2>2 DEF StagedInv, StagedOf, Unwritten, OnDisk, Backend
<1> QED BY <1>2, <1>3 DEF Plan, Fail, Exit

LEMMA GenerateStaged ==
    ASSUME Calm, Alone, StagedInv, NEW p \in Procs, Generate(p) PROVE StagedInv'
<1>1. /\ DiskTypes /\ ProcessTypes /\ HistoryTypes /\ PrintedInv /\ job[p] \in Jobs
      /\ job[p].to \subseteq People
  BY AloneFacts
<1>2. UNCHANGED <<index, key, config>> /\ pc[p] = "generate" /\ ~Fail(p)
  BY CalmFacts DEF Generate, Fail
<1> DEFINE locals == [job[p] EXCEPT !.new = NextKey]
<1>3. /\ generated < MaxKeys /\ Goto(p, "seal", locals)
      /\ IF OnDisk THEN staging' = WrappedTo(NextKey, job[p].to) ELSE UNCHANGED staging
  BY <1>2 DEF Generate
<1>4. locals.todo = job[p].todo
  BY <1>1 DEF Jobs
<1> HIDE DEF locals
<1>5. pc'[p] = "seal" /\ job'[p] = locals /\ \A q \in Procs : q = p
  BY <1>1, <1>3, GotoFacts DEF Calm, Single
<1>6. (OnDisk => staging' # None) /\ (~OnDisk => staging = None /\ staging' = None)
  <2>1. WrappedTo(NextKey, job[p].to) # None
    BY <1>1, <1>3, NextKeyTyped, WrappedTyped
  <2> QED BY <1>1, <1>2, <1>3, <2>1 DEF PrintedInv
<1> QED BY <1>2, <1>4, <1>5, <1>6 DEF StagedInv, StagedOf, Unwritten, OnDisk, Backend

LEMMA SealStaged == ASSUME Calm, Alone, StagedInv, NEW p \in Procs, Seal(p) PROVE StagedInv'
<1>1. ProcessTypes /\ Paths = Files
  BY AloneFacts, CalmFacts
<1>2. /\ UNCHANGED <<index, key, config, staging>> /\ pc[p] = "seal" /\ Goto(p, "write", job[p])
  BY CalmFacts DEF Seal, Fail
<1>3. pc'[p] = "write" /\ job'[p] = job[p] /\ \A q \in Procs : q = p
  BY <1>1, <1>2, GotoFacts DEF Calm, Single
<1> QED BY <1>1, <1>2, <1>3 DEF StagedInv, StagedOf, Unwritten, OnDisk, Backend

LEMMA WriteStaged ==
    ASSUME Calm, Alone, StagedInv, NEW p \in Procs, NEW f \in Paths, WriteFile(p, f)
    PROVE  StagedInv'
<1>1. ProcessTypes /\ job[p] \in Jobs
  BY AloneFacts
<1> DEFINE locals == [job[p] EXCEPT !.file = f, !.todo = @ \ {f}, !.rotated = @ \cup {f}]
<1>2. /\ UNCHANGED <<index, key, config, staging>> /\ pc[p] = "write" /\ Goto(p, "index", locals)
  BY CalmFacts DEF WriteFile, Fail
<1>3. locals.new = job[p].new /\ locals.todo = job[p].todo \ {f} /\ locals.file = f
  BY <1>1 DEF Jobs
<1> HIDE DEF locals
<1>4. pc'[p] = "index" /\ job'[p] = locals /\ \A q \in Procs : q = p
  BY <1>1, <1>2, GotoFacts DEF Calm, Single
<1> QED BY <1>2, <1>3, <1>4 DEF StagedInv, StagedOf, Unwritten, OnDisk, Backend

LEMMA RestageStaged ==
    ASSUME Calm, Alone, StagedInv, NEW p \in Procs, Restage(p) PROVE StagedInv'
<1>1. DiskTypes /\ ProcessTypes /\ job[p] \in Jobs /\ PrintedInv
  BY AloneFacts
<1> DEFINE locals == [job[p] EXCEPT !.file = None]
<1>2. /\ UNCHANGED <<key, config, staging>> /\ pc[p] = "index" /\ Goto(p, "write", locals)
      /\ index' = [index EXCEPT ![job[p].file] = job[p].new]
  BY CalmFacts DEF Restage, Restaged
<1>3. locals.new = job[p].new /\ locals.todo = job[p].todo
  BY <1>1 DEF Jobs
<1> HIDE DEF locals
<1>4. pc'[p] = "write" /\ job'[p] = locals /\ \A q \in Procs : q = p
  BY <1>1, <1>2, GotoFacts DEF Calm, Single
<1>5. \A f \in Paths : index'[f] = IF f = job[p].file THEN job[p].new ELSE index[f]
  BY <1>1, <1>2 DEF DiskTypes
<1>6. StagedOf(p)'
  BY <1>2, <1>3, <1>4, <1>5 DEF StagedInv, StagedOf
<1>7. ~OnDisk => staging = None
  BY <1>1, <1>2 DEF PrintedInv
<1> QED BY <1>2, <1>4, <1>6, <1>7 DEF StagedInv, Unwritten, OnDisk, Backend

\* The key every blob was restaged under becomes the key.
LEMMA PromoteStaged ==
    ASSUME Calm, Alone, StagedInv, NEW p \in Procs, Promote(p) PROVE StagedInv'
<1>1. /\ DiskTypes /\ ProcessTypes /\ JobOf(p) /\ job[p].new \in Keys /\ job[p].to \subseteq People
  BY AloneFacts
<1>2. UNCHANGED <<index, config>> /\ pc[p] = "write" /\ job[p].todo = {}
  BY DEF Promote
<1>3. \A f \in Paths : index[f] = job[p].new
  BY <1>2 DEF StagedInv, StagedOf
<1>4. OnDisk => staging # None /\ staging.dek = job[p].new
  BY <1>1, <1>2, WrappedTyped DEF JobOf
<1>5. pc'[p] \in {"idle", "save"} /\ \A q \in Procs : q = p
  BY <1>1 DEF Promote, Exit, Leave, Goto, ProcessTypes, Calm, Single
<1>6. \/ OnDisk /\ key' = staging /\ staging' = None
      \/ ~OnDisk /\ staging' # None /\ staging'.dek = job[p].new
  BY <1>1, <1>4, CalmFacts, PrintedFacts DEF Promote
<1> QED BY <1>2, <1>3, <1>4, <1>5, <1>6 DEF StagedInv, StagedOf, Unwritten, OnDisk, Backend

LEMMA SaveStaged ==
    ASSUME Calm, Alone, StagedInv, NEW p \in Procs, Save(p) \/ AddSave(p) PROVE StagedInv'
<1>1. DiskTypes /\ ProcessTypes
  BY AloneFacts
<1>2. UNCHANGED <<index, key, staging>> /\ pc[p] \in {"save", "addSave"}
  BY DEF Save, AddSave
<1>3. pc'[p] \in {"idle", "addPromote"}
  BY <1>1 DEF Save, AddSave, Fail, Exit, Leave, Goto, ProcessTypes
<1>4. config'.backend = config.backend
  BY <1>1 DEF Save, Persisted, AddSave, DiskTypes
<1> QED BY <1>2, <1>3, <1>4, StagedKept DEF Calm

LEMMA AddPromoteStaged ==
    ASSUME Calm, Alone, StagedInv, NEW p \in Procs, AddPromote(p) PROVE StagedInv'
<1>1. ProcessTypes /\ JobOf(p) /\ job[p].dek \in Keys /\ job[p].to \subseteq People
  BY AloneFacts, JobFields
<1>2. UNCHANGED <<index, staging, config>> /\ pc[p] = "addPromote"
  BY DEF AddPromote
<1>3. pc'[p] = "idle"
  BY <1>1 DEF AddPromote, Fail, Exit, Leave, ProcessTypes
<1>4. key'.dek = key.dek
  BY <1>1, <1>2, WrappedTyped DEF AddPromote, JobOf
<1> QED BY <1>2, <1>3, <1>4, StagedKept DEF Calm

LEMMA LockStaged ==
    ASSUME Calm, Alone, StagedInv, NEW p \in Procs,
           (\E f \in Files : ReadFile(p, f)) \/ PutFile(p) \/ AllDone(p)
    PROVE  StagedInv'
<1>1. ProcessTypes
  BY AloneFacts
<1>2. UNCHANGED <<index, key, staging, config>> /\ pc[p] \in {"file", "put"}
  BY DEF ReadFile, PutFile, AllDone, disk
<1>3. pc'[p] \in {"idle", "file", "put"}
  BY <1>1 DEF ReadFile, PutFile, AllDone, Fail, Exit, Leave, Goto, ProcessTypes
<1> QED BY <1>2, <1>3, StagedKept DEF Calm

\* The process may die only where the new key is on disk, which marks the rotation
\* as half done.
LEMMA CrashStaged == ASSUME Calm, Alone, StagedInv, NEW p \in Procs, Crash(p) PROVE StagedInv'
<1>1. ProcessTypes /\ JobOf(p) /\ job[p].new \in Keys /\ job[p].to \subseteq People
  BY AloneFacts
<1>2. UNCHANGED <<index, key, staging, config>> /\ OnDisk /\ Leave(p)
  BY CalmFacts DEF Crash, disk
<1>3. pc[p] \in {"write", "index"} => staging # None
  BY <1>1, <1>2, WrappedTyped DEF JobOf
<1>4. pc'[p] = "idle"
  BY <1>1, <1>2, ExitFacts
<1> QED BY <1>2, <1>3, <1>4, StagedKept DEF Calm

LEMMA UserStaged == ASSUME Calm, Alone, StagedInv, User PROVE StagedInv'
<1>1. DiskTypes /\ PrintedInv /\ (Safe => (Settled => FilesOpen))
  BY ThreeParts DEF Alone, JobInv, FilesInv
<1>2. UNCHANGED <<pc, job, config>>
  BY DEF User, Export, Edit, Commit, process
<1>3. CASE Export
  <2>1. /\ key' = staging /\ staging' = None /\ index' = index /\ ~OnDisk /\ staging # None
    BY <1>3 DEF Export
  <2>2. \A p \in Procs : pc[p] = "idle"
    BY <1>1, <2>1 DEF PrintedInv
  <2> QED BY <1>2, <2>1, <2>2 DEF StagedInv, StagedOf, Unwritten, OnDisk, Backend
<1>4. ASSUME NEW f \in Paths, Edit(f) PROVE StagedInv'
  <2>1. UNCHANGED <<index, key, staging>>
    BY <1>4 DEF Edit
  <2> QED BY <1>2, <2>1 DEF StagedInv, StagedOf, Unwritten, OnDisk, Backend
<1>5. ASSUME NEW f \in Paths, Commit(f) PROVE StagedInv'
  <2>1. \A p \in Procs : pc[p] = "idle"
    BY <1>5 DEF Commit, UserTurn, Calm
  <2>2. UNCHANGED <<key, staging>> /\ (~OnDisk => staging = None)
    BY <1>5, CalmFacts DEF Commit, UserTurn, PrintedKeyIsUsed
  <2>3. staging = None => worktree[f] \in {Plain, key.dek}
    BY <1>1, <2>1, CalmFacts DEF Settled, FilesOpen
  <2>4. staging = None => \A g \in Paths : index'[g] = key.dek
    <3>1. \A g \in Paths : \/ index'[g] = index[g]
                            \/ index'[g] = key.dek \/ (worktree[f] # Plain /\ index'[g] = worktree[f])
      BY <1>1, <1>5 DEF Commit, DiskTypes
    <3>2. staging = None => \A g \in Paths : index[g] = key.dek
      BY <2>1 DEF StagedInv, Unwritten
    <3> QED BY <2>3, <3>1, <3>2
  <2> QED BY <1>2, <2>1, <2>2, <2>4 DEF StagedInv, StagedOf, Unwritten, OnDisk, Backend
<1> QED BY <1>3, <1>4, <1>5 DEF User

-----------------------------------------------------------------------------
(* The promises. *)

LEMMA InitAlone == ASSUME Init PROVE Alone
<1>1. TypeOK /\ WhoInv /\ DiskTypes
  BY InitTyped, ThreeParts
<1>2. key = WrappedTo(0, config.recipients) /\ staging = None /\ \A p \in Procs : pc[p] = "idle"
  BY DEF Init
<1>3. key.dek = 0 /\ key.to \subseteq config.recipients
  BY <1>1, <1>2, ZeroIsAKey, WrappedTyped DEF DiskTypes
<1>4. JobInv /\ GrantInv
  BY <1>2, <1>3 DEF JobInv, JobOf, PrintedInv, GrantInv, Rotation, Effective
<1>5. FilesInv
  BY <1>2, <1>3 DEF Init, FilesInv, FilesOpen, FilesOf, PrintedOpens
<1> QED BY <1>1, <1>4, <1>5 DEF Alone

LEMMA NextAlone == ASSUME Single, Alone, [Next]_vars PROVE Alone'
<1>1. TypeOK' /\ WhoInv'
  BY NextTypes DEF Alone
<1>2. CASE UNCHANGED vars
  BY <1>2 DEF vars, disk, process, history, Alone, TypeOK, WhoInv, JobInv, JobOf, PrintedInv,
     GrantInv, FilesInv, FilesOpen, FilesOf, PrintedOpens, Settled, Safe, OnDisk, Backend,
     Effective, WrappedTo, Rotation
<1>3. ASSUME NEW p \in Procs, Start(p) \/ Step(p) PROVE AloneStep
  BY <1>3, StartAlone, PlanAlone, GenerateAlone, SealAlone, WriteAlone, RestageAlone,
     PromoteAlone, SaveAlone, AddSaveAlone, AddPromoteAlone, ReadAlone, PutAlone, EndAlone DEF Step
<1>4. AloneStep \/ UNCHANGED vars
  BY <1>2, <1>3, UserAlone, NextSteps
<1> QED BY <1>1, <1>2, <1>4 DEF Alone, AloneStep

\* One command at a time: what it read when it started is what is there when it writes.
LEMMA AloneAlways == ASSUME Single PROVE Spec => []Alone
<1>1. Init => Alone
  BY InitAlone
<1>2. Alone /\ [Next]_vars => Alone'
  BY NextAlone
<1> QED BY <1>1, <1>2, PTL DEF Spec

LEMMA AloneRecovers == ASSUME Single, Alone, Safe PROVE Recoverable
<1> SUFFICES ASSUME NEW f \in Paths PROVE worktree[f] \in {Plain} \cup Kept
  BY DEF Recoverable
<1>1. CASE Settled
  <2>1. FilesOpen
    BY <1>1 DEF Alone, FilesInv
  <2> QED BY <2>1 DEF FilesOpen, Kept
<1>2. ASSUME NEW p \in Procs, pc[p] \in {"generate", "seal", "write", "index"}
      PROVE  worktree[f] \in {Plain} \cup Kept
  <2>1. FilesOf(p)
    BY AloneFacts
  <2>2. CASE OnDisk \/ pc[p] \in {"generate", "seal"}
    <3>1. FilesOpen
      BY <1>2, <2>2, OpensNow
    <3> QED BY <3>1 DEF FilesOpen, Kept
  <2>3. CASE ~OnDisk /\ pc[p] \in {"write", "index"}
    BY <2>1, <2>3 DEF FilesOf, Kept
  <2> QED BY <1>2, <2>2, <2>3
<1> QED BY <1>1, <1>2 DEF Settled

\* With one command at a time and a key that outlives the process, a rotation, lock or
\* unlock that fails or dies between any two of its calls leaves every sealed file
\* open to a key that is still kept (rotate.go: key_source.new, written first).
THEOREM EveryFileRecovers ==
    ASSUME Single, Backends \subseteq {"file", "gpg"} \/ FaultKinds \subseteq {"git"}
    PROVE  Spec => []Recoverable
<1>1. Alone => Recoverable
  BY AloneRecovers, ThreeParts DEF Alone, Safe, OnDisk, Backend, DiskTypes
<1> QED BY <1>1, AloneAlways, PTL

\* With one command at a time, no command gives the key to anybody whom the config that
\* commands load does not list, however it fails (adduser.go saves the config first).
THEOREM NobodyGetsTheKeyUnlisted == ASSUME Single PROVE Spec => []NoSilentGrant
<1>1. Alone => NoSilentGrant
  BY DEF Alone, GrantInv, NoSilentGrant, Effective
<1> QED BY <1>1, AloneAlways, PTL

LEMMA InitRemoved == ASSUME Init PROVE RemovedInv
<1>1. DiskTypes /\ key = WrappedTo(0, config.recipients)
  BY InitTyped, ThreeParts DEF Init
<1>2. key.dek = 0
  BY <1>1, ZeroIsAKey, WrappedTyped DEF DiskTypes
<1>3. \A r \in People, k \in Keys : <<r, k>> \in grants => k = 0
  BY DEF Init
<1> QED BY <1>2, <1>3 DEF Init, RemovedInv, GrantedKeys, HeldWasGenerated, Held, Passed

LEMMA NextRemoved ==
    ASSUME Single, Alone, RemovedInv, [Next]_vars PROVE RemovedInv'
<1>1. CASE UNCHANGED vars
  BY <1>1 DEF vars, disk, process, history, RemovedInv, GrantedKeys, HeldWasGenerated, Held,
     InUse, LockedOut, Passed, Effective, Backend
<1>2. ASSUME NEW p \in Procs, Start(p) PROVE RemovedInv'
  BY <1>2, StartRemoved, NextTypes DEF Alone
<1>3. ASSUME NEW p \in Procs, Step(p) PROVE RemovedInv'
  BY <1>3, PlanRemoved, GenerateRemoved, SealRemoved, WriteRemoved, RestageRemoved, PromoteRemoved,
     SaveRemoved, AddSaveRemoved, AddPromoteRemoved, ReadRemoved, PutRemoved, EndRemoved DEF Step
<1> QED BY <1>1, <1>2, <1>3, UserRemoved, NextSteps

\* With one command at a time, a removeuser that succeeded revokes: until that person
\* is added again, and unless the global config lists them, neither the key nor any file
\* is one they ever unwrapped, whatever ran or failed since (removeuser.go, rotate.go).
THEOREM RemovalRevokes == ASSUME Single PROVE Spec => []Revoked
<1>1. Init => RemovedInv
  BY InitRemoved
<1>2. Alone /\ RemovedInv /\ [Next]_vars => RemovedInv'
  BY NextRemoved
<1>3. Alone /\ RemovedInv => Revoked
  BY DEF Alone, GrantInv, Effective, RemovedInv, LockedOut, InUse, Revoked
<1> QED BY <1>1, <1>2, <1>3, AloneAlways, PTL DEF Spec

LEMMA InitStaged == ASSUME Init PROVE StagedInv
<1>1. DiskTypes /\ key = WrappedTo(0, config.recipients)
  BY InitTyped, ThreeParts DEF Init
<1>2. key.dek = 0
  BY <1>1, ZeroIsAKey, WrappedTyped DEF DiskTypes
<1> QED BY <1>2 DEF Init, StagedInv, StagedOf

LEMMA NextStaged == ASSUME Calm, Alone, StagedInv, [Next]_vars PROVE StagedInv'
<1>1. CASE UNCHANGED vars
  BY <1>1 DEF vars, disk, process, history, StagedInv, StagedOf, Unwritten, OnDisk, Backend
<1>2. ASSUME NEW p \in Procs, Start(p) \/ Step(p) PROVE StagedInv'
  BY <1>2, StartStaged, PlanStaged, GenerateStaged, SealStaged, WriteStaged, RestageStaged,
     PromoteStaged, SaveStaged, AddPromoteStaged, LockStaged, CrashStaged DEF Step
<1> QED BY <1>1, <1>2, UserStaged, NextSteps

\* With one command at a time, no write or git call failing and the user waiting while
\* a command runs, whatever is staged opens with the key that would be committed with
\* it, unless a rotation died half way (rotate.go restages what it rewrote).
THEOREM WhatIsStagedOpens ==
    ASSUME Calm
    PROVE  Spec => []StagedOpens
<1>1. Init => StagedInv
  BY InitStaged
<1>2. Alone /\ StagedInv /\ [Next]_vars => StagedInv'
  BY NextStaged
<1>3. StagedInv => StagedOpens
  BY DEF StagedInv, Unwritten, StagedOpens
<1>4. Spec => []Alone
  BY AloneAlways DEF Calm
<1> QED BY <1>1, <1>2, <1>3, <1>4, PTL DEF Spec

\* adduser, with nothing else running, wraps the key that is there and never another:
\* every file stays sealed under it (adduser.go).
THEOREM AddUserRewrapsOnly == ASSUME Single PROVE Spec => AddUserKeepsKey
<1>1. ASSUME Alone, NEW p \in Procs, AddPromote(p) PROVE key'.dek = key.dek
  <2>1. JobOf(p) /\ job[p].dek \in Keys /\ job[p].to \subseteq People
    BY <1>1, AloneFacts, JobFields
  <2> QED BY <1>1, <2>1, WrappedTyped DEF AddPromote, JobOf
<1>2. Alone => [\A p \in Procs : AddPromote(p) => key'.dek = key.dek]_vars
  BY <1>1
<1> QED BY <1>2, AloneAlways, PTL DEF AddUserKeepsKey

\* With one command at a time, a rotation, removeuser or adduser that succeeds leaves the
\* key with nobody who is missing from the committed config: what it wrapped the key to
\* when it started is what it saves, a global recipient included (rotate.go, adduser.go).
THEOREM GrantsAreShown == ASSUME Single PROVE Spec => GrantsShow
<1>1. ASSUME Alone, NEW p \in Procs, Save(p) \/ AddPromote(p), last'[p].result = "ok"
      PROVE  key'.to \subseteq config'.recipients
  <2>1. /\ DiskTypes /\ ProcessTypes /\ JobOf(p)
        /\ job[p].dek \in Keys /\ job[p].new \in Keys /\ job[p].to \subseteq People
    BY <1>1, AloneFacts, JobFields
  <2>2. ~Fail(p)
    BY <1>1, <2>1 DEF Fail, Exit, ProcessTypes
  <2>3. CASE Save(p)
    <3>1. key = WrappedTo(job[p].new, job[p].to) /\ key' = key /\ config' = Persisted(p)
      BY <2>1, <2>2, <2>3 DEF Save, JobOf
    <3>2. config'.recipients = job[p].to
      BY <2>1, <3>1 DEF Persisted, DiskTypes
    <3> QED BY <2>1, <3>1, <3>2, WrappedTyped
  <2>4. CASE AddPromote(p)
    <3>1. key' = WrappedTo(job[p].dek, job[p].to) /\ config' = config /\ pc[p] = "addPromote"
      BY <2>2, <2>4 DEF AddPromote
    <3>2. job[p].to \subseteq config.recipients
      BY <2>1, <3>1 DEF JobOf
    <3> QED BY <2>1, <3>1, <3>2, WrappedTyped
  <2> QED BY <1>1, <2>3, <2>4
<1>2. Alone => [\A p \in Procs : (Save(p) \/ AddPromote(p)) /\ last'[p].result = "ok" =>
                    key'.to \subseteq config'.recipients]_vars
  BY <1>1
<1> QED BY <1>2, AloneAlways, PTL DEF GrantsShow

=============================================================================
