--------------------- MODULE GitSecretController_proofs ---------------------
(***************************************************************************)
(* Proofs about the GitSecret controller, for any objects, Secrets, specs  *)
(* and bounds.                                                             *)
(*                                                                         *)
(* The argument: every copy of an object (in the cache, on its way there,  *)
(* or in the hands of the running reconcile) is the object of the server   *)
(* or an older version of it, so a write the server accepts because the    *)
(* version read is current was computed from what is there.  And the       *)
(* newest version is in the cache or coming, with an event that brings the *)
(* worker back, so what it leaves without one it has dealt with.           *)
(***************************************************************************)
EXTENDS GitSecretController, TLAPS

-----------------------------------------------------------------------------
(* The inductive invariant. *)

SameOrOlder(entry, current) ==
    entry.rv <= current.rv /\ (entry.rv = current.rv => entry = current)

GSCopies(g) ==
    {gsCache[g]} \cup gsWatch[g] \cup {e \in {job.gs} : pc # "idle" /\ job.name = g}

SecretCopies(s) ==
    {secretCache[s]} \cup secretWatch[s]
      \cup {e \in {job.existing} : pc \in {"release", "lookup", "write"} /\ Target = s}
      \cup {e \in {job.read} : pc = "write" /\ Target = s}

\* No copy is newer than the object, or as new and different.
CopiesInv ==
    /\ \A g \in GitSecrets : \A e \in GSCopies(g) : SameOrOlder(e, gitsecrets[g])
    /\ \A s \in Secrets : \A e \in SecretCopies(s) : SameOrOlder(e, secrets[s])

\* What every version of an object's status says is so.
Truthful(g, obj) ==
    /\ obj.status.observed <= obj.gen
    /\ Ready(obj) => /\ obj.status.observed = obj.status.at
                     /\ <<g, obj.uid, obj.status.at>> \in applied

StatusInv ==
    \A g \in GitSecrets : \A e \in GSCopies(g) \cup {gitsecrets[g]} :
        e.obj # None => Truthful(g, e.obj)

\* What the guard lets through: no Secret, the object's own, its pre-rename
\* object's, or anything at all for an object that adopts.
Permitted(entry) ==
    \/ entry.obj = None
    \/ OwnedBy(entry, Self)
    \/ ownedByLegacyNamesake(entry, job.name)
    \/ job.gs.obj.spec.adopt

\* What the running reconcile has established by the step it is at.
JobInv ==
    /\ pc \in {"guard", "release", "lookup", "write"} => Unseals(job.gs.obj.spec)
    /\ pc = "release" => ownedByLegacyNamesake(job.existing, job.name)
    /\ pc \in {"release", "lookup", "write"} => Permitted(job.existing)
    /\ pc = "write" => Controllable(job.read)
    /\ pc = "status" =>
          /\ job.status.observed \in job.gs.obj.status.observed..job.gs.obj.gen
          /\ Truthful(job.name, [job.gs.obj EXCEPT !.status = job.status])

Inv == TypeOK /\ CopiesInv /\ StatusInv /\ JobInv

-----------------------------------------------------------------------------
(* What the server does with a write. *)

\* A write leaves an entry of the kind it was.
LEMMA PutType ==
    ASSUME NEW Objects, NEW entry \in Entries(Objects), NEW obj \in Objects \cup {None}
    PROVE  Put(entry, obj) \in Entries(Objects)
BY DEF Put, Entries

\* Writing a well-formed GitSecret, or deleting one, keeps the server well formed.
LEMMA SetGitSecretType ==
    ASSUME TypeOK, NEW g \in GitSecrets, NEW obj \in GSObjects \cup {None},
           SetGitSecret(g, obj)
    PROVE  /\ gitsecrets' \in [GitSecrets -> Entries(GSObjects)]
           /\ gsWatch' \in [GitSecrets -> SUBSET Entries(GSObjects)]
<1>1. Put(gitsecrets[g], obj) \in Entries(GSObjects)
  BY PutType DEF TypeOK
<1>. QED BY <1>1 DEF SetGitSecret, TypeOK

\* The same for a Secret.
LEMMA SetSecretType ==
    ASSUME TypeOK, NEW s \in Secrets, NEW obj \in SecretObjects \cup {None},
           SetSecret(s, obj)
    PROVE  /\ secrets' \in [Secrets -> Entries(SecretObjects)]
           /\ secretWatch' \in [Secrets -> SUBSET Entries(SecretObjects)]
<1>1. Put(secrets[s], obj) \in Entries(SecretObjects)
  BY PutType DEF TypeOK
<1>. QED BY <1>1 DEF SetSecret, TypeOK

\* What Reconcile derives from the object it fetched is well formed.
LEMMA TargetType ==
    ASSUME TypeOK, pc # "idle"
    PROVE  /\ Target \in Secrets
           /\ Self \in Owners
           /\ job.gs.obj \in GSObjects
<1>1. job.gs \in Entries(GSObjects) /\ job.gs.obj # None /\ job.name \in GitSecrets
  BY DEF TypeOK, Jobs
<1>2. job.gs.obj \in GSObjects
  BY <1>1 DEF Entries
<1>. QED
  BY <1>1, <1>2, ConstantsAssumption DEF Target, Self, Ref, GSObjects, Owners

\* Failures stay within their bound.
LEMMA FaultsType ==
    ASSUME TypeOK, UNCHANGED faults \/ Fail
    PROVE  faults' \in 0..MaxFaults
<1>1. faults \in 0..MaxFaults /\ MaxFaults \in Nat
  BY ConstantsAssumption DEF TypeOK
<1>. QED BY <1>1 DEF Fail

\* An idle worker has a well-formed job.
LEMMA NoJobType == NoJob \in Jobs
BY DEF NoJob, Jobs, NoEntry, NoStatus, Entries, Statuses, Reasons

\* The worker's part of TypeOK.
JobType ==
    /\ queue \subseteq GitSecrets
    /\ pc \in Steps
    /\ job \in Jobs
    /\ pc = "idle" => job = NoJob
    /\ pc # "idle" => job.name \in GitSecrets /\ job.gs.obj # None

\* Returning leaves the worker idle.
LEMMA ReturnType ==
    ASSUME NEW q \in SUBSET GitSecrets, NEW g \in GitSecrets, NEW err \in BOOLEAN,
           Return(q, g, err)
    PROVE  JobType' /\ pc' = "idle" /\ job' = NoJob
BY NoJobType DEF Return, Steps, JobType

\* A failure path leaves the worker idle or about to record its condition.
LEMMA ReportType ==
    ASSUME NEW q \in SUBSET GitSecrets, NEW j \in Jobs, NEW reason \in Reasons,
           NEW err \in BOOLEAN, j.name \in GitSecrets, j.gs.obj # None,
           Report(q, j, reason, err)
    PROVE  JobType'
<1>1. j.gs.obj \in GSObjects
  BY DEF Jobs, Entries
<1>2. setCondition(j.gs.obj.status, j.gs.obj, reason) \in Statuses
  BY <1>1 DEF setCondition, GSObjects, Statuses
<1>. QED
  BY <1>2, NoJobType DEF Report, Return, Jobs, Steps, JobType

-----------------------------------------------------------------------------
(* Type correctness, action by action. *)

\* The initial states are well typed.
LEMMA InitType == Init => TypeOK
<1>. SUFFICES ASSUME Init PROVE TypeOK
  OBVIOUS
<1>1. NoEntry \in Entries(GSObjects) /\ NoEntry \in Entries(SecretObjects)
  BY DEF NoEntry, Entries
<1>2. InitialSecrets \subseteq Entries(SecretObjects)
  BY <1>1 DEF InitialSecrets, Entries, SecretObjects, Owners, OtherOwner, LegacyOwner
<1>3. \A bound \in Nat : 0 \in 0..bound
  OBVIOUS
<1>. QED
  BY <1>1, <1>2, <1>3, NoJobType, ConstantsAssumption DEF Init, TypeOK, Steps

\* Fetch keeps the types.
LEMMA FetchType ==
    ASSUME TypeOK, NEW g \in GitSecrets, Fetch(g)
    PROVE  TypeOK'
<1>. DEFINE locals == [NoJob EXCEPT !.name = g, !.gs = gsCache[g]]
<1>. DEFINE q == queue \ {g}
<1>1. gsCache[g] \in Entries(GSObjects) /\ q \in SUBSET GitSecrets
  BY DEF TypeOK
<1>2. locals \in Jobs /\ locals.name = g /\ locals.gs = gsCache[g]
  BY <1>1, NoJobType DEF Jobs, NoJob
<1>3. faults' \in 0..MaxFaults
  <2>1. UNCHANGED faults \/ Fail
    BY DEF Fetch, GpgFault, ApiFault
  <2>. QED BY <2>1, FaultsType
<1>4. UNCHANGED <<server, caches, clock, edits, history>>
  BY DEF Fetch
<1>. HIDE DEF locals, q
<1>5. JobType'
  <2>1. CASE pc' = pc /\ job' = job /\ queue' = q
    BY <1>1, <2>1 DEF TypeOK, JobType
  <2>2. CASE gsCache[g].obj # None /\ pc' = "guard" /\ job' = locals /\ queue' = q
    BY <1>1, <1>2, <2>2 DEF Steps, JobType
  <2>3. CASE gsCache[g].obj # None /\ Report(q, locals, "UnsealFailed", FALSE)
    BY <1>1, <1>2, <2>3, ReportType DEF Reasons
  <2>4. CASE Return(q, g, TRUE)
    BY <1>1, <2>4, ReturnType
  <2>. QED BY <2>1, <2>2, <2>3, <2>4 DEF Fetch, locals, q
<1>. QED
  BY <1>3, <1>4, <1>5 DEF TypeOK, JobType, server, gsServer, secretServer, caches, history

\* So does the ownership guard.
LEMMA GuardType ==
    ASSUME TypeOK, Guard
    PROVE  TypeOK'
<1>. DEFINE locals == [job EXCEPT !.existing = secretCache[Target]]
<1>1. pc = "guard" /\ job \in Jobs /\ job.name \in GitSecrets /\ job.gs.obj # None
  BY DEF Guard, TypeOK
<1>2. locals \in Jobs /\ locals.name = job.name /\ locals.gs = job.gs
  BY <1>1, TargetType DEF Jobs, TypeOK
<1>3. UNCHANGED <<server, caches, clock, edits, history>>
  BY DEF Guard
<1>4. faults' \in 0..MaxFaults
  <2>1. UNCHANGED faults \/ Fail
    BY DEF Guard, ApiFault
  <2>. QED BY <2>1, FaultsType
<1>. HIDE DEF locals
<1>5. JobType'
  <2>1. CASE Report(queue, locals, "TargetConflict", FALSE)
    BY <1>1, <1>2, <2>1, ReportType DEF Reasons, TypeOK
  <2>2. CASE pc' \in {"release", "lookup"} /\ job' = locals /\ queue' = queue
    BY <1>1, <1>2, <2>2 DEF Steps, TypeOK, JobType
  <2>3. CASE Return(queue, job.name, TRUE)
    BY <1>1, <2>3, ReturnType DEF TypeOK
  <2>. QED BY <2>1, <2>2, <2>3 DEF Guard, locals
<1>. QED
  BY <1>3, <1>4, <1>5 DEF TypeOK, JobType, server, gsServer, secretServer, caches, history

\* So does dropping a legacy reference: the Secret it was read from is there.
LEMMA ReleaseType ==
    ASSUME Inv, Release
    PROVE  TypeOK'
<1>. DEFINE obj == [job.existing.obj EXCEPT !.owner = None]
<1>. TypeOK
  BY DEF Inv
<1>1. pc = "release" /\ job \in Jobs /\ job.name \in GitSecrets /\ job.gs.obj # None
  BY DEF Release, TypeOK
<1>2. obj \in SecretObjects
  BY <1>1 DEF Inv, JobInv, ownedByLegacyNamesake, Jobs, Entries, SecretObjects
<1>. HIDE DEF obj
<1>3. UNCHANGED <<gsServer, legacy, caches, clock, edits, applied>>
  BY DEF Release
<1>4. faults' \in 0..MaxFaults
  <2>1. UNCHANGED faults \/ Fail
    BY DEF Release, ApiFault
  <2>. QED BY <2>1, FaultsType
<1>5. \/ pc' = "lookup" /\ UNCHANGED <<job, queue>>
      \/ Return(queue, job.name, TRUE)
  BY DEF Release
<1>6. \/ SetSecret(Target, obj) /\ released' = released \cup {Target}
      \/ UNCHANGED <<secretServer, released>>
  BY DEF Release, obj
<1>7. /\ secrets' \in [Secrets -> Entries(SecretObjects)]
      /\ secretWatch' \in [Secrets -> SUBSET Entries(SecretObjects)]
      /\ released' \subseteq Secrets
  BY <1>1, <1>2, <1>6, TargetType, SetSecretType DEF TypeOK, secretServer
<1>8. JobType'
  BY <1>1, <1>5, ReturnType DEF TypeOK, Steps, JobType
<1>. QED
  BY <1>3, <1>4, <1>7, <1>8 DEF TypeOK, JobType, gsServer, caches

\* So does reading the Secret to write.
LEMMA LookupType ==
    ASSUME TypeOK, Lookup
    PROVE  TypeOK'
<1>. DEFINE locals == [job EXCEPT !.read = secretCache[Target]]
<1>1. pc = "lookup" /\ job \in Jobs /\ job.name \in GitSecrets /\ job.gs.obj # None
  BY DEF Lookup, TypeOK
<1>2. locals \in Jobs /\ locals.name = job.name /\ locals.gs = job.gs
  BY <1>1, TargetType DEF Jobs, TypeOK
<1>3. UNCHANGED <<server, caches, clock, edits, history>>
  BY DEF Lookup
<1>4. faults' \in 0..MaxFaults
  <2>1. UNCHANGED faults \/ Fail
    BY DEF Lookup, ApiFault
  <2>. QED BY <2>1, FaultsType
<1>. HIDE DEF locals
<1>5. JobType'
  <2>1. CASE Report(queue, job, "ApplyFailed", TRUE)
    BY <1>1, <2>1, ReportType DEF Reasons, TypeOK
  <2>2. CASE pc' = "write" /\ job' = locals /\ queue' = queue
    BY <1>1, <1>2, <2>2 DEF Steps, TypeOK, JobType
  <2>. QED BY <2>1, <2>2 DEF Lookup, locals
<1>. QED
  BY <1>3, <1>4, <1>5 DEF TypeOK, JobType, server, gsServer, secretServer, caches, history

\* So does writing it: what is written is a payload, because the object unsealed.
LEMMA WriteType ==
    ASSUME Inv, Write
    PROVE  TypeOK'
<1>. DEFINE gs == job.gs.obj
            obj == [owner |-> Self, data |-> gs.spec.sealed]
            status == [setCondition(gs.status, gs, "Synced") EXCEPT
                          !.observed = gs.gen, !.synced = clock']
            done == [job EXCEPT !.status = status, !.retry = FALSE,
                                !.wrote = secrets' # secrets]
<1>. TypeOK
  BY DEF Inv
<1>1. pc = "write" /\ job \in Jobs /\ job.name \in GitSecrets /\ job.gs.obj # None
  BY DEF Write, TypeOK
<1>2. gs \in GSObjects /\ Self \in Owners /\ Target \in Secrets
  BY <1>1, TargetType
<1>3. obj \in SecretObjects
  BY <1>1, <1>2 DEF Inv, JobInv, Unseals, SecretObjects
<1>4. status \in Statuses
  <2>1. clock' \in clock..MaxClock \/ UNCHANGED clock
    BY DEF Write
  <2>2. clock' \in Nat
    BY <2>1, ConstantsAssumption DEF TypeOK
  <2>. QED BY <1>2, <2>2 DEF GSObjects, Statuses, setCondition, Reasons
<1>5. done \in Jobs /\ done.name = job.name /\ done.gs = job.gs
  <2>. HIDE DEF status
  <2>. QED BY <1>1, <1>4 DEF Jobs
<1>6. UNCHANGED <<gsServer, legacy, caches, edits>> /\ clock' \in 0..MaxClock
  <2>1. /\ UNCHANGED <<gsServer, legacy, caches, edits>>
        /\ clock' \in clock..MaxClock \/ UNCHANGED clock
    BY DEF Write
  <2>. QED BY <2>1, ConstantsAssumption DEF TypeOK
<1>7. \/ SetSecret(Target, obj) /\ applied' = applied \cup {<<job.name, gs.uid, gs.gen>>}
         /\ released' = released \ {Target}
      \/ UNCHANGED <<secretServer, history>>
  BY DEF Write
<1>8. \/ pc' = "status" /\ job' = done /\ UNCHANGED <<queue, faults>>
      \/ Report(queue, job, "ApplyFailed", TRUE) /\ (UNCHANGED faults \/ Fail)
  BY DEF Write, ApiFault
<1>9. <<job.name, gs.uid, gs.gen>> \in GitSecrets \X Nat \X Nat
  BY <1>1, <1>2 DEF GSObjects
<1>. HIDE DEF gs, obj, done
<1>10. /\ secrets' \in [Secrets -> Entries(SecretObjects)]
       /\ secretWatch' \in [Secrets -> SUBSET Entries(SecretObjects)]
       /\ released' \subseteq Secrets /\ applied' \subseteq GitSecrets \X Nat \X Nat
  BY <1>2, <1>3, <1>7, <1>9, SetSecretType DEF TypeOK, secretServer, history
<1>11. JobType'
  <2>1. CASE Report(queue, job, "ApplyFailed", TRUE)
    BY <1>1, <2>1, ReportType DEF Reasons, TypeOK
  <2>2. CASE pc' = "status" /\ job' = done /\ UNCHANGED queue
    BY <1>1, <1>5, <2>2 DEF Steps, TypeOK, JobType
  <2>. QED BY <1>8, <2>1, <2>2
<1>12. faults' \in 0..MaxFaults
  BY <1>8, FaultsType
<1>. QED
  BY <1>6, <1>10, <1>11, <1>12 DEF TypeOK, JobType, gsServer, caches

\* So does the status write: what is current is the object the job holds.
LEMMA StatusWriteType ==
    ASSUME Inv, StatusWrite
    PROVE  TypeOK'
<1>. DEFINE obj == [gitsecrets[job.name].obj EXCEPT !.status = job.status]
<1>. TypeOK
  BY DEF Inv
<1>1. pc = "status" /\ job \in Jobs /\ job.name \in GitSecrets /\ job.gs.obj # None
  BY DEF StatusWrite, TypeOK
<1>2. StatusIsCurrent => obj \in GSObjects \cup {None}
  <2>. SUFFICES ASSUME StatusIsCurrent PROVE obj \in GSObjects
    OBVIOUS
  <2>1. job.gs \in GSCopies(job.name)
    BY <1>1 DEF GSCopies
  <2>2. gitsecrets[job.name] = job.gs
    BY <1>1, <2>1 DEF Inv, CopiesInv, SameOrOlder, StatusIsCurrent
  <2>. QED BY <1>1, <2>2, TargetType DEF Jobs, GSObjects
<1>. HIDE DEF obj
<1>3. UNCHANGED <<secretServer, legacy, caches, clock, edits, history>>
  BY DEF StatusWrite
<1>4. \/ StatusIsCurrent /\ SetGitSecret(job.name, obj)
      \/ UNCHANGED gsServer
  BY DEF StatusWrite, obj
<1>5. UNCHANGED faults \/ Fail
  BY DEF StatusWrite, ApiFault
<1>6. \E err \in BOOLEAN : Return(queue, job.name, err)
  BY <1>1 DEF StatusWrite, Jobs
<1>7. /\ gitsecrets' \in [GitSecrets -> Entries(GSObjects)]
      /\ gsWatch' \in [GitSecrets -> SUBSET Entries(GSObjects)]
  BY <1>1, <1>2, <1>4, SetGitSecretType DEF TypeOK, gsServer
<1>8. faults' \in 0..MaxFaults
  BY <1>5, FaultsType
<1>9. JobType'
  BY <1>1, <1>6, ReturnType DEF TypeOK
<1>. QED
  BY <1>3, <1>7, <1>8, <1>9 DEF TypeOK, JobType, secretServer, caches, history

\* So does the delivery of watch events and the resync.
LEMMA ManagerType ==
    ASSUME TypeOK, Manager
    PROVE  TypeOK'
<1>1. ASSUME NEW g \in GitSecrets, ObserveGitSecret(g) PROVE TypeOK'
  <2>1. PICK e \in gsWatch[g] : /\ gsCache' = [gsCache EXCEPT ![g] = e]
                                /\ gsWatch' = [gsWatch EXCEPT ![g] = @ \ {e}]
    BY <1>1 DEF ObserveGitSecret, Oldest
  <2>2. /\ gsCache' \in [GitSecrets -> Entries(GSObjects)]
        /\ gsWatch' \in [GitSecrets -> SUBSET Entries(GSObjects)]
    BY <2>1 DEF TypeOK
  <2>3. /\ queue' \subseteq GitSecrets
        /\ UNCHANGED <<gitsecrets, secretServer, legacy, secretCache, pc, job, bounds, history>>
    BY <1>1 DEF ObserveGitSecret, TypeOK
  <2>. QED
    BY <2>2, <2>3 DEF TypeOK, secretServer, bounds, history
<1>2. ASSUME NEW s \in Secrets, ObserveSecret(s) PROVE TypeOK'
  <2>1. PICK e \in secretWatch[s] :
            /\ secretCache' = [secretCache EXCEPT ![s] = e]
            /\ secretWatch' = [secretWatch EXCEPT ![s] = @ \ {e}]
            /\ queue' = queue \cup Controllers(secretCache[s]) \cup Controllers(e)
    BY <1>2 DEF ObserveSecret, Oldest
  <2>2. /\ secretCache' \in [Secrets -> Entries(SecretObjects)]
        /\ secretWatch' \in [Secrets -> SUBSET Entries(SecretObjects)]
    BY <2>1 DEF TypeOK
  <2>3. queue' \subseteq GitSecrets
    BY <2>1 DEF TypeOK, Controllers
  <2>4. UNCHANGED <<gsServer, secrets, legacy, gsCache, pc, job, bounds, history>>
    BY <1>2 DEF ObserveSecret
  <2>. QED
    BY <2>2, <2>3, <2>4 DEF TypeOK, gsServer, bounds, history
<1>3. ASSUME Resync PROVE TypeOK'
  <2>1. queue' \subseteq GitSecrets
    BY <1>3 DEF Resync, Live, TypeOK
  <2>2. UNCHANGED <<server, caches, pc, job, bounds, history>>
    BY <1>3 DEF Resync
  <2>. QED
    BY <2>1, <2>2 DEF TypeOK, server, gsServer, secretServer, caches, bounds, history
<1>. QED BY <1>1, <1>2, <1>3 DEF Manager

\* So does a restart.
LEMMA RestartType ==
    ASSUME TypeOK, Restart
    PROVE  TypeOK'
<1>1. faults' \in 0..MaxFaults
  BY FaultsType DEF Restart
<1>2. pc' \in Steps /\ pc' = "idle" /\ job' = NoJob /\ job' \in Jobs /\ queue' \subseteq GitSecrets
  BY NoJobType DEF Restart, Steps, Live
<1>. QED
  BY <1>1, <1>2 DEF Restart, TypeOK, history

\* Edits stay within their bound.
LEMMA EditType ==
    ASSUME TypeOK, Edit
    PROVE  edits' \in 0..MaxEdits
<1>1. edits \in 0..MaxEdits /\ MaxEdits \in Nat
  BY ConstantsAssumption DEF TypeOK
<1>. QED BY <1>1 DEF Edit

\* Users keep the types when they create or edit a GitSecret.
LEMMA ApplyManifestType ==
    ASSUME TypeOK, NEW g \in GitSecrets, NEW spec \in UserSpecs, ApplyManifest(g, spec)
    PROVE  TypeOK'
<1>. DEFINE new == [uid |-> gitsecrets[g].rv + 1, gen |-> 1, spec |-> spec, status |-> NoStatus]
            edited == [gitsecrets[g].obj EXCEPT !.spec = spec, !.gen = @ + 1]
<1>1. gitsecrets[g] \in Entries(GSObjects)
  BY DEF TypeOK
<1>2. new \in GSObjects
  BY <1>1 DEF Entries, GSObjects, NoStatus, Statuses, Reasons
<1>3. gitsecrets[g].obj # None => edited \in GSObjects
  <2>. SUFFICES ASSUME NEW old \in GSObjects
                PROVE  [old EXCEPT !.spec = spec, !.gen = @ + 1] \in GSObjects
    BY <1>1 DEF Entries
  <2>1. old.gen + 1 \in Nat
    BY DEF GSObjects
  <2>. QED BY <2>1 DEF GSObjects
<1>4. \E obj \in GSObjects : SetGitSecret(g, obj)
  BY <1>2, <1>3 DEF ApplyManifest
<1>5. /\ gitsecrets' \in [GitSecrets -> Entries(GSObjects)]
      /\ gsWatch' \in [GitSecrets -> SUBSET Entries(GSObjects)]
  BY <1>4, SetGitSecretType
<1>6. edits' \in 0..MaxEdits
  BY EditType DEF ApplyManifest
<1>7. UNCHANGED <<secretServer, legacy, released, UnchangedByUsers>>
  BY DEF ApplyManifest
<1>. QED
  BY <1>5, <1>6, <1>7 DEF TypeOK, secretServer, UnchangedByUsers, caches

\* And when they change a Secret.
LEMMA ChangeSecretType ==
    ASSUME TypeOK, NEW s \in Secrets, ChangeSecret(s)
    PROVE  TypeOK'
<1>. DEFINE marred == [secrets[s].obj EXCEPT !.data = Alien]
<1>1. secrets[s] \in Entries(SecretObjects)
  BY DEF TypeOK
<1>2. \A owner \in {None} \cup {OtherOwner(g) : g \in GitSecrets} :
        [owner |-> owner, data |-> Alien] \in SecretObjects
  BY DEF OtherOwner, SecretObjects, Owners
<1>3. secrets[s].obj # None => marred \in SecretObjects
  BY <1>1 DEF Entries, SecretObjects
<1>4. \E obj \in SecretObjects \cup {None} : SetSecret(s, obj)
  BY <1>2, <1>3 DEF ChangeSecret
<1>5. /\ secrets' \in [Secrets -> Entries(SecretObjects)]
      /\ secretWatch' \in [Secrets -> SUBSET Entries(SecretObjects)]
  BY <1>4, SetSecretType
<1>6. edits' \in 0..MaxEdits
  BY EditType DEF ChangeSecret
<1>7. released' = released \ {s} /\ UNCHANGED <<gsServer, legacy, UnchangedByUsers>>
  BY DEF ChangeSecret
<1>. QED
  BY <1>5, <1>6, <1>7 DEF TypeOK, gsServer, UnchangedByUsers, caches

\* And in everything else they do.
LEMMA EnvironmentType ==
    ASSUME TypeOK, Environment
    PROVE  TypeOK'
<1>1. ASSUME NEW g \in GitSecrets, DeleteGitSecret(g) PROVE TypeOK'
  <2>1. /\ gitsecrets' \in [GitSecrets -> Entries(GSObjects)]
        /\ gsWatch' \in [GitSecrets -> SUBSET Entries(GSObjects)]
    BY <1>1, SetGitSecretType DEF DeleteGitSecret
  <2>2. edits' \in 0..MaxEdits
    BY <1>1, EditType DEF DeleteGitSecret
  <2>3. UNCHANGED <<secretServer, legacy, released, UnchangedByUsers>>
    BY <1>1 DEF DeleteGitSecret
  <2>. QED
    BY <2>1, <2>2, <2>3 DEF TypeOK, secretServer, UnchangedByUsers, caches
<1>2. ASSUME NEW g \in GitSecrets, DeleteLegacy(g) PROVE TypeOK'
  <2>1. edits' \in 0..MaxEdits /\ legacy' \subseteq GitSecrets
    BY <1>2, EditType DEF DeleteLegacy, TypeOK
  <2>2. UNCHANGED <<gsServer, secretServer, released, UnchangedByUsers>>
    BY <1>2 DEF DeleteLegacy
  <2>. QED
    BY <2>1, <2>2 DEF TypeOK, gsServer, secretServer, UnchangedByUsers, caches
<1>. QED
  BY <1>1, <1>2, ApplyManifestType, ChangeSecretType DEF Environment

\* The garbage collector keeps the types.
LEMMA CollectType ==
    ASSUME TypeOK, NEW s \in Secrets, Collect(s)
    PROVE  TypeOK'
<1>1. /\ secrets' \in [Secrets -> Entries(SecretObjects)]
      /\ secretWatch' \in [Secrets -> SUBSET Entries(SecretObjects)]
  BY SetSecretType DEF Collect
<1>2. released' = released \ {s} /\ UNCHANGED <<gsServer, legacy, UnchangedByUsers, edits>>
  BY DEF Collect
<1>. QED
  BY <1>1, <1>2 DEF TypeOK, gsServer, UnchangedByUsers, caches

\* Every step keeps the types.
LEMMA StepType ==
    ASSUME Inv, [Next]_vars
    PROVE  TypeOK'
<1>1. TypeOK
  BY DEF Inv
<1>2. CASE Reconcile
  BY <1>1, <1>2, FetchType, GuardType, ReleaseType, LookupType, WriteType, StatusWriteType
     DEF Reconcile
<1>3. CASE UNCHANGED vars
  BY <1>1, <1>3 DEF vars, TypeOK, server, gsServer, secretServer, caches, bounds, history
<1>. QED
  BY <1>1, <1>2, <1>3, ManagerType, RestartType, EnvironmentType, CollectType DEF Next

-----------------------------------------------------------------------------
(* How a step moves the server, what the watches deliver, and the job. *)

\* Whatever changes on the server gets a higher version; the cache and the watch
\* hold what they held, or what the server holds.
GitSecretMove ==
    \A g \in GitSecrets :
        /\ gitsecrets'[g] = gitsecrets[g] \/ gitsecrets'[g].rv = gitsecrets[g].rv + 1
        /\ {gsCache'[g]} \cup gsWatch'[g]
              \subseteq {gsCache[g], gitsecrets[g], gitsecrets'[g]} \cup gsWatch[g]

SecretMove ==
    \A s \in Secrets :
        /\ secrets'[s] = secrets[s] \/ secrets'[s].rv = secrets[s].rv + 1
        /\ {secretCache'[s]} \cup secretWatch'[s]
              \subseteq {secretCache[s], secrets[s], secrets'[s]} \cup secretWatch[s]

\* The job begins, ends, or keeps its object and reads the cache.
JobMove ==
    \/ pc' = "idle"
    \/ UNCHANGED <<pc, job>>
    \/ /\ pc' \in {"guard", "status"}
       /\ job'.name \in GitSecrets
       /\ job'.gs = gsCache[job'.name]
    \/ /\ pc # "idle"
       /\ job'.name = job.name /\ job'.gs = job.gs
       /\ pc' \in {"release", "lookup", "write"} =>
             \/ job'.existing = job.existing /\ pc \in {"release", "lookup"}
             \/ job'.existing = secretCache[Target]
       /\ pc' = "write" => job'.read = secretCache[Target]

\* A failure path ends the call or goes to the status step with its condition.
LEMMA ReportSteps ==
    ASSUME NEW q, NEW j \in Jobs, NEW reason, NEW err, Report(q, j, reason, err)
    PROVE  \/ pc' = "idle" /\ job' = NoJob
           \/ /\ pc' = "status"
              /\ job'.name = j.name /\ job'.gs = j.gs
              /\ job'.status = setCondition(j.gs.obj.status, j.gs.obj, reason)
BY DEF Report, Return, Jobs

\* A write changes one GitSecret, to what was written, and raises its version.
LEMMA SetGitSecretMove ==
    ASSUME TypeOK, NEW g \in GitSecrets, NEW obj, SetGitSecret(g, obj), UNCHANGED gsCache
    PROVE  /\ GitSecretMove
           /\ \A h \in GitSecrets :
                 gitsecrets'[h] # gitsecrets[h] => h = g /\ gitsecrets'[h].obj = obj
BY DEF SetGitSecret, Put, TypeOK, GitSecretMove

\* The same for a Secret.
LEMMA SetSecretMove ==
    ASSUME TypeOK, NEW s \in Secrets, NEW obj, SetSecret(s, obj), UNCHANGED secretCache
    PROVE  /\ SecretMove
           /\ \A t \in Secrets :
                 secrets'[t] # secrets[t] => t = s /\ secrets'[t].obj = obj
BY DEF SetSecret, Put, TypeOK, SecretMove

\* What is untouched has not moved.
LEMMA NoMove ==
    /\ UNCHANGED <<gsServer, gsCache>> => GitSecretMove
    /\ UNCHANGED <<secretServer, secretCache>> => SecretMove
BY DEF gsServer, secretServer, GitSecretMove, SecretMove

\* Fetch takes its object from the cache.
LEMMA FetchMoves ==
    ASSUME TypeOK, NEW g \in GitSecrets, Fetch(g)
    PROVE  GitSecretMove /\ SecretMove /\ JobMove
<1>. DEFINE locals == [NoJob EXCEPT !.name = g, !.gs = gsCache[g]]
<1>1. GitSecretMove /\ SecretMove
  BY NoMove DEF Fetch, server, caches
<1>2. locals \in Jobs /\ locals.name = g /\ locals.gs = gsCache[g]
  BY NoJobType DEF NoJob, Jobs, TypeOK
<1>. HIDE DEF locals
<1>3. \/ UNCHANGED <<pc, job>>
      \/ pc' = "guard" /\ job' = locals
      \/ Report(queue \ {g}, locals, "UnsealFailed", FALSE)
      \/ pc' = "idle"
  BY DEF Fetch, Return, locals
<1>4. JobMove
  BY <1>2, <1>3, ReportSteps DEF JobMove
<1>. QED BY <1>1, <1>4

\* Guard takes the Secret it judges from the cache.
LEMMA GuardMoves ==
    ASSUME TypeOK, Guard
    PROVE  GitSecretMove /\ SecretMove /\ JobMove
<1>. DEFINE locals == [job EXCEPT !.existing = secretCache[Target]]
<1>1. GitSecretMove /\ SecretMove
  BY NoMove DEF Guard, server, caches
<1>2. /\ locals \in Jobs /\ locals.name = job.name /\ locals.gs = job.gs
      /\ locals.existing = secretCache[Target]
  BY TargetType DEF Guard, Jobs, TypeOK
<1>. HIDE DEF locals
<1>3. \/ pc' \in {"release", "lookup"} /\ job' = locals
      \/ Report(queue, locals, "TargetConflict", FALSE)
      \/ pc' = "idle"
  BY DEF Guard, Return, locals
<1>4. JobMove
  BY <1>2, <1>3, ReportSteps DEF JobMove, Guard
<1>. QED BY <1>1, <1>4

\* Release writes the Secret and keeps or ends the job.
LEMMA ReleaseMoves ==
    ASSUME TypeOK, Release
    PROVE  GitSecretMove /\ SecretMove /\ JobMove
<1>. DEFINE obj == [job.existing.obj EXCEPT !.owner = None]
<1>1. GitSecretMove
  BY NoMove DEF Release, caches
<1>2. SetSecret(Target, obj) \/ UNCHANGED secretServer
  BY DEF Release
<1>3. Target \in Secrets /\ UNCHANGED secretCache
  BY TargetType DEF Release, caches
<1>4. SecretMove
  BY <1>2, <1>3, SetSecretMove, NoMove
<1>5. pc' = "idle" \/ (pc' = "lookup" /\ job' = job)
  <2>1. \/ pc' = "lookup" /\ UNCHANGED <<job, queue>>
        \/ Return(queue, job.name, TRUE)
    BY DEF Release
  <2>. QED BY <2>1 DEF Return
<1>6. JobMove
  BY <1>5 DEF JobMove, Release
<1>. QED BY <1>1, <1>4, <1>6

\* Lookup takes the Secret it will write from the cache.
LEMMA LookupMoves ==
    ASSUME TypeOK, Lookup
    PROVE  GitSecretMove /\ SecretMove /\ JobMove
<1>. DEFINE locals == [job EXCEPT !.read = secretCache[Target]]
<1>1. GitSecretMove /\ SecretMove
  BY NoMove DEF Lookup, server, caches
<1>2. /\ locals.name = job.name /\ locals.gs = job.gs /\ locals.existing = job.existing
      /\ locals.read = secretCache[Target] /\ job \in Jobs
  BY DEF TypeOK, Jobs
<1>. HIDE DEF locals
<1>3. \/ pc' = "write" /\ job' = locals
      \/ Report(queue, job, "ApplyFailed", TRUE)
  BY DEF Lookup, locals
<1>4. JobMove
  BY <1>2, <1>3, ReportSteps DEF JobMove, Lookup
<1>. QED BY <1>1, <1>4

\* Write writes the Secret and goes to the status step or ends the job.
LEMMA WriteMoves ==
    ASSUME TypeOK, Write
    PROVE  GitSecretMove /\ SecretMove /\ JobMove
<1>1. GitSecretMove
  BY NoMove DEF Write, caches
<1>2. SetSecret(Target, [owner |-> Self, data |-> job.gs.obj.spec.sealed])
         \/ UNCHANGED secretServer
  BY DEF Write
<1>3. Target \in Secrets /\ UNCHANGED secretCache
  BY TargetType DEF Write, caches
<1>4. SecretMove
  BY <1>2, <1>3, SetSecretMove, NoMove
<1>5. job \in Jobs
  BY DEF TypeOK
<1>6. \/ pc' = "status" /\ job'.name = job.name /\ job'.gs = job.gs
      \/ Report(queue, job, "ApplyFailed", TRUE)
  BY <1>5 DEF Write, Jobs
<1>7. JobMove
  BY <1>5, <1>6, ReportSteps DEF JobMove, Write
<1>. QED BY <1>1, <1>4, <1>7

\* StatusWrite writes the GitSecret and ends the job.
LEMMA StatusWriteMoves ==
    ASSUME TypeOK, StatusWrite
    PROVE  GitSecretMove /\ SecretMove /\ JobMove
<1>. DEFINE obj == [gitsecrets[job.name].obj EXCEPT !.status = job.status]
<1>1. SecretMove
  BY NoMove DEF StatusWrite, caches
<1>2. SetGitSecret(job.name, obj) \/ UNCHANGED gsServer
  BY DEF StatusWrite
<1>3. job.name \in GitSecrets /\ UNCHANGED gsCache
  BY DEF StatusWrite, TypeOK, caches
<1>4. GitSecretMove
  BY <1>2, <1>3, SetGitSecretMove, NoMove
<1>5. JobMove
  BY DEF JobMove, StatusWrite, Return
<1>. QED BY <1>1, <1>4, <1>5

\* Watch events move versions from the watch to the cache.
LEMMA ManagerMoves ==
    ASSUME TypeOK, Manager
    PROVE  GitSecretMove /\ SecretMove /\ JobMove
<1>1. ASSUME NEW g \in GitSecrets, ObserveGitSecret(g)
      PROVE  GitSecretMove /\ SecretMove /\ JobMove
  <2>1. UNCHANGED <<gitsecrets, secretServer, secretCache, pc, job>>
    BY <1>1 DEF ObserveGitSecret
  <2>2. \E e \in gsWatch[g] : /\ gsCache' = [gsCache EXCEPT ![g] = e]
                              /\ gsWatch' = [gsWatch EXCEPT ![g] = @ \ {e}]
    BY <1>1 DEF ObserveGitSecret, Oldest
  <2>3. GitSecretMove
    BY <2>1, <2>2 DEF GitSecretMove, TypeOK
  <2>. QED BY <2>1, <2>3, NoMove DEF JobMove
<1>2. ASSUME NEW s \in Secrets, ObserveSecret(s)
      PROVE  GitSecretMove /\ SecretMove /\ JobMove
  <2>1. UNCHANGED <<gsServer, secrets, gsCache, pc, job>>
    BY <1>2 DEF ObserveSecret
  <2>2. \E e \in secretWatch[s] : /\ secretCache' = [secretCache EXCEPT ![s] = e]
                                  /\ secretWatch' = [secretWatch EXCEPT ![s] = @ \ {e}]
    BY <1>2 DEF ObserveSecret, Oldest
  <2>3. SecretMove
    BY <2>1, <2>2 DEF SecretMove, TypeOK
  <2>. QED BY <2>1, <2>3, NoMove DEF JobMove
<1>3. CASE Resync
  BY <1>3, NoMove DEF Resync, server, caches, JobMove
<1>. QED BY <1>1, <1>2, <1>3 DEF Manager

\* A restart replaces the caches by what the server holds.
LEMMA RestartMoves ==
    ASSUME TypeOK, Restart
    PROVE  GitSecretMove /\ SecretMove /\ JobMove
BY DEF Restart, TypeOK, GitSecretMove, SecretMove, JobMove

\* Users and the garbage collector write to the server only.
LEMMA EnvironmentMoves ==
    ASSUME TypeOK, Environment \/ \E s \in Secrets : Collect(s)
    PROVE  GitSecretMove /\ SecretMove /\ JobMove
<1>1. UNCHANGED <<caches, pc, job>>
  BY DEF Environment, ApplyManifest, DeleteGitSecret, DeleteLegacy, ChangeSecret,
         Collect, UnchangedByUsers
<1>2. \/ UNCHANGED gsServer
      \/ \E g \in GitSecrets : \E obj : SetGitSecret(g, obj)
  BY DEF Environment, ApplyManifest, DeleteGitSecret, DeleteLegacy, ChangeSecret,
         Collect, server
<1>3. \/ UNCHANGED secretServer
      \/ \E s \in Secrets : \E obj : SetSecret(s, obj)
  BY DEF Environment, ApplyManifest, DeleteGitSecret, DeleteLegacy, ChangeSecret,
         Collect, server
<1>4. GitSecretMove /\ SecretMove
  BY <1>1, <1>2, <1>3, SetGitSecretMove, SetSecretMove, NoMove DEF caches
<1>. QED BY <1>1, <1>4 DEF JobMove

\* Every step moves in one of these ways.
LEMMA StepMoves ==
    ASSUME TypeOK, [Next]_vars
    PROVE  GitSecretMove /\ SecretMove /\ JobMove
<1>1. CASE Reconcile
  BY <1>1, FetchMoves, GuardMoves, ReleaseMoves, LookupMoves, WriteMoves, StatusWriteMoves
     DEF Reconcile
<1>2. CASE UNCHANGED vars
  BY <1>2, NoMove DEF vars, server, caches, JobMove
<1>. QED BY <1>1, <1>2, ManagerMoves, RestartMoves, EnvironmentMoves DEF Next

-----------------------------------------------------------------------------
(* Copies stay old. *)

\* So a copy after the step was a copy before, or is of this step's server.
LEMMA CopiesMove ==
    ASSUME TypeOK, GitSecretMove, SecretMove, JobMove
    PROVE  /\ \A g \in GitSecrets :
                 GSCopies(g)' \subseteq GSCopies(g) \cup {gitsecrets[g], gitsecrets'[g]}
           /\ \A s \in Secrets :
                 SecretCopies(s)' \subseteq SecretCopies(s) \cup {secrets[s], secrets'[s]}
<1>1. ASSUME NEW g \in GitSecrets
      PROVE  GSCopies(g)' \subseteq GSCopies(g) \cup {gitsecrets[g], gitsecrets'[g]}
  <2>1. ASSUME pc' # "idle", job'.name = g
        PROVE  job'.gs = gsCache[g] \/ (pc # "idle" /\ job.name = g /\ job'.gs = job.gs)
    <3>1. CASE UNCHANGED <<pc, job>>
      BY <2>1, <3>1
    <3>2. CASE job'.gs = gsCache[job'.name]
      BY <2>1, <3>2
    <3>. QED BY <2>1, <3>1, <3>2 DEF JobMove
  <2>. QED BY <2>1 DEF GSCopies, GitSecretMove
<1>2. ASSUME NEW s \in Secrets
      PROVE  SecretCopies(s)' \subseteq SecretCopies(s) \cup {secrets[s], secrets'[s]}
  <2>1. CASE UNCHANGED <<pc, job>>
    BY <2>1 DEF SecretCopies, SecretMove, Target
  <2>2. CASE pc' \notin {"release", "lookup", "write"}
    BY <2>2 DEF SecretCopies, SecretMove
  <2>3. CASE /\ pc # "idle"
             /\ job'.name = job.name /\ job'.gs = job.gs
             /\ \/ job'.existing = job.existing /\ pc \in {"release", "lookup"}
                \/ job'.existing = secretCache[Target]
             /\ pc' = "write" => job'.read = secretCache[Target]
    <3>1. Target' = Target
      BY <2>3 DEF Target
    <3>. QED BY <2>3, <3>1 DEF SecretCopies, SecretMove
  <2>. QED BY <2>1, <2>2, <2>3 DEF JobMove
<1>. QED BY <1>1, <1>2

\* A copy that was the same or older is so after the version went up.
LEMMA OlderStill ==
    ASSUME NEW e, NEW old, NEW new, e.rv \in Nat, old.rv \in Nat,
           SameOrOlder(e, old) \/ e = old \/ e = new,
           new = old \/ new.rv = old.rv + 1
    PROVE  SameOrOlder(e, new)
BY DEF SameOrOlder

\* No step makes a copy newer than the object.
LEMMA StepCopies ==
    ASSUME Inv, [Next]_vars, TypeOK'
    PROVE  CopiesInv'
<1>. TypeOK /\ GitSecretMove /\ SecretMove /\ JobMove
  BY StepMoves DEF Inv
<1>1. ASSUME NEW g \in GitSecrets, NEW e \in GSCopies(g)'
      PROVE  SameOrOlder(e, gitsecrets'[g])
  <2>1. e \in GSCopies(g) \cup {gitsecrets[g], gitsecrets'[g]}
    BY <1>1, CopiesMove
  <2>2. SameOrOlder(e, gitsecrets[g]) \/ e = gitsecrets[g] \/ e = gitsecrets'[g]
    BY <2>1 DEF Inv, CopiesInv
  <2>3. e.rv \in Nat
    BY <1>1 DEF GSCopies, TypeOK, Entries, Jobs
  <2>4. gitsecrets[g].rv \in Nat
    BY DEF TypeOK, Entries
  <2>. QED BY <2>2, <2>3, <2>4, OlderStill DEF GitSecretMove
<1>2. ASSUME NEW s \in Secrets, NEW e \in SecretCopies(s)'
      PROVE  SameOrOlder(e, secrets'[s])
  <2>1. e \in SecretCopies(s) \cup {secrets[s], secrets'[s]}
    BY <1>2, CopiesMove
  <2>2. SameOrOlder(e, secrets[s]) \/ e = secrets[s] \/ e = secrets'[s]
    BY <2>1 DEF Inv, CopiesInv
  <2>3. e.rv \in Nat
    BY <1>2 DEF SecretCopies, TypeOK, Entries, Jobs
  <2>4. secrets[s].rv \in Nat
    BY DEF TypeOK, Entries
  <2>. QED BY <2>2, <2>3, <2>4, OlderStill DEF SecretMove
<1>. QED BY <1>1, <1>2 DEF CopiesInv

-----------------------------------------------------------------------------
(* Statuses stay truthful. *)

\* The history of what was written is never rewritten.
LEMMA AppliedGrows ==
    ASSUME [Next]_vars
    PROVE  applied \subseteq applied'
<1>1. CASE Reconcile
  BY <1>1 DEF Reconcile, Fetch, Guard, Release, Lookup, Write, StatusWrite, history
<1>2. CASE Manager \/ Restart \/ Environment \/ \E s \in Secrets : Collect(s)
  BY <1>2 DEF Manager, ObserveGitSecret, ObserveSecret, Resync, Restart, Environment,
         ApplyManifest, DeleteGitSecret, DeleteLegacy, ChangeSecret, Collect,
         UnchangedByUsers, history
<1>3. CASE UNCHANGED vars
  BY <1>3 DEF vars, history
<1>. QED BY <1>1, <1>2, <1>3 DEF Next

\* What the status step would write, and only that, is written by a reconcile.
LEMMA StatusWriteVersion ==
    ASSUME Inv, StatusWrite, NEW h \in GitSecrets, gitsecrets'[h] # gitsecrets[h]
    PROVE  /\ h = job.name /\ gitsecrets[h] = job.gs
           /\ gitsecrets'[h].obj = [job.gs.obj EXCEPT !.status = job.status]
<1>. DEFINE obj == [gitsecrets[job.name].obj EXCEPT !.status = job.status]
<1>. TypeOK /\ job.name \in GitSecrets /\ pc = "status" /\ UNCHANGED gsCache
  BY DEF Inv, TypeOK, StatusWrite, caches
<1>1. StatusIsCurrent /\ SetGitSecret(job.name, obj)
  BY DEF StatusWrite, gsServer
<1>. HIDE DEF obj
<1>2. h = job.name /\ gitsecrets'[h].obj = obj
  BY <1>1, SetGitSecretMove
<1>3. job.gs \in GSCopies(job.name)
  BY DEF GSCopies
<1>4. gitsecrets[job.name] = job.gs
  BY <1>1, <1>3 DEF Inv, CopiesInv, SameOrOlder, StatusIsCurrent
<1>. QED BY <1>2, <1>4 DEF obj

\* Users keep the status of an object they edit, or start with none.
LEMMA UsersVersion ==
    ASSUME TypeOK, Environment, NEW h \in GitSecrets,
           gitsecrets'[h] # gitsecrets[h], gitsecrets'[h].obj # None
    PROVE  LET old == gitsecrets[h].obj  new == gitsecrets'[h].obj
           IN  \/ old = None /\ new.status = NoStatus /\ new.gen = 1
               \/ old # None /\ new.status = old.status /\ new.uid = old.uid
                  /\ new.gen = old.gen + 1
<1>1. ASSUME NEW g \in GitSecrets, NEW spec \in UserSpecs, ApplyManifest(g, spec)
      PROVE  LET old == gitsecrets[h].obj  new == gitsecrets'[h].obj
             IN  \/ old = None /\ new.status = NoStatus /\ new.gen = 1
                 \/ old # None /\ new.status = old.status /\ new.uid = old.uid
                    /\ new.gen = old.gen + 1
  <2>. DEFINE old == gitsecrets[g].obj
              new == [uid |-> gitsecrets[g].rv + 1, gen |-> 1,
                      spec |-> spec, status |-> NoStatus]
              edited == [old EXCEPT !.spec = spec, !.gen = @ + 1]
  <2>1. UNCHANGED gsCache
    BY <1>1 DEF ApplyManifest, UnchangedByUsers, caches
  <2>2. \/ old = None /\ SetGitSecret(g, new)
        \/ old # None /\ SetGitSecret(g, edited)
    BY <1>1 DEF ApplyManifest
  <2>3. old # None => /\ edited.status = old.status /\ edited.uid = old.uid
                      /\ edited.gen = old.gen + 1
    <3>. SUFFICES ASSUME NEW o \in GSObjects
                  PROVE  LET e == [o EXCEPT !.spec = spec, !.gen = @ + 1]
                         IN  e.status = o.status /\ e.uid = o.uid /\ e.gen = o.gen + 1
      BY DEF TypeOK, Entries
    <3>. QED BY DEF GSObjects
  <2>4. new.status = NoStatus /\ new.gen = 1
    OBVIOUS
  <2>. HIDE DEF new, edited
  <2>5. CASE old = None /\ SetGitSecret(g, new)
    <3>1. h = g /\ gitsecrets'[h].obj = new
      BY <2>1, <2>5, SetGitSecretMove
    <3>. QED BY <2>4, <2>5, <3>1
  <2>6. CASE old # None /\ SetGitSecret(g, edited)
    <3>1. h = g /\ gitsecrets'[h].obj = edited
      BY <2>1, <2>6, SetGitSecretMove
    <3>. QED BY <2>3, <2>6, <3>1
  <2>. QED BY <2>2, <2>5, <2>6
<1>2. ASSUME NEW g \in GitSecrets, DeleteGitSecret(g) PROVE FALSE
  BY <1>2, SetGitSecretMove DEF DeleteGitSecret, UnchangedByUsers, caches
<1>3. \E g \in GitSecrets, spec \in UserSpecs : ApplyManifest(g, spec)
  BY <1>2 DEF Environment, DeleteLegacy, ChangeSecret, server, gsServer
<1>. QED BY <1>1, <1>3

\* Nobody else writes GitSecrets.
LEMMA OthersVersion ==
    ASSUME [Next]_vars, NEW h \in GitSecrets, gitsecrets'[h] # gitsecrets[h]
    PROVE  StatusWrite \/ Environment
<1>1. CASE Reconcile
  BY <1>1 DEF Reconcile, Fetch, Guard, Release, Lookup, Write, server, gsServer
<1>2. CASE Manager \/ Restart \/ \E s \in Secrets : Collect(s)
  BY <1>2 DEF Manager, ObserveGitSecret, ObserveSecret, Resync, Restart, Collect, server, gsServer
<1>3. CASE UNCHANGED vars
  BY <1>3 DEF vars, server, gsServer
<1>. QED BY <1>1, <1>2, <1>3 DEF Next

\* Whoever writes a GitSecret writes a truthful status.
LEMMA NewVersionTruthful ==
    ASSUME Inv, [Next]_vars, NEW h \in GitSecrets,
           gitsecrets'[h] # gitsecrets[h], gitsecrets'[h].obj # None
    PROVE  Truthful(h, gitsecrets'[h].obj)
<1>1. CASE StatusWrite
  BY <1>1, StatusWriteVersion DEF Inv, JobInv, StatusWrite
<1>2. CASE Environment
  <2>. DEFINE old == gitsecrets[h].obj
              new == gitsecrets'[h].obj
  <2>. TypeOK
    BY DEF Inv
  <2>1. CASE old = None /\ new.status = NoStatus /\ new.gen = 1
    BY <2>1 DEF Truthful, Ready, NoStatus
  <2>2. CASE old # None /\ new.status = old.status /\ new.uid = old.uid /\ new.gen = old.gen + 1
    <3>1. Truthful(h, old)
      BY <2>2 DEF Inv, StatusInv
    <3>2. old.gen \in Nat /\ old.status.observed \in Nat
      BY <2>2 DEF TypeOK, Entries, GSObjects, Statuses
    <3>. QED BY <2>2, <3>1, <3>2 DEF Truthful, Ready
  <2>. QED BY <1>2, <2>1, <2>2, UsersVersion
<1>. QED BY <1>1, <1>2, OthersVersion

\* Every step keeps every version of every status truthful.
LEMMA StepStatus ==
    ASSUME Inv, [Next]_vars
    PROVE  StatusInv'
<1>. TypeOK /\ GitSecretMove /\ SecretMove /\ JobMove /\ applied \subseteq applied'
  BY StepMoves, AppliedGrows DEF Inv
<1>. SUFFICES ASSUME NEW g \in GitSecrets, NEW e \in GSCopies(g)' \cup {gitsecrets'[g]},
                     e.obj # None
              PROVE  Truthful(g, e.obj)'
  BY DEF StatusInv
<1>1. e \in GSCopies(g) \cup {gitsecrets[g], gitsecrets'[g]}
  BY CopiesMove
<1>2. Truthful(g, e.obj)
  BY <1>1, NewVersionTruthful DEF Inv, StatusInv
<1>. QED BY <1>2 DEF Truthful, Ready

-----------------------------------------------------------------------------
(* What the running reconcile has established. *)

\* A failure path claims nothing that is not so.
LEMMA ReportJob ==
    ASSUME NEW q, NEW j \in Jobs, NEW err, NEW reason \in Reasons \ {"Synced"},
           Report(q, j, reason, err), j.name \in GitSecrets, j.gs.obj # None,
           j.gs.obj.status.observed <= j.gs.obj.gen
    PROVE  JobInv'
<1>. DEFINE status == setCondition(j.gs.obj.status, j.gs.obj, reason)
            obj == [j.gs.obj EXCEPT !.status = status]
<1>1. j.gs.obj \in GSObjects
  BY DEF Jobs, Entries
<1>2. status.observed = j.gs.obj.status.observed /\ status.reason = reason
  BY <1>1 DEF setCondition, GSObjects, Statuses
<1>3. obj.status = status /\ obj.gen = j.gs.obj.gen
  BY <1>1 DEF GSObjects
<1>4. j.gs.obj.status.observed \in Nat /\ j.gs.obj.gen \in Nat
  BY <1>1 DEF GSObjects, Statuses
<1>. HIDE DEF status, obj
<1>5. CASE pc' = "idle"
  BY <1>5 DEF JobInv
<1>6. CASE pc' = "status" /\ job'.name = j.name /\ job'.gs = j.gs /\ job'.status = status
  <2>1. Truthful(j.name, obj)'
    BY <1>2, <1>3 DEF Truthful, Ready
  <2>2. [job.gs.obj EXCEPT !.status = job.status]' = obj
    BY <1>6 DEF obj
  <2>. QED BY <1>2, <1>4, <1>6, <2>1, <2>2 DEF JobInv
<1>. QED BY <1>5, <1>6, ReportSteps DEF status

\* The object the job works on is a copy, so what it says is so.
LEMMA JobTruthful ==
    ASSUME Inv, pc # "idle"
    PROVE  /\ job \in Jobs /\ job.name \in GitSecrets /\ job.gs.obj # None
           /\ job.gs.obj \in GSObjects
           /\ Truthful(job.name, job.gs.obj)
<1>1. job \in Jobs /\ job.name \in GitSecrets /\ job.gs.obj # None
  BY DEF Inv, TypeOK
<1>2. job.gs \in GSCopies(job.name)
  BY DEF GSCopies
<1>. QED BY <1>1, <1>2, TargetType DEF Inv, StatusInv

\* Past Fetch, the object unseals.
LEMMA FetchJob ==
    ASSUME Inv, NEW g \in GitSecrets, Fetch(g)
    PROVE  JobInv'
<1>. DEFINE locals == [NoJob EXCEPT !.name = g, !.gs = gsCache[g]]
<1>1. locals \in Jobs /\ locals.name = g /\ locals.gs = gsCache[g]
  BY NoJobType DEF NoJob, Jobs, Inv, TypeOK
<1>2. gsCache[g].obj # None => Truthful(g, gsCache[g].obj)
  BY DEF Inv, StatusInv, GSCopies
<1>. HIDE DEF locals
<1>3. \/ UNCHANGED pc
      \/ pc' = "guard" /\ job' = locals /\ Unseals(gsCache[g].obj.spec)
      \/ gsCache[g].obj # None /\ Report(queue \ {g}, locals, "UnsealFailed", FALSE)
      \/ pc' = "idle"
  BY DEF Fetch, Return, locals
<1>4. CASE UNCHANGED pc \/ pc' = "idle"
  BY <1>4 DEF JobInv, Fetch
<1>5. CASE pc' = "guard" /\ job' = locals /\ Unseals(gsCache[g].obj.spec)
  BY <1>1, <1>5 DEF JobInv, Unseals
<1>6. CASE gsCache[g].obj # None /\ Report(queue \ {g}, locals, "UnsealFailed", FALSE)
  BY <1>1, <1>2, <1>6, ReportJob DEF Reasons, Truthful
<1>. QED BY <1>3, <1>4, <1>5, <1>6

\* Past Guard, the Secret it read is one the object may have.
LEMMA GuardJob ==
    ASSUME Inv, Guard
    PROVE  JobInv'
<1>. DEFINE existing == secretCache[Target]
            locals == [job EXCEPT !.existing = existing]
<1>. pc = "guard" /\ pc # "idle"
  BY DEF Guard
<1>. HIDE DEF existing
<1>1. /\ job \in Jobs /\ job.name \in GitSecrets /\ job.gs.obj # None
      /\ Truthful(job.name, job.gs.obj)
  BY JobTruthful
<1>2. /\ locals \in Jobs /\ locals.name = job.name /\ locals.gs = job.gs
      /\ locals.existing = existing
  BY <1>1, TargetType DEF Jobs, Inv, TypeOK, existing
<1>3. Unseals(job.gs.obj.spec)
  BY DEF Inv, JobInv
<1>. HIDE DEF locals
<1>4. \/ ownedByLegacyNamesake(existing, job.name) /\ pc' = "release" /\ job' = locals
      \/ MayTake(existing) /\ pc' = "lookup" /\ job' = locals
      \/ Report(queue, locals, "TargetConflict", FALSE)
      \/ pc' = "idle"
  BY DEF Guard, Return, locals, existing
<1>5. CASE ownedByLegacyNamesake(existing, job.name) /\ pc' = "release" /\ job' = locals
  <2>. QED BY <1>2, <1>3, <1>5 DEF JobInv, Permitted, ownedByLegacyNamesake, Unseals
<1>6. CASE MayTake(existing) /\ pc' = "lookup" /\ job' = locals
  <2>1. Permitted(existing)
    BY <1>6 DEF MayTake, Permitted
  <2>2. Self' = Self
    BY <1>2, <1>6 DEF Self, Ref
  <2>3. Permitted(job.existing)'
    BY <1>2, <1>6, <2>1, <2>2 DEF Permitted, OwnedBy, ownedByLegacyNamesake
  <2>. QED BY <1>2, <1>3, <1>6, <2>3 DEF JobInv, Unseals
<1>7. CASE Report(queue, locals, "TargetConflict", FALSE)
  BY <1>1, <1>2, <1>7, ReportJob DEF Reasons, Truthful
<1>8. CASE pc' = "idle"
  BY <1>8 DEF JobInv
<1>. QED BY <1>4, <1>5, <1>6, <1>7, <1>8

\* Release keeps what the guard established.
LEMMA ReleaseJob ==
    ASSUME Inv, Release
    PROVE  JobInv'
<1>1. pc = "release"
  BY DEF Release
<1>2. \/ pc' = "lookup" /\ UNCHANGED <<job, queue>>
      \/ Return(queue, job.name, TRUE)
  BY DEF Release
<1>3. pc' = "idle" \/ (pc' = "lookup" /\ job' = job)
  BY <1>2 DEF Return
<1>4. CASE pc' = "idle"
  BY <1>4 DEF JobInv
<1>5. CASE pc' = "lookup" /\ job' = job
  BY <1>1, <1>5 DEF Inv, JobInv, Unseals, Permitted, OwnedBy, ownedByLegacyNamesake, Self, Ref
<1>. QED BY <1>3, <1>4, <1>5

\* Past Lookup, the Secret as read is nobody's, the object's own or a namesake's.
LEMMA LookupJob ==
    ASSUME Inv, Lookup
    PROVE  JobInv'
<1>. DEFINE read == secretCache[Target]
            locals == [job EXCEPT !.read = read]
<1>. pc = "lookup" /\ pc # "idle"
  BY DEF Lookup
<1>. HIDE DEF read
<1>1. /\ job \in Jobs /\ job.name \in GitSecrets /\ job.gs.obj # None
      /\ Truthful(job.name, job.gs.obj)
  BY JobTruthful
<1>2. /\ locals.name = job.name /\ locals.gs = job.gs
      /\ locals.existing = job.existing /\ locals.read = read
  BY <1>1 DEF Jobs
<1>3. Unseals(job.gs.obj.spec) /\ Permitted(job.existing)
  BY DEF Inv, JobInv
<1>. HIDE DEF locals
<1>4. \/ Controllable(read) /\ pc' = "write" /\ job' = locals
      \/ Report(queue, job, "ApplyFailed", TRUE)
  BY DEF Lookup, locals, read
<1>5. CASE Controllable(read) /\ pc' = "write" /\ job' = locals
  <2>1. Self' = Self
    BY <1>2, <1>5 DEF Self, Ref
  <2>2. Controllable(job.read)'
    BY <1>2, <1>5, <2>1 DEF Controllable, OwnedBy
  <2>3. Permitted(job.existing)'
    BY <1>2, <1>3, <1>5, <2>1 DEF Permitted, OwnedBy, ownedByLegacyNamesake
  <2>. QED BY <1>2, <1>3, <1>5, <2>2, <2>3 DEF JobInv, Unseals
<1>6. CASE Report(queue, job, "ApplyFailed", TRUE)
  BY <1>1, <1>6, ReportJob DEF Reasons, Truthful
<1>. QED BY <1>4, <1>5, <1>6

\* Past Write, what the status will say was written.
LEMMA WriteJob ==
    ASSUME Inv, Write
    PROVE  JobInv'
<1>. DEFINE gs == job.gs.obj
            status == [setCondition(gs.status, gs, "Synced") EXCEPT
                          !.observed = gs.gen, !.synced = clock']
            done == [job EXCEPT !.status = status, !.retry = FALSE,
                                !.wrote = secrets' # secrets]
<1>. pc = "write" /\ pc # "idle"
  BY DEF Write
<1>1. /\ job \in Jobs /\ job.name \in GitSecrets /\ gs # None
      /\ gs \in GSObjects /\ Truthful(job.name, gs)
  BY JobTruthful
<1>2. status.observed = gs.gen /\ status.at = gs.gen
  BY <1>1 DEF setCondition, GSObjects, Statuses
<1>3. done.name = job.name /\ done.gs = job.gs /\ done.status = status
  <2>. HIDE DEF status
  <2>. QED BY <1>1 DEF Jobs
<1>4. \/ /\ pc' = "status" /\ job' = done
         /\ applied' = applied \cup {<<job.name, gs.uid, gs.gen>>}
      \/ Report(queue, job, "ApplyFailed", TRUE)
  BY DEF Write
<1>5. CASE /\ pc' = "status" /\ job' = done
           /\ applied' = applied \cup {<<job.name, gs.uid, gs.gen>>}
  <2>. DEFINE obj == [gs EXCEPT !.status = status]
  <2>1. obj.status = status /\ obj.gen = gs.gen /\ obj.uid = gs.uid
    BY <1>1 DEF GSObjects
  <2>2. gs.gen \in Nat /\ gs.status.observed \in Nat /\ gs.status.observed <= gs.gen
    BY <1>1 DEF GSObjects, Statuses, Truthful
  <2>. HIDE DEF status, done, obj
  <2>3. job'.name = job.name /\ job'.gs.obj = gs /\ job'.status = status
    BY <1>3, <1>5
  <2>4. [job.gs.obj EXCEPT !.status = job.status]' = obj
    BY <2>3 DEF obj
  <2>5. Truthful(job.name, [job.gs.obj EXCEPT !.status = job.status])'
    BY <1>2, <1>5, <2>1, <2>2, <2>3, <2>4 DEF Truthful, Ready
  <2>6. job'.status.observed \in job'.gs.obj.status.observed..job'.gs.obj.gen
    BY <1>2, <2>2, <2>3
  <2>. QED BY <1>5, <2>5, <2>6 DEF JobInv
<1>6. CASE Report(queue, job, "ApplyFailed", TRUE)
  BY <1>1, <1>6, ReportJob DEF Reasons, Truthful
<1>. QED BY <1>4, <1>5, <1>6

\* Between its own steps the job stands still.
LEMMA OthersJob ==
    ASSUME JobInv, UNCHANGED <<pc, job>>, applied \subseteq applied'
    PROVE  JobInv'
BY DEF JobInv, Unseals, Permitted, ownedByLegacyNamesake, OwnedBy, Controllable, Self, Ref,
       Truthful, Ready

\* Every step keeps what the running reconcile has established.
LEMMA StepJob ==
    ASSUME Inv, [Next]_vars
    PROVE  JobInv'
<1>1. CASE StatusWrite \/ Restart
  BY <1>1 DEF StatusWrite, Restart, Return, JobInv
<1>2. CASE Manager \/ Environment \/ (\E s \in Secrets : Collect(s)) \/ UNCHANGED vars
  <2>1. UNCHANGED <<pc, job>>
    BY <1>2 DEF Manager, ObserveGitSecret, ObserveSecret, Resync, Environment, ApplyManifest,
           DeleteGitSecret, DeleteLegacy, ChangeSecret, Collect, UnchangedByUsers, vars
  <2>. QED BY <2>1, OthersJob, AppliedGrows DEF Inv
<1>. QED
  BY <1>1, <1>2, FetchJob, GuardJob, ReleaseJob, LookupJob, WriteJob DEF Next, Reconcile

-----------------------------------------------------------------------------
(* The invariant. *)

\* The invariant holds initially.
LEMMA InitInv == Init => Inv
<1>. SUFFICES ASSUME Init PROVE Inv
  OBVIOUS
<1>1. TypeOK
  BY InitType
<1>2. CopiesInv
  <2>1. \A g \in GitSecrets : GSCopies(g) = {gitsecrets[g]}
    BY DEF Init, GSCopies
  <2>2. \A s \in Secrets : SecretCopies(s) = {secrets[s]}
    BY DEF Init, SecretCopies
  <2>. QED BY <1>1, <2>1, <2>2 DEF CopiesInv, SameOrOlder, TypeOK, Entries
<1>3. StatusInv
  BY DEF Init, StatusInv, GSCopies, NoEntry
<1>4. JobInv
  BY DEF Init, JobInv
<1>. QED BY <1>1, <1>2, <1>3, <1>4 DEF Inv

\* The invariant is preserved by every step.
LEMMA StepInv == Inv /\ [Next]_vars => Inv'
<1>. SUFFICES ASSUME Inv, [Next]_vars PROVE Inv'
  OBVIOUS
<1>1. TypeOK'
  BY StepType
<1>. QED BY <1>1, StepCopies, StepStatus, StepJob DEF Inv

\* Every copy a reconcile works from is the object or an older version of it,
\* every status is about data that was written, and the running reconcile knows
\* what the step it is at needs.
THEOREM InductiveInvariant == Spec => []Inv
<1>1. Init => Inv
  BY InitInv
<1>2. Inv /\ [Next]_vars => Inv'
  BY StepInv
<1>. QED BY <1>1, <1>2, PTL DEF Spec

-----------------------------------------------------------------------------
(* What follows from it. *)

\* The state of Reconcile, the manager, the API server and the users keeps its
\* type.
THEOREM TypeCorrectness == Spec => []TypeOK
<1>1. Inv => TypeOK
  BY DEF Inv
<1>. QED BY <1>1, InductiveInvariant, PTL

\* An object never says Ready for a generation that was not written to its
\* target by this controller, whatever copy of it the reconcile worked from.
THEOREM ReadyIsAlwaysEarned == Spec => []ReadyIsEarned
<1>1. Inv => ReadyIsEarned
  BY DEF Inv, StatusInv, Truthful, ReadyIsEarned, Ready
<1>. QED BY <1>1, InductiveInvariant, PTL

\* The observed generation only ever moves forward, and not past the object's:
\* a status write computed from an old copy is refused.
THEOREM ObservedMovesForward == Spec => ObservedNeverRegresses
<1>1. Inv /\ [Next]_vars =>
         \A g \in GitSecrets : LET old == gitsecrets[g].obj  new == gitsecrets'[g].obj IN
            (old # None /\ new # None)
            => new.status.observed \in old.status.observed..old.gen
  <2>. SUFFICES ASSUME Inv, [Next]_vars, NEW g \in GitSecrets,
                       gitsecrets[g].obj # None, gitsecrets'[g].obj # None
                PROVE  gitsecrets'[g].obj.status.observed
                          \in gitsecrets[g].obj.status.observed..gitsecrets[g].obj.gen
    OBVIOUS
  <2>. DEFINE old == gitsecrets[g].obj
              new == gitsecrets'[g].obj
  <2>1. /\ old.status.observed \in Nat /\ old.gen \in Nat
        /\ old.status.observed <= old.gen
    BY DEF Inv, TypeOK, Entries, GSObjects, Statuses, StatusInv, Truthful
  <2>2. CASE gitsecrets'[g] = gitsecrets[g]
    BY <2>1, <2>2
  <2>3. CASE gitsecrets'[g] # gitsecrets[g] /\ StatusWrite
    <3>1. g = job.name /\ old = job.gs.obj /\ new = [job.gs.obj EXCEPT !.status = job.status]
      BY <2>3, StatusWriteVersion
    <3>2. pc = "status" /\ job.gs.obj \in GSObjects
      BY <2>3, JobTruthful DEF StatusWrite
    <3>3. new.status = job.status
      BY <3>1, <3>2 DEF GSObjects
    <3>. QED BY <3>1, <3>2, <3>3 DEF Inv, JobInv
  <2>4. CASE gitsecrets'[g] # gitsecrets[g] /\ Environment
    <3>1. new.status = old.status
      BY <2>4, UsersVersion DEF Inv
    <3>. QED BY <2>1, <3>1
  <2>. QED BY <2>2, <2>3, <2>4, OthersVersion
<1>. QED BY <1>1, InductiveInvariant, PTL DEF Spec, ObservedNeverRegresses

-----------------------------------------------------------------------------
(* Who controls a Secret. *)

\* The reconcile drops a legacy reference it has just read, or writes a Secret it
\* has just read as nobody's, its own or a namesake's; anybody else who leaves the
\* Secret in place leaves its owner in place.
LEMMA OwnerMove ==
    ASSUME Inv, [Next]_vars, NEW s \in Secrets,
           secrets[s].obj # None, secrets'[s].obj # None
    PROVE  LET old == secrets[s].obj.owner  new == secrets'[s].obj.owner IN
           \/ new = old
           \/ old # None /\ old.kind = "Legacy" /\ new = None
           \/ /\ pc = "write" /\ s = Target /\ new = Self
              /\ old # None => Namesakes(old, Self)
<1>. DEFINE old == secrets[s].obj.owner
            new == secrets'[s].obj.owner
            Goal == \/ new = old
                    \/ old # None /\ old.kind = "Legacy" /\ new = None
                    \/ /\ pc = "write" /\ s = Target /\ new = Self
                       /\ old # None => Namesakes(old, Self)
<1>. TypeOK
  BY DEF Inv
<1>. secrets[s].obj \in SecretObjects
  BY DEF TypeOK, Entries
<1>. SUFFICES ASSUME secrets'[s] # secrets[s] PROVE Goal
  OBVIOUS
<1>1. ASSUME Release PROVE Goal
  <2>. DEFINE obj == [job.existing.obj EXCEPT !.owner = None]
  <2>1. /\ pc = "release" /\ Target \in Secrets /\ UNCHANGED secretCache
        /\ job.existing \in Entries(SecretObjects)
    BY <1>1, TargetType DEF Release, caches, TypeOK, Jobs
  <2>2. SecretIsCurrent(job.existing) /\ SetSecret(Target, obj)
    BY <1>1 DEF Release, secretServer
  <2>. HIDE DEF obj
  <2>3. s = Target /\ secrets'[s].obj = obj
    BY <2>1, <2>2, SetSecretMove
  <2>4. job.existing \in SecretCopies(Target)
    BY <2>1 DEF SecretCopies
  <2>5. secrets[s] = job.existing
    BY <2>1, <2>2, <2>3, <2>4 DEF Inv, CopiesInv, SameOrOlder, SecretIsCurrent
  <2>6. old # None /\ old.kind = "Legacy"
    BY <2>1, <2>5 DEF Inv, JobInv, ownedByLegacyNamesake
  <2>7. new = None
    BY <2>3, <2>5 DEF obj, SecretObjects
  <2>. QED BY <2>6, <2>7
<1>2. ASSUME Write PROVE Goal
  <2>. DEFINE obj == [owner |-> Self, data |-> job.gs.obj.spec.sealed]
  <2>1. /\ pc = "write" /\ Target \in Secrets /\ UNCHANGED secretCache
        /\ Controllable(job.read)
    BY <1>2, TargetType DEF Write, caches, Inv, JobInv
  <2>2. /\ SetSecret(Target, obj)
        /\ IF job.read.obj = None THEN secrets[Target].obj = None
                                   ELSE SecretIsCurrent(job.read)
    BY <1>2 DEF Write, secretServer
  <2>3. s = Target /\ secrets'[s].obj = obj
    BY <2>1, <2>2, SetSecretMove
  <2>4. job.read \in SecretCopies(Target)
    BY <2>1 DEF SecretCopies
  <2>5. secrets[s] = job.read
    BY <2>1, <2>2, <2>3, <2>4 DEF Inv, CopiesInv, SameOrOlder, SecretIsCurrent
  <2>6. old # None => Namesakes(old, Self)
    BY <2>1, <2>5 DEF Controllable, OwnedBy
  <2>. QED BY <2>1, <2>3, <2>6 DEF obj
<1>3. ASSUME NEW t \in Secrets, ChangeSecret(t) PROVE Goal
  <2>. DEFINE marred == [secrets[t].obj EXCEPT !.data = Alien]
  <2>1. UNCHANGED secretCache
    BY <1>3 DEF ChangeSecret, UnchangedByUsers, caches
  <2>2. \/ secrets[t].obj = None
        \/ SetSecret(t, marred)
        \/ SetSecret(t, None)
    BY <1>3 DEF ChangeSecret
  <2>. HIDE DEF marred
  <2>3. s = t
    BY <1>3, <2>1, SetSecretMove DEF ChangeSecret
  <2>4. SetSecret(s, marred) /\ secrets'[s].obj = marred
    BY <2>1, <2>2, <2>3, SetSecretMove
  <2>. QED BY <2>3, <2>4 DEF marred, SecretObjects
<1>4. ASSUME NEW t \in Secrets, Collect(t) PROVE FALSE
  BY <1>4, SetSecretMove DEF Collect, UnchangedByUsers, caches
<1>5. \/ Release \/ Write
      \/ \E t \in Secrets : ChangeSecret(t) \/ Collect(t)
  <2>1. CASE Reconcile
    BY <2>1 DEF Reconcile, Fetch, Guard, Lookup, StatusWrite, server, secretServer
  <2>2. CASE Manager \/ Restart
    BY <2>2 DEF Manager, ObserveGitSecret, ObserveSecret, Resync, Restart, server, secretServer
  <2>3. CASE Environment
    BY <2>3 DEF Environment, ApplyManifest, DeleteGitSecret, DeleteLegacy, server,
           secretServer
  <2>4. CASE UNCHANGED vars
    BY <2>4 DEF vars, server, secretServer
  <2>. QED BY <2>1, <2>2, <2>3, <2>4 DEF Next
<1>. QED BY <1>1, <1>2, <1>3, <1>4, <1>5

\* No reconcile takes a Secret from another object or another controller: only
\* from an object of the same name, or to let go of a pre-rename one's.
THEOREM NobodyIsRobbed == Spec => NoTheft
<1>1. Inv /\ [Next]_vars =>
         \A s \in Secrets :
            LET old == secrets[s].obj  new == secrets'[s].obj IN
            (old # None /\ old.owner # None /\ new # None /\ new.owner # old.owner)
            => \/ old.owner.kind = "Legacy" /\ new.owner = None
               \/ /\ old.owner.kind = "GitSecret"
                  /\ new.owner # None /\ Namesakes(old.owner, new.owner)
  <2>. SUFFICES ASSUME Inv, [Next]_vars, NEW s \in Secrets,
                       secrets[s].obj # None, secrets[s].obj.owner # None, secrets'[s].obj # None,
                       secrets'[s].obj.owner # secrets[s].obj.owner,
                       ~(secrets[s].obj.owner.kind = "Legacy" /\ secrets'[s].obj.owner = None)
                PROVE  /\ secrets[s].obj.owner.kind = "GitSecret"
                       /\ secrets'[s].obj.owner # None
                       /\ Namesakes(secrets[s].obj.owner, secrets'[s].obj.owner)
    OBVIOUS
  <2>1. /\ pc = "write" /\ secrets'[s].obj.owner = Self
        /\ Namesakes(secrets[s].obj.owner, Self)
    BY OwnerMove
  <2>2. Self # None /\ Self.kind = "GitSecret"
    BY <2>1, TargetType, ConstantsAssumption DEF Inv, Self, Ref
  <2>. QED BY <2>1, <2>2 DEF Namesakes
<1>. QED BY <1>1, InductiveInvariant, PTL DEF Spec, NoTheft

\* A Secret the ownership guard of a reconcile saw as nobody's or another's, and
\* that nobody has touched since, is taken over by that reconcile only for an
\* object that adopts.
THEOREM GuardHolds == Spec => GuardedSecretIsLeftAlone
<1>1. Inv /\ [Next]_vars =>
         \A s \in Secrets :
            Takes(s) => \/ job.gs.obj.spec.adopt
                        \/ job.existing.rv < secrets[s].rv
  <2>. SUFFICES ASSUME Inv, [Next]_vars, NEW s \in Secrets, Takes(s),
                       ~job.gs.obj.spec.adopt
                PROVE  job.existing.rv < secrets[s].rv
    OBVIOUS
  <2>1. /\ pc = "write" /\ s = Target /\ secrets'[s].obj.owner = Self
        /\ secrets[s].obj.owner # None => Namesakes(secrets[s].obj.owner, Self)
    BY OwnerMove DEF Takes
  <2>2. job.existing \in SecretCopies(s)
    BY <2>1 DEF SecretCopies
  <2>3. SameOrOlder(job.existing, secrets[s])
    BY <2>2 DEF Inv, CopiesInv
  <2>4. Permitted(job.existing)
    BY <2>1 DEF Inv, JobInv
  <2>5. job.existing # secrets[s]
    BY <2>1, <2>4 DEF Takes, Permitted, OwnedBy, ownedByLegacyNamesake, Namesakes, Self, Ref
  <2>6. job.existing.rv \in Nat /\ secrets[s].rv \in Nat
    BY DEF Inv, TypeOK, Jobs, Entries
  <2>. QED BY <2>3, <2>5, <2>6 DEF SameOrOlder
<1>. QED BY <1>1, InductiveInvariant, PTL DEF Spec, GuardedSecretIsLeftAlone

-----------------------------------------------------------------------------
(* What a quiet controller has done: definitions. *)

\* The newest version is in the cache, or on its way there.
Delivered ==
    /\ \A g \in GitSecrets : \/ gitsecrets[g] \in gsWatch[g]
                             \/ gsWatch[g] = {} /\ gsCache[g] = gitsecrets[g]
    /\ \A s \in Secrets : \/ secrets[s] \in secretWatch[s]
                          \/ secretWatch[s] = {} /\ secretCache[s] = secrets[s]

\* The object is there, and nothing of its own will bring the worker back to it.
Current(g) == gitsecrets[g].obj # None /\ gsWatch[g] = {} /\ g \notin queue

Working(g) == pc # "idle" /\ job.name = g

\* A version of the Secret that g controlled is about to be followed by another,
\* whose delivery enqueues g.
WillWake(g, s) ==
    /\ secretWatch[s] # {}
    /\ \E e \in {secretCache[s]} \cup secretWatch[s] : g \in Controllers(e)

Settled(g) == InSync(g) \/ WillWake(g, TargetOf(g))

\* What entitles the worker to leave the object with this reason on record.
Excused(g, reason) ==
    \/ /\ reason = "UnsealFailed"
       /\ "gpg" \in FaultKinds \/ ~Unseals(gitsecrets[g].obj.spec)
    \/ reason = "TargetConflict" /\ (OwnsTarget(g) => Settled(g))
    \/ reason = "Synced" /\ Settled(g)

\* The running reconcile works from the object as it is, unless something will
\* bring the worker back; and so does what it is about to record.
JobCurrent == \A g \in GitSecrets : Current(g) /\ Working(g) => job.gs = gitsecrets[g]

StatusStep ==
    pc = "status" =>
        /\ job.status.at = job.gs.obj.gen
        /\ \A g \in GitSecrets :
              Current(g) /\ Working(g) /\ ~job.retry => Excused(g, job.status.reason)

WakeInv == Inv /\ Delivered /\ JobCurrent /\ StatusStep

\* What is true of an object the worker has left.
AllReported ==
    \A g \in GitSecrets : Current(g) /\ ~Working(g) =>
        LET obj == gitsecrets[g].obj
        IN  obj.status.at = obj.gen /\ (Ready(obj) => Settled(g))

AllOwnedSettled ==
    \A g \in GitSecrets :
        Current(g) /\ ~Working(g) /\ Unseals(gitsecrets[g].obj.spec) /\ OwnsTarget(g)
        => Settled(g)

-----------------------------------------------------------------------------
(* How a step moves the watches and the queue. *)

GitSecretKept(g) ==
    gitsecrets'[g] = gitsecrets[g] /\ gsWatch'[g] = gsWatch[g] /\ gsCache'[g] = gsCache[g]
GitSecretWritten(g) ==
    gsWatch'[g] = gsWatch[g] \cup {gitsecrets'[g]} /\ gsCache'[g] = gsCache[g]
GitSecretSeen(g) ==
    /\ gitsecrets'[g] = gitsecrets[g]
    /\ \E e \in Oldest(gsWatch[g]) : gsCache'[g] = e /\ gsWatch'[g] = gsWatch[g] \ {e}
    /\ g \in queue'

SecretKept(s) ==
    /\ secrets'[s] = secrets[s] /\ secretWatch'[s] = secretWatch[s]
    /\ secretCache'[s] = secretCache[s]
SecretWritten(s) ==
    /\ secretWatch'[s] = secretWatch[s] \cup {secrets'[s]}
    /\ secretCache'[s] = secretCache[s]
SecretSeen(s) ==
    /\ secrets'[s] = secrets[s]
    /\ \E e \in Oldest(secretWatch[s]) :
          /\ secretCache'[s] = e /\ secretWatch'[s] = secretWatch[s] \ {e}
          /\ Controllers(secretCache[s]) \cup Controllers(e) \subseteq queue'

Events ==
    /\ \A g \in GitSecrets : GitSecretKept(g) \/ GitSecretWritten(g) \/ GitSecretSeen(g)
    /\ \A s \in Secrets : SecretKept(s) \/ SecretWritten(s) \/ SecretSeen(s)

\* A write that changes something is on its way to the cache.
LEMMA SetGitSecretEvents ==
    ASSUME TypeOK, NEW g \in GitSecrets, NEW obj, SetGitSecret(g, obj), UNCHANGED gsCache
    PROVE  \A h \in GitSecrets : GitSecretKept(h) \/ GitSecretWritten(h)
<1>. DEFINE new == Put(gitsecrets[g], obj)
<1>. HIDE DEF new
<1>1. /\ gitsecrets' = [gitsecrets EXCEPT ![g] = new]
      /\ gsWatch' = [gsWatch EXCEPT ![g] = @ \cup ({new} \ {gitsecrets[g]})]
  BY DEF SetGitSecret, new
<1>. QED BY <1>1 DEF TypeOK, GitSecretKept, GitSecretWritten

\* The same for a Secret.
LEMMA SetSecretEvents ==
    ASSUME TypeOK, NEW s \in Secrets, NEW obj, SetSecret(s, obj), UNCHANGED secretCache
    PROVE  \A t \in Secrets : SecretKept(t) \/ SecretWritten(t)
<1>. DEFINE new == Put(secrets[s], obj)
<1>. HIDE DEF new
<1>1. /\ secrets' = [secrets EXCEPT ![s] = new]
      /\ secretWatch' = [secretWatch EXCEPT ![s] = @ \cup ({new} \ {secrets[s]})]
  BY DEF SetSecret, new
<1>. QED BY <1>1 DEF TypeOK, SecretKept, SecretWritten

\* What is untouched is kept.
LEMMA NoEvents ==
    /\ UNCHANGED <<gsServer, gsCache>> => \A g \in GitSecrets : GitSecretKept(g)
    /\ UNCHANGED <<secretServer, secretCache>> => \A s \in Secrets : SecretKept(s)
BY DEF gsServer, secretServer, GitSecretKept, SecretKept

\* Short of a restart, a step writes, delivers, or leaves alone.
LEMMA StepEvents ==
    ASSUME TypeOK, [Next]_vars, ~Restart
    PROVE  Events
<1>1. CASE Reconcile
  <2>1. UNCHANGED caches
    BY <1>1 DEF Reconcile, Fetch, Guard, Release, Lookup, Write, StatusWrite
  <2>2. \/ UNCHANGED gsServer
        \/ \E g \in GitSecrets : \E obj : SetGitSecret(g, obj)
    <3>1. CASE StatusWrite
      <4>1. job.name \in GitSecrets
        BY <3>1 DEF StatusWrite, TypeOK
      <4>2. \/ SetGitSecret(job.name, [gitsecrets[job.name].obj EXCEPT !.status = job.status])
            \/ UNCHANGED gsServer
        BY <3>1 DEF StatusWrite
      <4>. QED BY <4>1, <4>2
    <3>. QED BY <1>1, <3>1 DEF Reconcile, Fetch, Guard, Release, Lookup, Write, server
  <2>3. \/ UNCHANGED secretServer
        \/ \E s \in Secrets : \E obj : SetSecret(s, obj)
    <3>1. CASE Release
      <4>1. \/ SetSecret(Target, [job.existing.obj EXCEPT !.owner = None])
            \/ UNCHANGED secretServer
        BY <3>1 DEF Release
      <4>2. Target \in Secrets
        BY <3>1, TargetType DEF Release
      <4>. QED BY <4>1, <4>2
    <3>2. CASE Write
      <4>1. \/ SetSecret(Target, [owner |-> Self, data |-> job.gs.obj.spec.sealed])
            \/ UNCHANGED secretServer
        BY <3>2 DEF Write
      <4>2. Target \in Secrets
        BY <3>2, TargetType DEF Write
      <4>. QED BY <4>1, <4>2
    <3>. QED BY <1>1, <3>1, <3>2 DEF Reconcile, Fetch, Guard, Lookup, StatusWrite, server
  <2>4. \A g \in GitSecrets : GitSecretKept(g) \/ GitSecretWritten(g)
    BY <2>1, <2>2, SetGitSecretEvents, NoEvents DEF caches
  <2>5. \A s \in Secrets : SecretKept(s) \/ SecretWritten(s)
    BY <2>1, <2>3, SetSecretEvents, NoEvents DEF caches
  <2>. QED BY <2>4, <2>5 DEF Events
<1>2. CASE Environment \/ \E s \in Secrets : Collect(s)
  <2>1. UNCHANGED caches
    BY <1>2 DEF Environment, ApplyManifest, DeleteGitSecret, DeleteLegacy, ChangeSecret,
           Collect, UnchangedByUsers
  <2>2. \/ UNCHANGED gsServer
        \/ \E g \in GitSecrets : \E obj : SetGitSecret(g, obj)
    BY <1>2 DEF Environment, ApplyManifest, DeleteGitSecret, DeleteLegacy, ChangeSecret,
           Collect, server
  <2>3. \/ UNCHANGED secretServer
        \/ \E s \in Secrets : \E obj : SetSecret(s, obj)
    BY <1>2 DEF Environment, ApplyManifest, DeleteGitSecret, DeleteLegacy, ChangeSecret,
           Collect, server
  <2>4. \A g \in GitSecrets : GitSecretKept(g) \/ GitSecretWritten(g)
    BY <2>1, <2>2, SetGitSecretEvents, NoEvents DEF caches
  <2>5. \A s \in Secrets : SecretKept(s) \/ SecretWritten(s)
    BY <2>1, <2>3, SetSecretEvents, NoEvents DEF caches
  <2>. QED BY <2>4, <2>5 DEF Events
<1>3. ASSUME NEW g \in GitSecrets, ObserveGitSecret(g) PROVE Events
  <2>1. UNCHANGED <<gitsecrets, secretServer, secretCache>> /\ g \in queue'
    BY <1>3 DEF ObserveGitSecret
  <2>2. PICK e \in Oldest(gsWatch[g]) : /\ gsCache' = [gsCache EXCEPT ![g] = e]
                                        /\ gsWatch' = [gsWatch EXCEPT ![g] = @ \ {e}]
    BY <1>3 DEF ObserveGitSecret
  <2>3. GitSecretSeen(g)
    BY <2>1, <2>2 DEF GitSecretSeen, TypeOK
  <2>4. \A h \in GitSecrets \ {g} : GitSecretKept(h)
    BY <2>1, <2>2 DEF GitSecretKept, TypeOK
  <2>. QED BY <2>1, <2>3, <2>4, NoEvents DEF Events
<1>4. ASSUME NEW s \in Secrets, ObserveSecret(s) PROVE Events
  <2>1. UNCHANGED <<gsServer, secrets, gsCache>>
    BY <1>4 DEF ObserveSecret
  <2>2. PICK e \in Oldest(secretWatch[s]) :
            /\ secretCache' = [secretCache EXCEPT ![s] = e]
            /\ secretWatch' = [secretWatch EXCEPT ![s] = @ \ {e}]
            /\ queue' = queue \cup Controllers(secretCache[s]) \cup Controllers(e)
    BY <1>4 DEF ObserveSecret
  <2>3. SecretSeen(s)
    BY <2>1, <2>2 DEF SecretSeen, TypeOK
  <2>4. \A t \in Secrets \ {s} : SecretKept(t)
    BY <2>1, <2>2 DEF SecretKept, TypeOK
  <2>. QED BY <2>1, <2>3, <2>4, NoEvents DEF Events
<1>5. CASE Resync \/ UNCHANGED vars
  <2>1. UNCHANGED <<gsServer, gsCache, secretServer, secretCache>>
    BY <1>5 DEF Resync, vars, server, caches
  <2>. QED BY <2>1, NoEvents DEF Events
<1>. QED BY <1>1, <1>2, <1>3, <1>4, <1>5 DEF Next, Manager

\* Only being fetched takes a name from the queue, short of a restart.
LEMMA StepQueue ==
    ASSUME [Next]_vars, ~Restart, NEW g \in GitSecrets, g \in queue, g \notin queue'
    PROVE  Fetch(g)
<1>1. ASSUME NEW q, NEW j, NEW reason, NEW err, NEW h, Return(q, h, err) \/ Report(q, j, reason, err)
      PROVE  q \subseteq queue'
  BY <1>1 DEF Report, Return
<1>2. ASSUME NEW h \in GitSecrets, Fetch(h) PROVE queue \ {h} \subseteq queue'
  BY <1>1, <1>2 DEF Fetch
<1>3. CASE Guard
  BY <1>1, <1>3 DEF Guard
<1>4. CASE Release
  <2>1. queue' = queue \/ Return(queue, job.name, TRUE)
    BY <1>4 DEF Release
  <2>. QED BY <1>1, <2>1
<1>5. CASE Lookup
  BY <1>1, <1>5 DEF Lookup
<1>6. CASE Write
  <2>1. queue' = queue \/ Report(queue, job, "ApplyFailed", TRUE)
    BY <1>6 DEF Write
  <2>. QED BY <1>1, <2>1
<1>7. CASE StatusWrite
  <2>1. \E err : Return(queue, job.name, err)
    BY <1>7 DEF StatusWrite
  <2>. QED BY <1>1, <2>1
<1>8. CASE Manager \/ Environment \/ (\E s \in Secrets : Collect(s)) \/ UNCHANGED vars
  BY <1>8 DEF Manager, ObserveGitSecret, ObserveSecret, Resync, Environment, ApplyManifest,
         DeleteGitSecret, DeleteLegacy, ChangeSecret, Collect, UnchangedByUsers, vars
<1>. QED BY <1>2, <1>3, <1>4, <1>5, <1>6, <1>7, <1>8 DEF Next, Reconcile

-----------------------------------------------------------------------------
(* The newest version is always on its way. *)

\* An empty watch means an up-to-date cache.
LEMMA StepDelivered ==
    ASSUME Inv, Delivered, [Next]_vars
    PROVE  Delivered'
<1>1. CASE Restart
  BY <1>1 DEF Restart, Delivered, Inv, TypeOK
<1>2. CASE ~Restart
  <2>. TypeOK /\ Events
    BY <1>2, StepEvents DEF Inv
  <2>1. ASSUME NEW g \in GitSecrets
        PROVE  \/ gitsecrets'[g] \in gsWatch'[g]
               \/ gsWatch'[g] = {} /\ gsCache'[g] = gitsecrets'[g]
    <3>1. CASE GitSecretSeen(g)
      <4>1. PICK e \in gsWatch[g] : /\ \A f \in gsWatch[g] : e.rv <= f.rv
                                    /\ gsCache'[g] = e /\ gsWatch'[g] = gsWatch[g] \ {e}
        BY <3>1 DEF GitSecretSeen, Oldest
      <4>2. gitsecrets[g] \in gsWatch[g] /\ gitsecrets'[g] = gitsecrets[g]
        BY <3>1, <4>1 DEF GitSecretSeen, Delivered
      <4>3. \A f \in gsWatch[g] : SameOrOlder(f, gitsecrets[g]) /\ f.rv \in Nat
        BY DEF Inv, CopiesInv, GSCopies, TypeOK, Entries
      <4>4. e = gitsecrets[g] => gsWatch[g] = {e}
        BY <4>1, <4>2, <4>3 DEF SameOrOlder
      <4>. QED BY <4>1, <4>2, <4>4
    <3>. QED BY <3>1 DEF Events, GitSecretKept, GitSecretWritten, Delivered
  <2>2. ASSUME NEW s \in Secrets
        PROVE  \/ secrets'[s] \in secretWatch'[s]
               \/ secretWatch'[s] = {} /\ secretCache'[s] = secrets'[s]
    <3>1. CASE SecretSeen(s)
      <4>1. PICK e \in secretWatch[s] : /\ \A f \in secretWatch[s] : e.rv <= f.rv
                                        /\ secretCache'[s] = e
                                        /\ secretWatch'[s] = secretWatch[s] \ {e}
        BY <3>1 DEF SecretSeen, Oldest
      <4>2. secrets[s] \in secretWatch[s] /\ secrets'[s] = secrets[s]
        BY <3>1, <4>1 DEF SecretSeen, Delivered
      <4>3. \A f \in secretWatch[s] : SameOrOlder(f, secrets[s]) /\ f.rv \in Nat
        BY DEF Inv, CopiesInv, SecretCopies, TypeOK, Entries
      <4>4. e = secrets[s] => secretWatch[s] = {e}
        BY <4>1, <4>2, <4>3 DEF SameOrOlder
      <4>. QED BY <4>1, <4>2, <4>4
    <3>. QED BY <3>1 DEF Events, SecretKept, SecretWritten, Delivered
  <2>. QED BY <2>1, <2>2 DEF Delivered
<1>. QED BY <1>1, <1>2

\* An object that nothing will bring the worker back to was so before the step,
\* unless the step fetched it.
LEMMA StillCurrent ==
    ASSUME Inv, Delivered, [Next]_vars, NEW g \in GitSecrets, Current(g)'
    PROVE  /\ ~Restart
           /\ gitsecrets'[g] = gitsecrets[g]
           /\ gsWatch[g] = {} /\ gsCache[g] = gitsecrets[g]
           /\ Current(g) \/ Fetch(g)
<1>. TypeOK
  BY DEF Inv
<1>1. ~Restart
  BY DEF Restart, Live, Current
<1>2. GitSecretKept(g)
  BY <1>1, StepEvents DEF Events, GitSecretWritten, GitSecretSeen, Current
<1>3. gsWatch[g] = {} /\ gsCache[g] = gitsecrets[g]
  BY <1>2 DEF GitSecretKept, Current, Delivered
<1>4. g \in queue => Fetch(g)
  BY <1>1, StepQueue DEF Current
<1>. QED BY <1>1, <1>2, <1>3, <1>4 DEF GitSecretKept, Current

-----------------------------------------------------------------------------
(* A settled object stays settled. *)

\* The target of a well-formed GitSecret is a Secret.
LEMMA TargetOfType ==
    ASSUME TypeOK, NEW g \in GitSecrets, gitsecrets[g].obj # None
    PROVE  /\ TargetOf(g) \in Secrets
           /\ gitsecrets[g].obj \in GSObjects
           /\ Ref(g, gitsecrets[g].obj.uid) \in Owners
<1>1. gitsecrets[g].obj \in GSObjects
  BY DEF TypeOK, Entries
<1>. QED BY <1>1, ConstantsAssumption DEF TargetOf, GSObjects, Ref, Owners

\* The owner of an owned Secret is the one an event on it enqueues.
LEMMA OwnerIsController ==
    ASSUME NEW g \in GitSecrets, NEW uid \in Nat, NEW entry, OwnedBy(entry, Ref(g, uid))
    PROVE  g \in Controllers(entry)
<1>1. Ref(g, uid) \in Owners
  BY DEF Ref, Owners
<1>2. Ref(g, uid) # None
  BY <1>1, ConstantsAssumption
<1>. QED BY <1>2 DEF OwnedBy, Controllers, Ref

\* While nothing of its own brings the worker back to an object, its target stays
\* as it was, or what happens to it will.
LEMMA StaysSettled ==
    ASSUME Inv, Delivered, [Next]_vars, NEW g \in GitSecrets, Current(g)', Settled(g)
    PROVE  Settled(g)'
<1>. DEFINE s == TargetOf(g)
<1>. TypeOK /\ gitsecrets'[g] = gitsecrets[g] /\ gitsecrets[g].obj # None /\ g \notin queue'
  BY StillCurrent DEF Inv, Current
<1>1. s \in Secrets /\ s' = s /\ gitsecrets[g].obj.uid \in Nat
  BY TargetOfType DEF TargetOf, GSObjects
<1>2. SecretKept(s) \/ SecretWritten(s) \/ SecretSeen(s)
  BY <1>1, StillCurrent, StepEvents DEF Events
<1>3. InSync(g) => \E e \in {secretCache[s]} \cup secretWatch[s] : g \in Controllers(e)
  <2>. SUFFICES ASSUME InSync(g) PROVE g \in Controllers(secrets[s])
    BY <1>1 DEF Delivered
  <2>. QED BY <1>1, OwnerIsController DEF InSync, OwnsTarget
<1>4. Settled(g)' <=> InSync(g)' \/ WillWake(g, s)'
  BY DEF Settled
<1>5. WillWake(g, s)' <=> /\ secretWatch'[s] # {}
                          /\ \E e \in {secretCache'[s]} \cup secretWatch'[s] : g \in Controllers(e)
  BY <1>1 DEF WillWake, Controllers
<1>6. secrets'[s] = secrets[s] /\ InSync(g) => InSync(g)'
  BY <1>1 DEF InSync, OwnsTarget, OwnedBy, Ref
<1>7. CASE SecretKept(s)
  BY <1>4, <1>5, <1>6, <1>7 DEF Settled, WillWake, SecretKept
<1>8. CASE SecretWritten(s)
  <2>1. \E e \in {secretCache[s]} \cup secretWatch[s] : g \in Controllers(e)
    BY <1>3 DEF Settled, WillWake
  <2>. QED BY <1>4, <1>5, <1>8, <2>1 DEF SecretWritten
<1>9. CASE SecretSeen(s)
  <2>1. PICK e \in secretWatch[s] :
            /\ secretCache'[s] = e /\ secretWatch'[s] = secretWatch[s] \ {e}
            /\ Controllers(secretCache[s]) \cup Controllers(e) \subseteq queue'
    BY <1>9 DEF SecretSeen, Oldest
  <2>2. g \notin Controllers(secretCache[s]) /\ g \notin Controllers(e)
    BY <2>1
  <2>3. CASE InSync(g)
    BY <1>4, <1>6, <1>9, <2>3 DEF SecretSeen
  <2>4. CASE WillWake(g, s)
    <3>1. PICK f \in secretWatch[s] \ {e} : g \in Controllers(f)
      BY <2>2, <2>4 DEF WillWake
    <3>. QED BY <1>4, <1>5, <2>1, <3>1
  <2>. QED BY <2>3, <2>4 DEF Settled
<1>. QED BY <1>2, <1>7, <1>8, <1>9

\* Only the reconcile of an object makes a Secret the object's.
LEMMA OwnershipIsTaken ==
    ASSUME Inv, [Next]_vars, NEW s \in Secrets, NEW g \in GitSecrets, NEW uid \in Nat,
           OwnedBy(secrets[s], Ref(g, uid))', ~OwnedBy(secrets[s], Ref(g, uid))
    PROVE  Write /\ job.name = g
<1>. DEFINE ref == Ref(g, uid)
<1>. TypeOK
  BY DEF Inv
<1>1. secrets'[s] # secrets[s] /\ secrets'[s].obj # None /\ secrets'[s].obj.owner = ref
  BY DEF OwnedBy, Ref
<1>2. ref # None /\ ref.kind = "GitSecret" /\ ref.name = g
  <2>1. ref \in Owners
    BY DEF Ref, Owners
  <2>. QED BY <2>1, ConstantsAssumption DEF Ref
<1>. HIDE DEF ref
<1>3. ASSUME Release PROVE FALSE
  <2>. DEFINE obj == [job.existing.obj EXCEPT !.owner = None]
  <2>1. Target \in Secrets /\ UNCHANGED secretCache /\ job.existing \in Entries(SecretObjects)
    BY <1>3, TargetType DEF Release, caches, TypeOK, Jobs
  <2>2. SetSecret(Target, obj)
    BY <1>1, <1>3 DEF Release, secretServer
  <2>3. obj.owner = None
    BY <1>3, <2>1 DEF Inv, JobInv, Release, ownedByLegacyNamesake, Entries, SecretObjects
  <2>. HIDE DEF obj
  <2>. QED BY <1>1, <1>2, <2>1, <2>2, <2>3, SetSecretMove
<1>4. ASSUME Write PROVE job.name = g
  <2>. DEFINE obj == [owner |-> Self, data |-> job.gs.obj.spec.sealed]
  <2>1. Target \in Secrets /\ UNCHANGED secretCache
    BY <1>4, TargetType DEF Write, caches
  <2>2. SetSecret(Target, obj)
    BY <1>1, <1>4 DEF Write, secretServer
  <2>3. obj.owner = Self
    OBVIOUS
  <2>. HIDE DEF obj
  <2>4. ref = Self
    BY <1>1, <2>1, <2>2, <2>3, SetSecretMove
  <2>. QED BY <1>2, <2>4 DEF Self, Ref
<1>5. ASSUME NEW t \in Secrets, ChangeSecret(t) PROVE FALSE
  <2>. DEFINE marred == [secrets[t].obj EXCEPT !.data = Alien]
  <2>1. UNCHANGED secretCache
    BY <1>5 DEF ChangeSecret, UnchangedByUsers, caches
  <2>2. ASSUME NEW owner \in {None} \cup {OtherOwner(h) : h \in GitSecrets},
               SetSecret(t, [owner |-> owner, data |-> Alien])
        PROVE  FALSE
    <3>1. secrets'[s].obj = [owner |-> owner, data |-> Alien]
      BY <1>1, <2>1, <2>2, SetSecretMove
    <3>. QED BY <1>1, <1>2, <3>1 DEF OtherOwner
  <2>3. ASSUME secrets[t].obj # None, SetSecret(t, marred) PROVE FALSE
    <3>1. marred.owner = secrets[t].obj.owner
      BY <2>3 DEF TypeOK, Entries, SecretObjects
    <3>. HIDE DEF marred
    <3>2. s = t /\ secrets'[s].obj = marred
      BY <1>1, <2>1, <2>3, SetSecretMove
    <3>. QED BY <1>1, <2>3, <3>1, <3>2 DEF OwnedBy, ref
  <2>4. ASSUME SetSecret(t, None) PROVE FALSE
    BY <1>1, <2>1, <2>4, SetSecretMove
  <2>. QED BY <1>5, <2>2, <2>3, <2>4 DEF ChangeSecret
<1>6. ASSUME NEW t \in Secrets, Collect(t) PROVE FALSE
  BY <1>1, <1>6, SetSecretMove DEF Collect, UnchangedByUsers, caches
<1>7. \/ Release \/ Write
      \/ \E t \in Secrets : ChangeSecret(t) \/ Collect(t)
  <2>1. CASE Reconcile
    BY <1>1, <2>1 DEF Reconcile, Fetch, Guard, Lookup, StatusWrite, server, secretServer
  <2>2. CASE Manager \/ Restart
    BY <1>1, <2>2 DEF Manager, ObserveGitSecret, ObserveSecret, Resync, Restart, server,
           secretServer
  <2>3. CASE Environment
    BY <1>1, <2>3 DEF Environment, ApplyManifest, DeleteGitSecret, DeleteLegacy, server,
           secretServer
  <2>4. CASE UNCHANGED vars
    BY <1>1, <2>4 DEF vars, server, secretServer
  <2>. QED BY <2>1, <2>2, <2>3, <2>4 DEF Next
<1>. QED BY <1>3, <1>4, <1>5, <1>6, <1>7

\* So what excuses the worker goes on excusing it, until it writes the Secret.
LEMMA StaysExcused ==
    ASSUME Inv, Delivered, [Next]_vars, NEW g \in GitSecrets, Current(g)',
           ~(Write /\ job.name = g)
    PROVE  /\ (OwnsTarget(g) => Settled(g)) => (OwnsTarget(g) => Settled(g))'
           /\ \A reason : Excused(g, reason) => Excused(g, reason)'
<1>. TypeOK /\ gitsecrets'[g] = gitsecrets[g] /\ gitsecrets[g].obj # None
  BY StillCurrent DEF Inv, Current
<1>1. /\ TargetOf(g) \in Secrets /\ gitsecrets[g].obj.uid \in Nat
      /\ TargetOf(g)' = TargetOf(g)
  BY TargetOfType DEF TargetOf, GSObjects
<1>2. OwnsTarget(g)' => OwnsTarget(g)
  <2>. SUFFICES ASSUME OwnsTarget(g)', ~OwnsTarget(g) PROVE FALSE
    OBVIOUS
  <2>. DEFINE s == TargetOf(g)
              uid == gitsecrets[g].obj.uid
  <2>1. OwnedBy(secrets[s], Ref(g, uid))' /\ ~OwnedBy(secrets[s], Ref(g, uid))
    BY <1>1 DEF OwnsTarget
  <2>2. uid' = uid /\ s' = s
    BY <1>1
  <2>. HIDE DEF s, uid
  <2>. QED BY <1>1, <2>1, <2>2, OwnershipIsTaken DEF OwnedBy, Ref, s, uid
<1>3. Settled(g) => Settled(g)'
  BY StaysSettled
<1>. QED BY <1>2, <1>3 DEF Excused, Unseals

-----------------------------------------------------------------------------
(* How a call ends. *)

\* A failure path returns, when its condition is on record already, or goes to
\* the status step with it.
LEMMA ReportVerdict ==
    ASSUME NEW q, NEW j \in Jobs, NEW reason, NEW err \in BOOLEAN,
           j.gs.obj \in GSObjects, Report(q, j, reason, err)
    PROVE  \/ /\ pc' = "idle" /\ job' = NoJob
              /\ err => j.name \in queue'
              /\ j.gs.obj.status.reason = reason /\ j.gs.obj.status.at = j.gs.obj.gen
           \/ /\ pc' = "status" /\ job'.name = j.name /\ job'.gs = j.gs
              /\ job'.status.reason = reason /\ job'.status.at = j.gs.obj.gen
              /\ job'.retry = err
<1>. DEFINE status == setCondition(j.gs.obj.status, j.gs.obj, reason)
<1>1. status.reason = reason /\ status.at = j.gs.obj.gen
  BY DEF setCondition, GSObjects, Statuses
<1>2. [j EXCEPT !.status = status, !.retry = err].name = j.name
      /\ [j EXCEPT !.status = status, !.retry = err].gs = j.gs
      /\ [j EXCEPT !.status = status, !.retry = err].status = status
      /\ [j EXCEPT !.status = status, !.retry = err].retry = err
  <2>. HIDE DEF status
  <2>. QED BY DEF Jobs
<1>3. \/ status = j.gs.obj.status /\ Return(q, j.name, err)
      \/ pc' = "status" /\ job' = [j EXCEPT !.status = status, !.retry = err]
  BY DEF Report
<1>. HIDE DEF status
<1>. QED BY <1>1, <1>2, <1>3 DEF Return

WorkerStep(g) ==
    \/ Fetch(g)
    \/ Working(g) /\ (Guard \/ Release \/ Lookup \/ Write \/ StatusWrite)

\* The worker is done with the object, or about to record that it is.
Concluded(g, reason) ==
    \/ /\ pc' = "idle"
       /\ gitsecrets[g].obj.status.at = gitsecrets[g].obj.gen
       /\ gitsecrets[g].obj.status.reason = reason
    \/ /\ pc' = "status" /\ job'.name = g /\ job'.gs = gitsecrets[g]
       /\ job'.status.reason = reason

\* What a step of the worker leaves behind: work in hand, a call that will be
\* repeated, a conclusion that is excused, or one whose record failed.
Verdict(g) ==
    \/ /\ pc' \in {"guard", "release", "lookup", "write"}
       /\ job'.name = g /\ job'.gs = gitsecrets[g]
    \/ pc' = "status" /\ job'.name = g /\ job'.gs = gitsecrets[g] /\ job'.retry
    \/ \E reason : Concluded(g, reason) /\ Excused(g, reason)'
    \/ pc' = "idle" /\ "api" \in FaultKinds /\ \E reason : Excused(g, reason)'

\* Fetch stops only at an object that does not unseal.
LEMMA FetchVerdict ==
    ASSUME WakeInv, [Next]_vars, NEW g \in GitSecrets, Current(g)', Fetch(g)
    PROVE  Verdict(g)
<1>. DEFINE locals == [NoJob EXCEPT !.name = g, !.gs = gsCache[g]]
            obj == gitsecrets[g].obj
<1>1. /\ gsCache[g] = gitsecrets[g] /\ obj # None /\ TypeOK
      /\ gitsecrets'[g] = gitsecrets[g] /\ g \notin queue'
  BY StillCurrent DEF WakeInv, Inv, Current
<1>2. obj \in GSObjects
  BY <1>1 DEF TypeOK, Entries
<1>3. locals \in Jobs /\ locals.name = g /\ locals.gs = gitsecrets[g]
  BY <1>1, NoJobType DEF NoJob, Jobs, TypeOK
<1>. HIDE DEF locals
<1>4. \/ pc' = "guard" /\ job' = locals
      \/ /\ "gpg" \in FaultKinds \/ ~Unseals(obj.spec)
         /\ Report(queue \ {g}, locals, "UnsealFailed", FALSE)
      \/ Return(queue \ {g}, g, TRUE)
  BY <1>1 DEF Fetch, GpgFault, locals
<1>5. ~Return(queue \ {g}, g, TRUE)
  BY <1>1 DEF Return
<1>6. CASE pc' = "guard" /\ job' = locals
  BY <1>3, <1>6 DEF Verdict
<1>7. CASE /\ "gpg" \in FaultKinds \/ ~Unseals(obj.spec)
           /\ Report(queue \ {g}, locals, "UnsealFailed", FALSE)
  <2>1. Excused(g, "UnsealFailed")'
    BY <1>1, <1>7 DEF Excused, Unseals
  <2>2. Concluded(g, "UnsealFailed")
    BY <1>2, <1>3, <1>7, ReportVerdict DEF Concluded
  <2>. QED BY <2>1, <2>2 DEF Verdict
<1>. QED BY <1>4, <1>5, <1>6, <1>7

\* The reconcile of an object works from it, on its target, in its name.
LEMMA WorksFromCurrent ==
    ASSUME WakeInv, [Next]_vars, NEW g \in GitSecrets, Current(g)', Working(g)
    PROVE  /\ Current(g) /\ job.name = g /\ job.gs = gitsecrets[g] /\ job \in Jobs
           /\ job.gs.obj \in GSObjects
           /\ gitsecrets'[g] = gitsecrets[g] /\ g \notin queue'
           /\ Target = TargetOf(g) /\ TargetOf(g) \in Secrets
           /\ Self = Ref(g, gitsecrets[g].obj.uid)
<1>1. Current(g) /\ gitsecrets'[g] = gitsecrets[g] /\ TypeOK
  BY StillCurrent DEF WakeInv, Inv, Fetch, Working
<1>2. job.gs = gitsecrets[g] /\ job.name = g /\ pc # "idle"
  BY <1>1 DEF WakeInv, JobCurrent, Working
<1>. QED
  BY <1>1, <1>2, TargetOfType DEF Current, Target, TargetOf, Self, TypeOK

\* Guard stops only at a Secret that is not the object's, or is so no longer.
LEMMA GuardVerdict ==
    ASSUME WakeInv, [Next]_vars, NEW g \in GitSecrets, Current(g)', Working(g), Guard
    PROVE  Verdict(g)
<1>. DEFINE existing == secretCache[Target]
            locals == [job EXCEPT !.existing = existing]
<1>. HIDE DEF existing
<1>1. /\ job.name = g /\ job.gs = gitsecrets[g] /\ job \in Jobs /\ job.gs.obj \in GSObjects
      /\ gitsecrets'[g] = gitsecrets[g] /\ g \notin queue'
      /\ Target = TargetOf(g) /\ TargetOf(g) \in Secrets
      /\ Self = Ref(g, gitsecrets[g].obj.uid)
  BY WorksFromCurrent
<1>2. locals.name = g /\ locals.gs = gitsecrets[g] /\ locals \in Jobs
  BY <1>1 DEF Jobs, existing, WakeInv, Inv, TypeOK
<1>. HIDE DEF locals
<1>3. \/ pc' \in {"release", "lookup"} /\ job' = locals
      \/ ~MayTake(existing) /\ Report(queue, locals, "TargetConflict", FALSE)
      \/ Return(queue, g, TRUE)
  BY <1>1 DEF Guard, locals, existing
<1>4. ~Return(queue, g, TRUE)
  BY <1>1 DEF Return
<1>5. CASE pc' \in {"release", "lookup"} /\ job' = locals
  BY <1>2, <1>5 DEF Verdict
<1>6. CASE ~MayTake(existing) /\ Report(queue, locals, "TargetConflict", FALSE)
  <2>1. OwnsTarget(g) => Settled(g)
    <3>. SUFFICES ASSUME OwnsTarget(g) PROVE WillWake(g, TargetOf(g))
      BY DEF Settled
    <3>1. secrets[TargetOf(g)] # existing
      BY <1>1, <1>6 DEF OwnsTarget, MayTake
    <3>2. secrets[TargetOf(g)] \in secretWatch[TargetOf(g)]
      BY <1>1, <3>1 DEF existing, WakeInv, Delivered
    <3>3. g \in Controllers(secrets[TargetOf(g)])
      BY <1>1, OwnerIsController DEF OwnsTarget, GSObjects
    <3>. QED BY <3>2, <3>3 DEF WillWake
  <2>2. Excused(g, "TargetConflict")
    BY <2>1 DEF Excused
  <2>3. Excused(g, "TargetConflict")'
    BY <2>2, StaysExcused DEF WakeInv, Guard, Write
  <2>4. Concluded(g, "TargetConflict")
    BY <1>1, <1>2, <1>6, ReportVerdict DEF Concluded
  <2>. QED BY <2>3, <2>4 DEF Verdict
<1>. QED BY <1>3, <1>4, <1>5, <1>6

\* Release goes on or is repeated; so is a Lookup that fails.
LEMMA ReleaseLookupVerdict ==
    ASSUME WakeInv, [Next]_vars, NEW g \in GitSecrets, Current(g)', Working(g),
           Release \/ Lookup
    PROVE  Verdict(g)
<1>. DEFINE locals == [job EXCEPT !.read = secretCache[Target]]
<1>1. /\ job.name = g /\ job.gs = gitsecrets[g] /\ job \in Jobs /\ job.gs.obj \in GSObjects
      /\ g \notin queue'
  BY WorksFromCurrent
<1>2. locals.name = g /\ locals.gs = gitsecrets[g]
  BY <1>1 DEF Jobs
<1>. HIDE DEF locals
<1>3. \/ pc' = "lookup" /\ job' = job
      \/ pc' = "write" /\ job' = locals
      \/ Return(queue, g, TRUE)
      \/ Report(queue, job, "ApplyFailed", TRUE)
  BY <1>1 DEF Release, Lookup, locals
<1>4. ~Return(queue, g, TRUE)
  BY <1>1 DEF Return
<1>5. CASE Report(queue, job, "ApplyFailed", TRUE)
  BY <1>1, <1>5, ReportVerdict DEF Verdict
<1>. QED BY <1>1, <1>2, <1>3, <1>4, <1>5 DEF Verdict

\* Write leaves the target in sync, or is repeated.
LEMMA WriteVerdict ==
    ASSUME WakeInv, [Next]_vars, NEW g \in GitSecrets, Current(g)', Working(g), Write
    PROVE  Verdict(g)
<1>. DEFINE gs == job.gs.obj
            status == [setCondition(gs.status, gs, "Synced") EXCEPT
                          !.observed = gs.gen, !.synced = clock']
            done == [job EXCEPT !.status = status, !.retry = FALSE,
                                !.wrote = secrets' # secrets]
            obj == [owner |-> Self, data |-> gs.spec.sealed]
<1>1. /\ job.name = g /\ job.gs = gitsecrets[g] /\ job \in Jobs /\ gs \in GSObjects
      /\ gitsecrets'[g] = gitsecrets[g] /\ g \notin queue'
      /\ Target = TargetOf(g) /\ TargetOf(g) \in Secrets
      /\ Self = Ref(g, gitsecrets[g].obj.uid)
  BY WorksFromCurrent
<1>2. status.reason = "Synced"
  BY <1>1 DEF setCondition, GSObjects, Statuses
<1>3. done.name = g /\ done.gs = gitsecrets[g] /\ done.status = status
  <2>. HIDE DEF status
  <2>. QED BY <1>1 DEF Jobs
<1>4. \/ SetSecret(Target, obj) /\ pc' = "status" /\ job' = done
      \/ Report(queue, job, "ApplyFailed", TRUE)
  BY DEF Write
<1>. HIDE DEF status, done, obj
<1>5. CASE Report(queue, job, "ApplyFailed", TRUE)
  BY <1>1, <1>5, ReportVerdict DEF Verdict
<1>6. CASE SetSecret(Target, obj) /\ pc' = "status" /\ job' = done
  <2>1. secrets'[TargetOf(g)].obj = obj
    BY <1>1, <1>6 DEF SetSecret, Put, WakeInv, Inv, TypeOK
  <2>2. obj.owner = Self /\ obj.data = gs.spec.sealed /\ obj # None
    <3>1. obj \in SecretObjects
      <4>1. Unseals(gs.spec) /\ Self \in Owners
        BY TargetType DEF WakeInv, Inv, JobInv, Write
      <4>. QED BY <4>1 DEF obj, Unseals, SecretObjects
    <3>. QED BY <3>1, ConstantsAssumption DEF obj
  <2>3. InSync(g)'
    BY <1>1, <2>1, <2>2 DEF InSync, OwnsTarget, OwnedBy, TargetOf, Ref
  <2>4. Excused(g, "Synced")'
    BY <2>3 DEF Excused, Settled
  <2>5. Concluded(g, "Synced")
    BY <1>2, <1>3, <1>6 DEF Concluded
  <2>. QED BY <2>4, <2>5 DEF Verdict
<1>. QED BY <1>4, <1>5, <1>6

\* StatusWrite puts on record what the call has concluded: that it already is, or
\* the write is refused or fails.
LEMMA StatusWriteVerdict ==
    ASSUME WakeInv, [Next]_vars, NEW g \in GitSecrets, Current(g)', Working(g), StatusWrite
    PROVE  Verdict(g)
<1>1. /\ Current(g) /\ job.name = g /\ job.gs = gitsecrets[g] /\ job \in Jobs
      /\ job.gs.obj \in GSObjects
      /\ gitsecrets'[g] = gitsecrets[g] /\ g \notin queue'
  BY WorksFromCurrent
<1>2. pc = "status" /\ job.status.at = job.gs.obj.gen /\ TypeOK
  BY DEF StatusWrite, WakeInv, StatusStep, Inv
<1>3. pc' = "idle" /\ ~job.retry
  <2>1. Return(queue, g, job.retry) \/ Return(queue, g, job.retry \/ job.status.reason = "Synced")
    BY <1>1 DEF StatusWrite
  <2>. QED BY <1>1, <2>1 DEF Return
<1>4. Excused(g, job.status.reason)
  BY <1>1, <1>2, <1>3 DEF WakeInv, StatusStep
<1>5. \A reason : reason = job.status.reason => Excused(g, reason)'
  BY <1>1, <1>2, <1>4, StaysExcused DEF WakeInv, StatusWrite, Write
<1>6. CASE "api" \in FaultKinds
  BY <1>3, <1>5, <1>6 DEF Verdict
<1>7. CASE "api" \notin FaultKinds
  <2>. DEFINE obj == [gitsecrets[g].obj EXCEPT !.status = job.status]
  <2>1. StatusIsCurrent /\ SetGitSecret(g, obj)
    BY <1>1, <1>7 DEF StatusWrite, StatusIsCurrent, ApiFault
  <2>2. obj.status = job.status
    BY <1>1 DEF GSObjects
  <2>. HIDE DEF obj
  <2>3. gitsecrets[g].obj = obj
    <3>1. gitsecrets[g].rv \in Nat /\ gitsecrets'[g] = Put(gitsecrets[g], obj)
      BY <1>2, <2>1 DEF SetGitSecret, TypeOK, Entries
    <3>. QED BY <1>1, <3>1 DEF Put
  <2>4. Concluded(g, job.status.reason)
    BY <1>1, <1>2, <1>3, <2>2, <2>3 DEF Concluded
  <2>. QED BY <1>5, <2>4 DEF Verdict
<1>. QED BY <1>6, <1>7


\* Whatever the step, the worker leaves the object as Verdict says.
LEMMA WorkerVerdict ==
    ASSUME WakeInv, [Next]_vars, NEW g \in GitSecrets, Current(g)', WorkerStep(g)
    PROVE  Verdict(g)
BY FetchVerdict, GuardVerdict, ReleaseLookupVerdict, WriteVerdict, StatusWriteVerdict
   DEF WorkerStep

\* Any other step leaves the worker where it was with this object.
LEMMA OtherStep ==
    ASSUME WakeInv, [Next]_vars, NEW g \in GitSecrets, Current(g)', ~WorkerStep(g)
    PROVE  /\ Current(g)
           /\ Working(g)' <=> Working(g)
           /\ Working(g) => UNCHANGED <<pc, job>>
           /\ ~(Write /\ job.name = g)
<1>1. Current(g) /\ ~Restart /\ TypeOK
  BY StillCurrent DEF WakeInv, Inv, WorkerStep
<1>2. ~(Write /\ job.name = g)
  BY DEF WorkerStep, Working, Write
<1>3. CASE UNCHANGED <<pc, job>>
  BY <1>1, <1>2, <1>3 DEF Working
<1>4. ASSUME NEW h \in GitSecrets, Fetch(h)
      PROVE  ~Working(g) /\ ~Working(g)'
  <2>. DEFINE locals == [NoJob EXCEPT !.name = h, !.gs = gsCache[h]]
  <2>1. h # g /\ pc = "idle"
    BY <1>4 DEF WorkerStep, Fetch
  <2>2. locals \in Jobs /\ locals.name = h
    BY <1>1, NoJobType DEF NoJob, Jobs, TypeOK
  <2>. HIDE DEF locals
  <2>3. \/ UNCHANGED <<pc, job>>
        \/ pc' = "guard" /\ job' = locals
        \/ Report(queue \ {h}, locals, "UnsealFailed", FALSE)
        \/ pc' = "idle"
    BY <1>4 DEF Fetch, Return, locals
  <2>. QED BY <2>1, <2>2, <2>3, ReportSteps DEF Working
<1>5. CASE Guard \/ Release \/ Lookup \/ Write \/ StatusWrite
  <2>1. ~Working(g) /\ pc # "idle"
    BY <1>5 DEF WorkerStep, Guard, Release, Lookup, Write, StatusWrite
  <2>2. job.name # g
    BY <2>1 DEF Working
  <2>3. pc' = "idle" \/ job'.name = job.name
    <3>1. job \in Jobs
      BY <1>1 DEF TypeOK
    <3>2. CASE Guard
      <4>. DEFINE locals == [job EXCEPT !.existing = secretCache[Target]]
      <4>1. locals.name = job.name /\ locals \in Jobs
        BY <1>1, <2>1, <3>1, TargetType DEF Jobs, TypeOK
      <4>. HIDE DEF locals
      <4>2. job' = locals \/ pc' = "idle" \/ Report(queue, locals, "TargetConflict", FALSE)
        BY <3>2 DEF Guard, Return, locals
      <4>. QED BY <4>1, <4>2, ReportSteps
    <3>3. CASE Release
      <4>1. UNCHANGED job \/ Return(queue, job.name, TRUE)
        BY <3>3 DEF Release
      <4>. QED BY <4>1 DEF Return
    <3>4. CASE Lookup
      <4>. DEFINE locals == [job EXCEPT !.read = secretCache[Target]]
      <4>1. locals.name = job.name
        BY <3>1 DEF Jobs
      <4>. HIDE DEF locals
      <4>2. job' = locals \/ Report(queue, job, "ApplyFailed", TRUE)
        BY <3>4 DEF Lookup, locals
      <4>. QED BY <3>1, <4>1, <4>2, ReportSteps
    <3>5. CASE Write
      <4>1. job'.name = job.name \/ Report(queue, job, "ApplyFailed", TRUE)
        BY <3>1, <3>5 DEF Write, Jobs
      <4>. QED BY <3>1, <4>1, ReportSteps
    <3>6. CASE StatusWrite
      BY <3>6 DEF StatusWrite, Return
    <3>. QED BY <1>5, <3>2, <3>3, <3>4, <3>5, <3>6
  <2>. QED BY <1>1, <1>2, <2>1, <2>2, <2>3 DEF Working
<1>6. CASE Manager \/ Environment \/ (\E s \in Secrets : Collect(s)) \/ UNCHANGED vars
  <2>1. UNCHANGED <<pc, job>>
    BY <1>6 DEF Manager, ObserveGitSecret, ObserveSecret, Resync, Environment, ApplyManifest,
           DeleteGitSecret, DeleteLegacy, ChangeSecret, Collect, UnchangedByUsers, vars
  <2>. QED BY <1>3, <2>1
<1>. QED BY <1>1, <1>2, <1>4, <1>5, <1>6 DEF Next, Reconcile

\* The condition to record is about the generation the reconcile works from.
LEMMA StepAt ==
    ASSUME WakeInv, [Next]_vars, pc' = "status"
    PROVE  job'.status.at = job'.gs.obj.gen
<1>. TypeOK /\ (pc = "status" => job.status.at = job.gs.obj.gen)
  BY DEF WakeInv, Inv, StatusStep
<1>0. ~Restart /\ ~StatusWrite /\ ~Release
  BY DEF Restart, StatusWrite, Release, Return
<1>1. CASE UNCHANGED <<pc, job>>
  BY <1>1
<1>2. ASSUME NEW g \in GitSecrets, Fetch(g) PROVE job'.status.at = job'.gs.obj.gen
  <2>. DEFINE locals == [NoJob EXCEPT !.name = g, !.gs = gsCache[g]]
  <2>1. locals \in Jobs /\ locals.gs = gsCache[g]
    BY NoJobType DEF NoJob, Jobs, TypeOK
  <2>. HIDE DEF locals
  <2>2. gsCache[g].obj # None /\ Report(queue \ {g}, locals, "UnsealFailed", FALSE)
    BY <1>2 DEF Fetch, Return, locals
  <2>3. gsCache[g].obj \in GSObjects
    BY <2>2 DEF TypeOK, Entries
  <2>. QED BY <2>1, <2>2, <2>3, ReportVerdict
<1>3. CASE Guard
  <2>. DEFINE locals == [job EXCEPT !.existing = secretCache[Target]]
  <2>1. locals \in Jobs /\ locals.gs = job.gs /\ job.gs.obj \in GSObjects
    BY <1>3, TargetType DEF Guard, Jobs, TypeOK
  <2>. HIDE DEF locals
  <2>2. Report(queue, locals, "TargetConflict", FALSE)
    BY <1>3 DEF Guard, Return, locals
  <2>. QED BY <2>1, <2>2, ReportVerdict
<1>4. CASE Lookup
  <2>1. job \in Jobs /\ job.gs.obj \in GSObjects /\ Report(queue, job, "ApplyFailed", TRUE)
    BY <1>4, TargetType DEF Lookup, TypeOK
  <2>. QED BY <2>1, ReportVerdict
<1>5. CASE Write
  <2>. DEFINE gs == job.gs.obj
              status == [setCondition(gs.status, gs, "Synced") EXCEPT
                            !.observed = gs.gen, !.synced = clock']
              done == [job EXCEPT !.status = status, !.retry = FALSE,
                                  !.wrote = secrets' # secrets]
  <2>1. job \in Jobs /\ gs \in GSObjects
    BY <1>5, TargetType DEF Write, TypeOK
  <2>2. status.at = gs.gen
    BY <2>1 DEF setCondition, GSObjects, Statuses
  <2>3. done.gs = job.gs /\ done.status = status
    <3>. HIDE DEF status
    <3>. QED BY <2>1 DEF Jobs
  <2>4. job' = done \/ Report(queue, job, "ApplyFailed", TRUE)
    BY <1>5 DEF Write
  <2>. HIDE DEF status, done
  <2>. QED BY <2>1, <2>2, <2>3, <2>4, ReportVerdict
<1>6. CASE Manager \/ Environment \/ (\E s \in Secrets : Collect(s)) \/ UNCHANGED vars
  <2>1. UNCHANGED <<pc, job>>
    BY <1>6 DEF Manager, ObserveGitSecret, ObserveSecret, Resync, Environment, ApplyManifest,
           DeleteGitSecret, DeleteLegacy, ChangeSecret, Collect, UnchangedByUsers, vars
  <2>. QED BY <1>1, <2>1
<1>. QED BY <1>0, <1>2, <1>3, <1>4, <1>5, <1>6 DEF Next, Reconcile

-----------------------------------------------------------------------------
(* What a quiet controller has done: theorems. *)

\* No controller starts with something it will not be brought back to.
LEMMA InitWake == Init => WakeInv /\ AllReported /\ AllOwnedSettled
<1>. SUFFICES ASSUME Init PROVE WakeInv /\ AllReported /\ AllOwnedSettled
  OBVIOUS
<1>1. Inv
  BY InitInv
<1>2. \A g \in GitSecrets : gitsecrets[g].obj = None
  BY DEF Init, NoEntry
<1>3. Delivered
  BY DEF Init, Delivered
<1>4. JobCurrent /\ StatusStep
  BY DEF Init, JobCurrent, Working, StatusStep
<1>. QED BY <1>1, <1>2, <1>3, <1>4 DEF WakeInv, AllReported, AllOwnedSettled, Current

\* The running reconcile stays current or will be repeated.
LEMMA StepWake == WakeInv /\ [Next]_vars => WakeInv'
<1>. SUFFICES ASSUME WakeInv, [Next]_vars PROVE WakeInv'
  OBVIOUS
<1>1. Inv' /\ Delivered'
  BY StepInv, StepDelivered DEF WakeInv
<1>2. ASSUME NEW g \in GitSecrets, Current(g)', Working(g)'
      PROVE  job'.gs = gitsecrets'[g]
  <2>1. gitsecrets'[g] = gitsecrets[g]
    BY <1>2, StillCurrent DEF WakeInv
  <2>2. CASE WorkerStep(g)
    <3>1. Verdict(g) /\ pc' # "idle"
      BY <1>2, <2>2, WorkerVerdict DEF Working
    <3>. QED BY <2>1, <3>1 DEF Verdict, Concluded
  <2>3. CASE ~WorkerStep(g)
    <3>1. Current(g) /\ Working(g) /\ job' = job
      BY <1>2, <2>3, OtherStep
    <3>. QED BY <2>1, <3>1 DEF WakeInv, JobCurrent
  <2>. QED BY <2>2, <2>3
<1>3. ASSUME NEW g \in GitSecrets, Current(g)', Working(g)', pc' = "status", ~job'.retry
      PROVE  Excused(g, job.status.reason)'
  <2>1. CASE WorkerStep(g)
    <3>1. Verdict(g)
      BY <1>3, <2>1, WorkerVerdict
    <3>2. PICK reason : Concluded(g, reason) /\ Excused(g, reason)'
      BY <1>3, <3>1 DEF Verdict
    <3>. QED BY <1>3, <3>2 DEF Concluded, Excused
  <2>2. CASE ~WorkerStep(g)
    <3>1. /\ Current(g) /\ Working(g) /\ pc' = pc /\ job' = job
          /\ ~(Write /\ job.name = g)
      BY <1>3, <2>2, OtherStep
    <3>2. Excused(g, job.status.reason)
      BY <1>3, <3>1 DEF WakeInv, StatusStep
    <3>3. \A reason : Excused(g, reason) => Excused(g, reason)'
      BY <1>3, <3>1, StaysExcused DEF WakeInv
    <3>. QED BY <3>1, <3>2, <3>3 DEF Excused
  <2>. QED BY <2>1, <2>2
<1>. QED BY <1>1, <1>2, <1>3, StepAt DEF WakeInv, JobCurrent, StatusStep

\* What the worker leaves is on record, unless the API fails.
LEMMA StepReported ==
    ASSUME "api" \notin FaultKinds, WakeInv, AllReported, [Next]_vars
    PROVE  AllReported'
<1>. SUFFICES ASSUME NEW g \in GitSecrets, Current(g)', ~Working(g)'
              PROVE  LET obj == gitsecrets'[g].obj
                     IN  obj.status.at = obj.gen /\ (Ready(obj) => Settled(g)')
  BY DEF AllReported, Ready
<1>1. gitsecrets'[g] = gitsecrets[g]
  BY StillCurrent DEF WakeInv
<1>2. CASE WorkerStep(g)
  <2>1. PICK reason : Concluded(g, reason) /\ Excused(g, reason)'
    BY <1>2, WorkerVerdict DEF Verdict, Working
  <2>2. /\ gitsecrets[g].obj.status.at = gitsecrets[g].obj.gen
        /\ gitsecrets[g].obj.status.reason = reason
    BY <2>1 DEF Concluded, Working
  <2>. QED BY <1>1, <2>1, <2>2 DEF Excused, Ready
<1>3. CASE ~WorkerStep(g)
  <2>1. Current(g) /\ ~Working(g)
    BY <1>3, OtherStep
  <2>2. Settled(g) => Settled(g)'
    BY StaysSettled DEF WakeInv
  <2>. QED BY <1>1, <2>1, <2>2 DEF AllReported
<1>. QED BY <1>2, <1>3

\* What the worker leaves of a Secret the object owns is in sync, or the worker
\* will be back, unless gpg fails on what it can open.
LEMMA StepOwned ==
    ASSUME "gpg" \notin FaultKinds, WakeInv, AllOwnedSettled, [Next]_vars
    PROVE  AllOwnedSettled'
<1>. SUFFICES ASSUME NEW g \in GitSecrets, Current(g)', ~Working(g)',
                     Unseals(gitsecrets'[g].obj.spec), OwnsTarget(g)'
              PROVE  Settled(g)'
  BY DEF AllOwnedSettled, Unseals
<1>1. gitsecrets'[g] = gitsecrets[g]
  BY StillCurrent DEF WakeInv
<1>2. CASE WorkerStep(g)
  <2>1. PICK reason : Excused(g, reason)'
    BY <1>2, WorkerVerdict DEF Verdict, Working
  <2>. QED BY <2>1 DEF Excused, Unseals
<1>3. CASE ~WorkerStep(g)
  <2>1. Current(g) /\ ~Working(g) /\ ~(Write /\ job.name = g)
    BY <1>3, OtherStep
  <2>2. OwnsTarget(g) => Settled(g)
    BY <1>1, <2>1 DEF AllOwnedSettled
  <2>. QED BY <2>1, <2>2, StaysExcused DEF WakeInv
<1>. QED BY <1>2, <1>3

\* In a quiet state nothing is under way, so what is settled is in sync.
LEMMA QuietIsCurrent ==
    ASSUME Quiet, TypeOK, NEW g \in GitSecrets, gitsecrets[g].obj # None
    PROVE  Current(g) /\ ~Working(g) /\ (Settled(g) => InSync(g))
BY TargetOfType DEF Quiet, Current, Working, Settled, WillWake

\* The newest version of everything is in the cache or coming, and the running
\* reconcile works from the newest object or will be repeated, whatever fails.
THEOREM WorkerIsBroughtBack == Spec => []WakeInv
<1>. QED BY InitWake, StepWake, PTL DEF Spec

\* When the API does not fail, gpg and the process may: a quiet controller has
\* reported on the current generation of every object.
THEOREM QuietReports ==
    ASSUME "api" \notin FaultKinds
    PROVE  Spec => []QuietIsReported
<1>1. Init => WakeInv /\ AllReported
  BY InitWake
<1>2. (WakeInv /\ AllReported) /\ [Next]_vars => (WakeInv /\ AllReported)'
  BY StepWake, StepReported
<1>3. WakeInv /\ AllReported => QuietIsReported
  BY QuietIsCurrent DEF WakeInv, Inv, AllReported, QuietIsReported
<1>. QED BY <1>1, <1>2, <1>3, PTL DEF Spec

\* And where it says Ready, the target is in sync now, whatever others did to it.
THEOREM QuietReadyHolds ==
    ASSUME "api" \notin FaultKinds
    PROVE  Spec => []QuietReadyIsTrue
<1>1. Init => WakeInv /\ AllReported
  BY InitWake
<1>2. (WakeInv /\ AllReported) /\ [Next]_vars => (WakeInv /\ AllReported)'
  BY StepWake, StepReported
<1>3. WakeInv /\ AllReported => QuietReadyIsTrue
  <2>1. ASSUME WakeInv, AllReported, Quiet, NEW g \in GitSecrets, Ready(gitsecrets[g].obj)
        PROVE  InSync(g)
    BY <2>1, QuietIsCurrent DEF WakeInv, Inv, AllReported, Ready
  <2>. QED BY <2>1 DEF QuietReadyIsTrue
<1>. QED BY <1>1, <1>2, <1>3, PTL DEF Spec

\* When gpg does not fail on what it can open, the API and the process may: a
\* quiet controller has every Secret it controls in sync.
THEOREM QuietOwnedHolds ==
    ASSUME "gpg" \notin FaultKinds
    PROVE  Spec => []QuietOwnedIsSynced
<1>1. Init => WakeInv /\ AllOwnedSettled
  BY InitWake
<1>2. (WakeInv /\ AllOwnedSettled) /\ [Next]_vars => (WakeInv /\ AllOwnedSettled)'
  BY StepWake, StepOwned
<1>3. WakeInv /\ AllOwnedSettled => QuietOwnedIsSynced
  BY QuietIsCurrent DEF WakeInv, Inv, AllOwnedSettled, QuietOwnedIsSynced
<1>. QED BY <1>1, <1>2, <1>3, PTL DEF Spec

=============================================================================
