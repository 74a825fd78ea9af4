------------------------ MODULE GitSecretController ------------------------
(***************************************************************************)
(* The GitSecret controller (internal/controller/gitsecret_controller.go): *)
(* one worker that takes GitSecret names from a queue and, for each, makes *)
(* the target Secret mirror what the object unseals to.                    *)
(*                                                                         *)
(* The API server, the informer cache the reconciler reads through, the    *)
(* work queue, the garbage collector and the people who edit objects are   *)
(* external: they are modelled as Reconcile and SetupWithManager use them. *)
(* Every read is a read of the cache, which may lag; every write is        *)
(* optimistic, and refused when the version read is no longer current.     *)
(*                                                                         *)
(* One namespace.  Everything of a spec that Reconcile never branches on   *)
(* (recipients, Secret type, annotations) is a function of its generation  *)
(* and is left out, and so are the status fields that mirror it.           *)
(***************************************************************************)
EXTENDS Naturals, FiniteSets

CONSTANTS
    GitSecrets,  \* names of GitSecrets
    Secrets,     \* names of Secrets
    Payloads,    \* what an object can unseal to
    Unreadable,  \* sealed to others, or to another object: Unseal fails
    Alien,       \* contents of a Secret not written by the controller
    None,        \* nil
    UserSpecs,   \* the specs users apply, a subset of Specs
    FaultKinds,  \* the failures that occur: a subset of {"api", "gpg", "crash"}
    MaxEdits,    \* bound: changes made by users and other controllers
    MaxFaults,   \* bound: failures
    MaxClock,    \* bound: seconds of the wall clock
    MaxVersion   \* bound: versions of a Secret after which it is not collected;
                 \* a stale cache can have it created and collected for ever

Specs == [target : Secrets \cup {None}, adopt : BOOLEAN,
          sealed : Payloads \cup {Unreadable}]

\* spec.target.name, or the object's own name when that is unset.
TargetName(g, spec) == IF spec.target = None THEN g ELSE spec.target

Reasons == {"None", "Synced", "UnsealFailed", "TargetConflict", "ApplyFailed"}

\* observed: ObservedGeneration (and SyncedKeys, which moves with it);
\* reason, at: reason and ObservedGeneration of the Ready condition, which is
\* True only for "Synced"; synced: LastSyncTime.
Statuses == [observed : Nat, reason : Reasons, at : Nat, synced : Nat]
GSObjects == [uid : Nat, gen : Nat, spec : UserSpecs, status : Statuses]

\* The controller reference of a Secret: a GitSecret of this API group, of the
\* pre-rename group, or some other controller's object.
Owners == [kind : {"GitSecret", "Legacy", "Other"}, name : GitSecrets, uid : Nat]
SecretObjects == [owner : Owners \cup {None}, data : Payloads \cup {Alien}]

\* What the server holds under a name: a version that every change raises, a
\* deletion included, and the object, if there is one.
Entries(Objects) == [rv : Nat, obj : Objects \cup {None}]

ASSUME ConstantsAssumption ==
    /\ UserSpecs \subseteq Specs
    /\ \A g \in GitSecrets, spec \in UserSpecs : TargetName(g, spec) \in Secrets
    /\ Unreadable \notin Payloads
    /\ Alien \notin Payloads
    /\ None \notin Secrets
    /\ None \notin GSObjects
    /\ None \notin SecretObjects
    /\ None \notin Owners
    /\ FaultKinds \subseteq {"api", "gpg", "crash"}
    /\ MaxEdits \in Nat
    /\ MaxFaults \in Nat
    /\ MaxClock \in Nat
    /\ MaxVersion \in Nat

VARIABLES
    gitsecrets,   \* server: name -> entry of a GitSecret
    secrets,      \* server: name -> entry of a Secret
    legacy,       \* names of pre-rename GitSecrets that still exist
    gsWatch,      \* name -> versions the watch has yet to deliver to gsCache
    secretWatch,  \* the same for secrets
    gsCache,      \* informer cache of gitsecrets
    secretCache,  \* informer cache of secrets
    queue,        \* names waiting to be reconciled
    pc,           \* the call Reconcile makes next
    job,          \* Reconcile's locals
    clock,        \* wall clock, in whole seconds as metav1.Time keeps it, when
                  \* it was last read
    edits, faults,\* used up of MaxEdits and MaxFaults
    applied,      \* history: <<name, uid, generation>> whose data was written
    released      \* history: Secrets whose legacy reference the controller
                  \* dropped, and that nobody changed since

gsServer == <<gitsecrets, gsWatch>>
secretServer == <<secrets, secretWatch>>
server == <<gsServer, secretServer, legacy>>
caches == <<gsCache, secretCache>>
bounds == <<clock, edits, faults>>
history == <<applied, released>>
vars == <<server, caches, queue, pc, job, bounds, history>>

NoEntry == [rv |-> 0, obj |-> None]
NoStatus == [observed |-> 0, reason |-> "None", at |-> 0, synced |-> 0]

\* name: the request; gs: the GitSecret as fetched; existing: the Secret as the
\* ownership guard read it; read: the Secret as the pending write read it;
\* status: the status to record; retry: whether the call returns an error;
\* wrote: whether this call changed what the server holds for the Secret.
Jobs == [name : GitSecrets \cup {None}, gs : Entries(GSObjects),
         existing : Entries(SecretObjects), read : Entries(SecretObjects),
         status : Statuses, retry : BOOLEAN, wrote : BOOLEAN]
NoJob == [name |-> None, gs |-> NoEntry, existing |-> NoEntry, read |-> NoEntry,
          status |-> NoStatus, retry |-> FALSE, wrote |-> FALSE]

Steps == {"idle", "guard", "release", "lookup", "write", "status"}

TypeOK ==
    /\ gitsecrets \in [GitSecrets -> Entries(GSObjects)]
    /\ secrets \in [Secrets -> Entries(SecretObjects)]
    /\ legacy \subseteq GitSecrets
    /\ gsWatch \in [GitSecrets -> SUBSET Entries(GSObjects)]
    /\ secretWatch \in [Secrets -> SUBSET Entries(SecretObjects)]
    /\ gsCache \in [GitSecrets -> Entries(GSObjects)]
    /\ secretCache \in [Secrets -> Entries(SecretObjects)]
    /\ queue \subseteq GitSecrets
    /\ pc \in Steps
    /\ job \in Jobs
    /\ pc = "idle" => job = NoJob
    /\ pc # "idle" => job.name \in GitSecrets /\ job.gs.obj # None
    /\ clock \in 0..MaxClock
    /\ edits \in 0..MaxEdits
    /\ faults \in 0..MaxFaults
    /\ applied \subseteq GitSecrets \X Nat \X Nat
    /\ released \subseteq Secrets

-----------------------------------------------------------------------------
(* The server. *)

\* A write that changes nothing leaves the version alone: no watch event.
Put(entry, obj) ==
    IF entry.obj = obj THEN entry ELSE [rv |-> entry.rv + 1, obj |-> obj]

SetGitSecret(g, obj) ==
    LET new == Put(gitsecrets[g], obj)
    IN  /\ gitsecrets' = [gitsecrets EXCEPT ![g] = new]
        /\ gsWatch' = [gsWatch EXCEPT ![g] = @ \cup ({new} \ {gitsecrets[g]})]

SetSecret(s, obj) ==
    LET new == Put(secrets[s], obj)
    IN  /\ secrets' = [secrets EXCEPT ![s] = new]
        /\ secretWatch' = [secretWatch EXCEPT ![s] = @ \cup ({new} \ {secrets[s]})]

LegacyOwner(g) == [kind |-> "Legacy", name |-> g, uid |-> 0]
OtherOwner(g) == [kind |-> "Other", name |-> g, uid |-> 0]

OwnedBy(entry, owner) == entry.obj # None /\ entry.obj.owner = owner
Unowned(entry) == OwnedBy(entry, None)

\* A Secret is there before the controller starts, or not: somebody's own, some
\* other controller's, or the target of a pre-rename GitSecret.
InitialSecrets ==
    {NoEntry}
    \cup [rv : {0}, obj : [owner : {None} \cup {OtherOwner(g) : g \in GitSecrets}
                                          \cup {LegacyOwner(g) : g \in GitSecrets},
                           data : {Alien}]]

Init ==
    /\ gitsecrets = [g \in GitSecrets |-> NoEntry]
    /\ secrets \in [Secrets -> InitialSecrets]
    /\ legacy = {g \in GitSecrets : \E s \in Secrets : OwnedBy(secrets[s], LegacyOwner(g))}
    /\ gsWatch = [g \in GitSecrets |-> {}]
    /\ secretWatch = [s \in Secrets |-> {}]
    /\ gsCache = gitsecrets
    /\ secretCache = secrets
    /\ queue = {}
    /\ pc = "idle"
    /\ job = NoJob
    /\ clock = 0 /\ edits = 0 /\ faults = 0
    /\ applied = {} /\ released = {}

-----------------------------------------------------------------------------
(* What Reconcile computes. *)

Target == TargetName(job.name, job.gs.obj.spec)
Ref(g, uid) == [kind |-> "GitSecret", name |-> g, uid |-> uid]
Self == Ref(job.name, job.gs.obj.uid)

Unseals(spec) == spec.sealed \in Payloads

ownedByLegacyNamesake(entry, g) ==
    entry.obj # None /\ entry.obj.owner # None
    /\ entry.obj.owner.kind = "Legacy" /\ entry.obj.owner.name = g

\* Mutant of MayTake: adopt is not asked for.
MayTakeAnything(entry) == ~ownedByLegacyNamesake(entry, job.name)

\* The guard's verdict on the Secret it read: go on, unless somebody else's
\* Secret is in the way and the object does not adopt.
MayTake(entry) ==
    \/ entry.obj = None
    \/ OwnedBy(entry, Self)
    \/ ~ownedByLegacyNamesake(entry, job.name) /\ job.gs.obj.spec.adopt

Namesakes(owner1, owner2) == owner1.kind = owner2.kind /\ owner1.name = owner2.name

\* Mutants of Controllable: any Secret is; an ownerless one is not.
AnyControllable(entry) == TRUE
OwnedControllable(entry) == OwnedBy(entry, Self) \/ entry.obj = None

\* SetControllerReference refuses an object another owner controls.  Owners are
\* told apart by group, kind and name: unlike the guard, it takes the reference
\* to a deleted GitSecret of the same name for its own, and replaces it.
Controllable(entry) ==
    \/ entry.obj = None
    \/ OwnedBy(entry, None)
    \/ /\ entry.obj # None /\ entry.obj.owner # None
       /\ Namesakes(entry.obj.owner, Self)

\* Mutant of setCondition: the condition's generation is not moved.
setConditionOnly(status, gs, reason) == [status EXCEPT !.reason = reason]

setCondition(status, gs, reason) == [status EXCEPT !.reason = reason, !.at = gs.gen]

\* Update carries the resourceVersion that was read, and is refused when it is
\* no longer the object's.
SecretIsCurrent(read) == secrets[Target].rv = read.rv

\* Mutants of StatusIsCurrent: a status patch without resourceVersion.
StatusPatched == gitsecrets[job.name].obj # None

StatusIsCurrent == gitsecrets[job.name].rv = job.gs.rv

Fail == faults < MaxFaults /\ faults' = faults + 1
ApiFault == "api" \in FaultKinds /\ Fail
GpgFault == "gpg" \in FaultKinds /\ Fail

\* Mutants of Return: locals that survive the call; an error that is swallowed.
ReturnKeepingLocals(q, g, err) ==
    pc' = "idle" /\ job' = job /\ queue' = IF err THEN q \cup {g} ELSE q
ReturnSwallowingError(q, g, err) ==
    pc' = "idle" /\ job' = NoJob /\ queue' = q

\* Reconcile returns to the worker, whose queue is q; a name whose call returned
\* an error goes back in.
Return(q, g, err) ==
    /\ pc' = "idle"
    /\ job' = NoJob
    /\ queue' = IF err THEN q \cup {g} ELSE q

\* A failure path, j the locals and q the queue: record the condition unless
\* status already says so (statusMeaningfullyChanged), then return.
Report(q, j, reason, err) ==
    LET status == setCondition(j.gs.obj.status, j.gs.obj, reason)
    IN  \/ /\ status = j.gs.obj.status
           /\ Return(q, j.name, err)
        \/ /\ status # j.gs.obj.status
           /\ pc' = "status"
           /\ job' = [j EXCEPT !.status = status, !.retry = err]
           /\ queue' = q

-----------------------------------------------------------------------------
(* Reconcile, one action per call it makes. *)

\* Get the GitSecret and Unseal it.  A deleted object needs nothing; one that
\* does not unseal is reported, and its target left alone.  Any Get may fail.
Fetch(g) ==
    LET fetched == gsCache[g]
        locals == [NoJob EXCEPT !.name = g, !.gs = fetched]
        q == queue \ {g}
    IN  /\ pc = "idle"
        /\ g \in queue
        /\ \/ /\ fetched.obj = None
              /\ queue' = q
              /\ UNCHANGED <<pc, job, faults>>
           \/ /\ fetched.obj # None
              /\ Unseals(fetched.obj.spec)
              /\ pc' = "guard"
              /\ job' = locals
              /\ queue' = q
              /\ UNCHANGED faults
           \/ /\ fetched.obj # None
              /\ IF Unseals(fetched.obj.spec) THEN GpgFault ELSE UNCHANGED faults
              /\ Report(q, locals, "UnsealFailed", FALSE)
           \/ /\ ApiFault
              /\ Return(q, g, TRUE)
        /\ UNCHANGED <<server, caches, clock, edits, history>>

\* Get the target Secret and decide whether it may be taken.
Guard ==
    LET existing == secretCache[Target]
        locals == [job EXCEPT !.existing = existing]
    IN  /\ pc = "guard"
        /\ \/ /\ ownedByLegacyNamesake(existing, job.name)
              /\ pc' = "release"
              /\ job' = locals
              /\ UNCHANGED <<queue, faults>>
           \/ /\ MayTake(existing)
              /\ pc' = "lookup"
              /\ job' = locals
              /\ UNCHANGED <<queue, faults>>
           \/ /\ ~ownedByLegacyNamesake(existing, job.name)
              /\ ~MayTake(existing)
              /\ Report(queue, locals, "TargetConflict", FALSE)
              /\ UNCHANGED faults
           \/ /\ ApiFault
              /\ Return(queue, job.name, TRUE)
        /\ UNCHANGED <<server, caches, clock, edits, history>>

\* Update the Secret without the pre-rename object's reference.  An error is
\* returned as it is, whether or not the write took effect.
Release ==
    LET current == SecretIsCurrent(job.existing)
        Drop == /\ SetSecret(Target, [job.existing.obj EXCEPT !.owner = None])
                /\ released' = released \cup {Target}
    IN  /\ pc = "release"
        /\ \/ /\ current
              /\ Drop
              /\ pc' = "lookup"
              /\ UNCHANGED <<job, queue, faults>>
           \/ /\ ~current
              /\ Return(queue, job.name, TRUE)
              /\ UNCHANGED <<secretServer, released, faults>>
           \/ /\ ApiFault
              /\ Return(queue, job.name, TRUE)
              /\ \/ current /\ Drop
                 \/ UNCHANGED <<secretServer, released>>
        /\ UNCHANGED <<gsServer, legacy, caches, clock, edits, applied>>

\* CreateOrUpdate, first half: Get the Secret once more and mutate the copy,
\* which fails when it is another's.
Lookup ==
    LET read == secretCache[Target]
    IN  /\ pc = "lookup"
        /\ \/ /\ Controllable(read)
              /\ pc' = "write"
              /\ job' = [job EXCEPT !.read = read]
              /\ UNCHANGED <<queue, faults>>
           \/ /\ IF Controllable(read) THEN ApiFault ELSE UNCHANGED faults
              /\ Report(queue, job, "ApplyFailed", TRUE)
        /\ UNCHANGED <<server, caches, clock, edits, history>>

\* CreateOrUpdate, second half: Create what was not there, Update what was.  A
\* Secret as read has Data and no StringData, as mutated StringData and no Data,
\* so the two never compare equal and the result is never OperationResultNone:
\* secretWritten holds on every successful pass, and the status write follows.
Write ==
    LET gs == job.gs.obj
        current == IF job.read.obj = None THEN secrets[Target].obj = None
                                          ELSE SecretIsCurrent(job.read)
        Apply == /\ SetSecret(Target, [owner |-> Self, data |-> gs.spec.sealed])
                 /\ applied' = applied \cup {<<job.name, gs.uid, gs.gen>>}
                 /\ released' = released \ {Target}
        status == [setCondition(gs.status, gs, "Synced") EXCEPT
                      !.observed = gs.gen, !.synced = clock']
    IN  /\ pc = "write"
        /\ \/ /\ current
              /\ Apply
              /\ clock' \in clock..MaxClock
              /\ pc' = "status"
              /\ job' = [job EXCEPT !.status = status, !.retry = FALSE,
                                    !.wrote = secrets' # secrets]
              /\ UNCHANGED <<queue, faults>>
           \/ /\ ~current
              /\ Report(queue, job, "ApplyFailed", TRUE)
              /\ UNCHANGED <<secretServer, history, faults, clock>>
           \/ /\ ApiFault
              /\ Report(queue, job, "ApplyFailed", TRUE)
              /\ \/ current /\ Apply
                 \/ UNCHANGED <<secretServer, history>>
              /\ UNCHANGED clock
        /\ UNCHANGED <<gsServer, legacy, caches, edits>>

\* Status().Update.  Its failure is an error of the call only after a sync, and
\* is logged and dropped after UnsealFailed or TargetConflict.
StatusWrite ==
    LET g == job.name
        Record == SetGitSecret(g, [gitsecrets[g].obj EXCEPT !.status = job.status])
        failed == job.retry \/ job.status.reason = "Synced"
    IN  /\ pc = "status"
        /\ \/ /\ StatusIsCurrent
              /\ Record
              /\ Return(queue, g, job.retry)
              /\ UNCHANGED faults
           \/ /\ ~StatusIsCurrent
              /\ Return(queue, g, failed)
              /\ UNCHANGED <<gsServer, faults>>
           \/ /\ ApiFault
              /\ Return(queue, g, failed)
              /\ \/ StatusIsCurrent /\ Record
                 \/ UNCHANGED gsServer
        /\ UNCHANGED <<secretServer, legacy, caches, clock, edits, history>>

Reconcile == (\E g \in GitSecrets : Fetch(g)) \/ Guard \/ Release \/ Lookup \/ Write \/ StatusWrite

-----------------------------------------------------------------------------
(* The manager: SetupWithManager's two watches, the resync, a restart. *)

\* Versions of one object arrive in the order they were written.
Oldest(watch) == {e \in watch : \A f \in watch : e.rv <= f.rv}

\* For(GitSecret): a change reaches the cache and enqueues the object.
ObserveGitSecret(g) ==
    /\ \E e \in Oldest(gsWatch[g]) :
        /\ gsCache' = [gsCache EXCEPT ![g] = e]
        /\ gsWatch' = [gsWatch EXCEPT ![g] = @ \ {e}]
    /\ queue' = queue \cup {g}
    /\ UNCHANGED <<gitsecrets, secretServer, legacy, secretCache, pc, job, bounds, history>>

\* Mutant of Controllers: Secrets are not watched.
NoControllers(entry) == {}

Controllers(entry) ==
    {g \in GitSecrets : /\ entry.obj # None /\ entry.obj.owner # None
                        /\ entry.obj.owner.kind = "GitSecret" /\ entry.obj.owner.name = g}

\* Owns(Secret): a change reaches the cache and enqueues, by name, the GitSecret
\* that controls the Secret or controlled it before the change.
ObserveSecret(s) ==
    /\ \E e \in Oldest(secretWatch[s]) :
        /\ secretCache' = [secretCache EXCEPT ![s] = e]
        /\ secretWatch' = [secretWatch EXCEPT ![s] = @ \ {e}]
        /\ queue' = queue \cup Controllers(secretCache[s]) \cup Controllers(e)
    /\ UNCHANGED <<gsServer, secrets, legacy, gsCache, pc, job, bounds, history>>

Live(cache) == {g \in GitSecrets : cache[g].obj # None}

\* The cache's periodic resync delivers every object again.
Resync ==
    /\ ~(Live(gsCache) \subseteq queue)
    /\ queue' = queue \cup Live(gsCache)
    /\ UNCHANGED <<server, caches, pc, job, bounds, history>>

\* The process dies; the next one lists everything and reconciles every object.
Restart ==
    /\ "crash" \in FaultKinds
    /\ Fail
    /\ gsCache' = gitsecrets
    /\ secretCache' = secrets
    /\ gsWatch' = [g \in GitSecrets |-> {}]
    /\ secretWatch' = [s \in Secrets |-> {}]
    /\ queue' = Live(gitsecrets)
    /\ pc' = "idle"
    /\ job' = NoJob
    /\ UNCHANGED <<gitsecrets, secrets, legacy, clock, edits, history>>

Manager == (\E g \in GitSecrets : ObserveGitSecret(g)) \/ (\E s \in Secrets : ObserveSecret(s)) \/ Resync

-----------------------------------------------------------------------------
(* Users, other controllers, the garbage collector. *)

Edit == edits < MaxEdits /\ edits' = edits + 1
UnchangedByUsers == <<caches, queue, pc, job, clock, faults, applied>>

ApplyManifest(g, spec) ==
    LET old == gitsecrets[g].obj
    IN  /\ Edit
        /\ \/ /\ old = None
              /\ SetGitSecret(g, [uid |-> gitsecrets[g].rv + 1, gen |-> 1,
                                  spec |-> spec, status |-> NoStatus])
           \/ /\ old # None
              /\ old.spec # spec
              /\ SetGitSecret(g, [old EXCEPT !.spec = spec, !.gen = @ + 1])
        /\ UNCHANGED <<secretServer, legacy, released, UnchangedByUsers>>

DeleteGitSecret(g) ==
    /\ gitsecrets[g].obj # None
    /\ Edit
    /\ SetGitSecret(g, None)
    /\ UNCHANGED <<secretServer, legacy, released, UnchangedByUsers>>

DeleteLegacy(g) ==
    /\ g \in legacy
    /\ Edit
    /\ legacy' = legacy \ {g}
    /\ UNCHANGED <<gsServer, secretServer, released, UnchangedByUsers>>

\* Somebody creates a Secret, patches one, or deletes one.
ChangeSecret(s) ==
    /\ Edit
    /\ \/ /\ secrets[s].obj = None
          /\ \E owner \in {None} \cup {OtherOwner(g) : g \in GitSecrets} :
                SetSecret(s, [owner |-> owner, data |-> Alien])
       \/ /\ secrets[s].obj # None
          /\ secrets[s].obj.data # Alien
          /\ SetSecret(s, [secrets[s].obj EXCEPT !.data = Alien])
       \/ /\ secrets[s].obj # None
          /\ SetSecret(s, None)
    /\ released' = released \ {s}
    /\ UNCHANGED <<gsServer, legacy, UnchangedByUsers>>

Dangling(owner) ==
    \/ owner.kind = "Legacy" /\ owner.name \notin legacy
    \/ /\ owner.kind = "GitSecret"
       /\ \/ gitsecrets[owner.name].obj = None
          \/ gitsecrets[owner.name].obj # None /\ gitsecrets[owner.name].obj.uid # owner.uid

\* The garbage collector deletes a Secret whose controller no longer exists.
Collect(s) ==
    /\ secrets[s].obj # None
    /\ secrets[s].obj.owner # None
    /\ Dangling(secrets[s].obj.owner)
    /\ secrets[s].rv < MaxVersion
    /\ SetSecret(s, None)
    /\ released' = released \ {s}
    /\ UNCHANGED <<gsServer, legacy, UnchangedByUsers, edits>>

Environment ==
    \/ \E g \in GitSecrets : \/ \E spec \in UserSpecs : ApplyManifest(g, spec)
                             \/ DeleteGitSecret(g)
                             \/ DeleteLegacy(g)
    \/ \E s \in Secrets : ChangeSecret(s)

Next == Reconcile \/ Manager \/ Restart \/ Environment \/ (\E s \in Secrets : Collect(s))

Spec == Init /\ [][Next]_vars

\* The worker, the watches, the resync and the garbage collector keep running;
\* the queue is first in, first out, so a name in it is fetched in the end even
\* while another one keeps coming back.  Nothing obliges users to act, or faults
\* to happen.
Fairness ==
    /\ \A g \in GitSecrets : SF_vars(Fetch(g)) /\ WF_vars(ObserveGitSecret(g))
    /\ WF_vars(Guard) /\ WF_vars(Release) /\ WF_vars(Lookup)
    /\ WF_vars(Write) /\ WF_vars(StatusWrite)
    /\ \A s \in Secrets : WF_vars(ObserveSecret(s)) /\ WF_vars(Collect(s))
    /\ WF_vars(Resync)

FairSpec == Spec /\ Fairness

-----------------------------------------------------------------------------
(* Properties. *)

Ready(obj) == obj # None /\ obj.status.reason = "Synced"
TargetOf(g) == TargetName(g, gitsecrets[g].obj.spec)
OwnsTarget(g) == OwnedBy(secrets[TargetOf(g)], Ref(g, gitsecrets[g].obj.uid))
InSync(g) == OwnsTarget(g) /\ secrets[TargetOf(g)].obj.data = gitsecrets[g].obj.spec.sealed

\* Nothing is being reconciled or waiting to be, and the watches have delivered:
\* what the controller has not done by now it does only when something changes.
Quiet ==
    /\ pc = "idle"
    /\ queue = {}
    /\ \A g \in GitSecrets : gsWatch[g] = {}
    /\ \A s \in Secrets : secretWatch[s] = {}

\* Ready=True with generation n on an object means that this very object's
\* generation n was written to its target, whatever was edited, deleted or
\* recreated while the reconcile ran (gs.Status.ObservedGeneration and the
\* condition are computed from the cached copy).
ReadyIsEarned ==
    \A g \in GitSecrets : LET obj == gitsecrets[g].obj IN
        Ready(obj) => /\ obj.status.observed = obj.status.at
                      /\ <<g, obj.uid, obj.status.at>> \in applied

\* Control of a Secret passes only from a GitSecret to one of the same name (a
\* deleted object's Secret to the object created in its place), and only a
\* pre-rename object's reference is ever dropped: neither a stale read nor adopt
\* lets a reconcile take a Secret from another object or another controller.
NoTheft ==
    [][\A s \in Secrets :
        LET old == secrets[s].obj  new == secrets'[s].obj IN
        (old # None /\ old.owner # None /\ new # None /\ new.owner # old.owner)
        => \/ old.owner.kind = "Legacy" /\ new.owner = None
           \/ /\ old.owner.kind = "GitSecret"
              /\ new.owner # None /\ Namesakes(old.owner, new.owner)]_vars

\* A Secret that is there comes under a controller it was not under: it was
\* nobody's, or another's.
Takes(s) ==
    /\ secrets[s].obj # None /\ secrets'[s].obj # None
    /\ secrets'[s].obj.owner \notin {None, secrets[s].obj.owner}

\* A Secret that is not the object's own, nobody's or a namesake's, is taken over
\* without spec.target.adopt only when it is not the Secret the ownership guard
\* of this reconcile saw: what the guard saw of somebody else's, it left alone.
GuardedSecretIsLeftAlone ==
    [][\A s \in Secrets :
        Takes(s) => \/ job.gs.obj.spec.adopt
                    \/ job.existing.rv < secrets[s].rv]_vars

\* The generation an object's status says was applied never goes back, however
\* old the copy a reconcile works from.
ObservedNeverRegresses ==
    [][\A g \in GitSecrets : LET old == gitsecrets[g].obj  new == gitsecrets'[g].obj IN
        (old # None /\ new # None)
        => new.status.observed \in old.status.observed..old.gen]_vars

\* When the controller has gone quiet, Ready=True for the current generation
\* means that the target Secret matches now, drift by others included (the
\* Ready condition's documented meaning, and the reason for Owns(Secret)).
QuietReadyIsTrue ==
    Quiet => \A g \in GitSecrets :
        (Ready(gitsecrets[g].obj) /\ gitsecrets[g].obj.status.at = gitsecrets[g].obj.gen)
        => InSync(g)

\* When the controller has gone quiet, a Secret controlled by a GitSecret that
\* unseals holds what its current generation unseals to: no edit, drift or
\* failed call is left behind without something to bring the worker back.  (A
\* failure of gpg on what it can open is: "Do not requeue tightly on a decrypt
\* failure".  The second in a row changes no status, so only the resync helps.)
QuietOwnedIsSynced ==
    Quiet => \A g \in GitSecrets :
        (gitsecrets[g].obj # None /\ Unseals(gitsecrets[g].obj.spec) /\ OwnsTarget(g))
        => InSync(g)

\* When the controller has gone quiet, every object's condition is about its
\* current generation: a decrypt failure or a conflict is on record.
QuietIsReported ==
    Quiet => \A g \in GitSecrets :
        gitsecrets[g].obj # None => gitsecrets[g].obj.status.at = gitsecrets[g].obj.gen

\* An object that unseals and may have its target (nobody's with adopt, nobody
\* has created it, or its own) has it in sync and reported Ready in the end.
Entitled(g) ==
    LET obj == gitsecrets[g].obj  target == secrets[TargetOf(g)]
    IN  /\ obj # None
        /\ Unseals(obj.spec)
        /\ \/ target.obj = None
           \/ OwnsTarget(g)
           \/ Unowned(target) /\ obj.spec.adopt

EventuallySynced ==
    \A g \in GitSecrets : <>[](Entitled(g) => InSync(g) /\ Ready(gitsecrets[g].obj))

-----------------------------------------------------------------------------
(* What the controller promises, and that this is what it does. *)

\* A GitSecret without its cache, its queue and the controller's calls.
Seen(g) ==
    LET obj == gitsecrets[g].obj
    IN IF obj = None THEN None
       ELSE [uid |-> obj.uid, gen |-> obj.gen, target |-> TargetName(g, obj.spec),
             data |-> IF Unseals(obj.spec) THEN obj.spec.sealed ELSE None,
             observed |-> obj.status.observed,
             ready |-> IF obj.status.reason = "Synced" THEN obj.status.at ELSE 0]

\* Such a record, and that none is None.
SeenObjects == [uid : Nat, gen : Nat, target : Secrets, data : Payloads \cup {None},
                observed : Nat, ready : Nat]

ASSUME MirrorAssumption == None \notin SeenObjects

Promise == INSTANCE SecretMirror
           WITH objects <- [g \in GitSecrets |-> Seen(g)],
                secrets <- [s \in Secrets |-> secrets[s].obj],
                written <- applied

\* Every behaviour, with its stale reads, overlapping watches, failed calls and
\* restarts, is one of SecretMirror: Reconcile's seven calls amount to single
\* steps that each do what some generation of the object asked for.
MirrorsSecrets == Promise!Spec

-----------------------------------------------------------------------------
(* What the repository says of the program and the code does not do. *)

\* "by the time CreateOrUpdate runs here, either the Secret is ours, it does not
\* exist, or the operator opted in" (gitsecret_controller.go): a Secret that is
\* there and not the object's is never taken over without adopt.
NoClobber == [][\A s \in Secrets : Takes(s) => job.gs.obj.spec.adopt]_vars

\* "the new controller finds the target Secret still controlled by the pre-rename
\* GitSecret of the same name, takes it over, and reconciles it" (UPGRADING.md):
\* a Secret the controller released for itself is not then refused as foreign.
ReleasedIsNotRefused ==
    Quiet => \A g \in GitSecrets :
        (gitsecrets[g].obj # None /\ TargetOf(g) \in released)
        => gitsecrets[g].obj.status.reason # "TargetConflict"

\* "A steady-state reconcile (nothing drifted, spec unchanged) must not write":
\* a status write that only moves LastSyncTime follows a change of the Secret.
SteadyStateDoesNotWrite ==
    [][\A g \in GitSecrets : LET old == gitsecrets[g].obj  new == gitsecrets'[g].obj IN
        (old # None /\ new # None /\ old # new
             /\ new = [old EXCEPT !.status.synced = new.status.synced])
        => job.wrote]_vars

=============================================================================
