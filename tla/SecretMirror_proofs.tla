------------------------ MODULE SecretMirror_proofs ------------------------
(***************************************************************************)
(* Proof that GitSecretController implements SecretMirror, for any         *)
(* objects, Secrets, specs, faults and bounds.                             *)
(*                                                                         *)
(* The argument: a write of a Secret is made for a copy of its object that *)
(* may be old, so one has to know what an old copy can differ in.  A copy  *)
(* of the same uid has a smaller generation or the same spec, and the uid  *)
(* of an object created later is above every one that was written.         *)
(***************************************************************************)
EXTENDS GitSecretController_proofs

-----------------------------------------------------------------------------
(* The invariant. *)

\* A copy of the same object is of an earlier generation or has the same spec.
SameIdentity(e, current) ==
    e.obj # None =>
        /\ e.obj.uid <= e.rv
        /\ current.obj # None /\ current.obj.uid = e.obj.uid =>
              /\ e.obj.gen <= current.obj.gen
              /\ e.obj.gen = current.obj.gen => e.obj.spec = current.obj.spec

IdentityInv ==
    \A g \in GitSecrets : \A e \in GSCopies(g) \cup {gitsecrets[g]} : SameIdentity(e, gitsecrets[g])

\* No uid that was written for is still to come.
WrittenInv ==
    \A g \in GitSecrets : \A w \in applied : w[1] = g => w[2] <= gitsecrets[g].rv

\* A condition other than Synced leaves the observed generation as it was.
RecordInv ==
    pc = "status" /\ job.status.reason # "Synced" =>
        job.status.observed = job.gs.obj.status.observed

MirrorInv == Inv /\ IdentityInv /\ WrittenInv /\ RecordInv

-----------------------------------------------------------------------------
(* What a step does to one object or to one Secret. *)

Deleted(g) == gitsecrets[g].obj # None /\ gitsecrets'[g].obj = None

Created(g) ==
    /\ gitsecrets[g].obj = None
    /\ \E spec \in UserSpecs :
          gitsecrets'[g].obj = [uid |-> gitsecrets[g].rv + 1, gen |-> 1,
                                spec |-> spec, status |-> NoStatus]

Edited(g) ==
    /\ gitsecrets[g].obj # None
    /\ \E spec \in UserSpecs :
          gitsecrets'[g].obj = [gitsecrets[g].obj EXCEPT !.spec = spec, !.gen = @ + 1]

Recorded(g) ==
    /\ pc = "status" /\ g = job.name
    /\ gitsecrets[g].obj # None /\ gitsecrets[g] = job.gs
    /\ gitsecrets'[g].obj = [gitsecrets[g].obj EXCEPT !.status = job.status]

\* One object changes, and nothing of the Secrets.
LEMMA GitSecretStep ==
    ASSUME Inv, [Next]_vars, gitsecrets' # gitsecrets
    PROVE  /\ UNCHANGED <<secrets, applied>>
           /\ \E g \in GitSecrets :
                 /\ gitsecrets' = [gitsecrets EXCEPT ![g] = gitsecrets'[g]]
                 /\ gitsecrets'[g].rv = gitsecrets[g].rv + 1
                 /\ Deleted(g) \/ Created(g) \/ Edited(g) \/ Recorded(g)
<1>. TypeOK
  BY DEF Inv
<1>1. gitsecrets \in [GitSecrets -> Entries(GSObjects)]
  BY DEF TypeOK
<1>2. ASSUME NEW g \in GitSecrets, NEW obj, SetGitSecret(g, obj)
      PROVE  /\ gitsecrets' = [gitsecrets EXCEPT ![g] = gitsecrets'[g]]
             /\ gitsecrets'[g].rv = gitsecrets[g].rv + 1 /\ gitsecrets'[g].obj = obj
  <2>1. gitsecrets' = [gitsecrets EXCEPT ![g] = Put(gitsecrets[g], obj)]
    BY <1>2 DEF SetGitSecret
  <2>2. gitsecrets'[g] = Put(gitsecrets[g], obj)
    BY <1>1, <2>1
  <2>3. Put(gitsecrets[g], obj) # gitsecrets[g]
    BY <1>1, <2>1
  <2>4. Put(gitsecrets[g], obj) = [rv |-> gitsecrets[g].rv + 1, obj |-> obj]
    BY <2>3 DEF Put
  <2>5. gitsecrets' = [gitsecrets EXCEPT ![g] = gitsecrets'[g]]
    BY <2>1, <2>2
  <2>. QED BY <2>2, <2>4, <2>5
<1>3. ASSUME StatusWrite
      PROVE  \E g \in GitSecrets :
                /\ gitsecrets' = [gitsecrets EXCEPT ![g] = gitsecrets'[g]]
                /\ gitsecrets'[g].rv = gitsecrets[g].rv + 1
                /\ Recorded(g)
  <2>. DEFINE obj == [gitsecrets[job.name].obj EXCEPT !.status = job.status]
  <2>1. pc = "status" /\ job.name \in GitSecrets /\ job.gs.obj # None
    BY <1>3 DEF StatusWrite, TypeOK
  <2>2. StatusIsCurrent /\ SetGitSecret(job.name, obj)
    BY <1>3 DEF StatusWrite, gsServer
  <2>3. job.gs \in GSCopies(job.name)
    BY <2>1 DEF GSCopies
  <2>4. gitsecrets[job.name] = job.gs
    BY <2>1, <2>2, <2>3 DEF Inv, CopiesInv, SameOrOlder, StatusIsCurrent
  <2>. HIDE DEF obj
  <2>5. /\ gitsecrets' = [gitsecrets EXCEPT ![job.name] = gitsecrets'[job.name]]
        /\ gitsecrets'[job.name].rv = gitsecrets[job.name].rv + 1
        /\ gitsecrets'[job.name].obj = obj
    BY <1>2, <2>1, <2>2
  <2>6. Recorded(job.name)
    BY <2>1, <2>4, <2>5 DEF Recorded, obj
  <2>. QED BY <2>1, <2>5, <2>6
<1>4. ASSUME NEW g \in GitSecrets, NEW spec \in UserSpecs, ApplyManifest(g, spec)
      PROVE  /\ gitsecrets' = [gitsecrets EXCEPT ![g] = gitsecrets'[g]]
             /\ gitsecrets'[g].rv = gitsecrets[g].rv + 1
             /\ Created(g) \/ Edited(g)
  <2>. DEFINE new == [uid |-> gitsecrets[g].rv + 1, gen |-> 1, spec |-> spec, status |-> NoStatus]
              edited == [gitsecrets[g].obj EXCEPT !.spec = spec, !.gen = @ + 1]
  <2>1. \/ gitsecrets[g].obj = None /\ SetGitSecret(g, new)
        \/ gitsecrets[g].obj # None /\ SetGitSecret(g, edited)
    BY <1>4 DEF ApplyManifest
  <2>. HIDE DEF new, edited
  <2>2. CASE gitsecrets[g].obj = None /\ SetGitSecret(g, new)
    BY <1>2, <2>2 DEF Created, new
  <2>3. CASE gitsecrets[g].obj # None /\ SetGitSecret(g, edited)
    BY <1>2, <2>3 DEF Edited, edited
  <2>. QED BY <2>1, <2>2, <2>3
<1>5. ASSUME NEW g \in GitSecrets, DeleteGitSecret(g)
      PROVE  /\ gitsecrets' = [gitsecrets EXCEPT ![g] = gitsecrets'[g]]
             /\ gitsecrets'[g].rv = gitsecrets[g].rv + 1
             /\ Deleted(g)
  BY <1>2, <1>5 DEF DeleteGitSecret, Deleted
<1>6. \/ StatusWrite
      \/ \E g \in GitSecrets : DeleteGitSecret(g) \/ \E spec \in UserSpecs : ApplyManifest(g, spec)
  <2>1. PICK h \in GitSecrets : gitsecrets'[h] # gitsecrets[h]
    <3>1. gitsecrets' \in [GitSecrets -> Entries(GSObjects)]
      BY StepType DEF TypeOK
    <3>. QED BY <1>1, <3>1
  <2>2. CASE Environment
    BY <2>2 DEF Environment, DeleteLegacy, ChangeSecret, server, gsServer
  <2>. QED BY <2>1, <2>2, OthersVersion
<1>7. UNCHANGED <<secrets, applied>>
  BY <1>6 DEF StatusWrite, DeleteGitSecret, ApplyManifest, UnchangedByUsers, secretServer, history
<1>. QED BY <1>3, <1>4, <1>5, <1>6, <1>7

Released(s) ==
    /\ secrets[s].obj # None /\ secrets[s].obj.owner # None /\ secrets[s].obj.owner.kind = "Legacy"
    /\ secrets'[s].obj = [secrets[s].obj EXCEPT !.owner = None]
    /\ UNCHANGED applied

Written(s) ==
    /\ pc = "write" /\ s = Target
    /\ secrets[s].obj = None \/ Promise!MayMirror(job.name, secrets[s].obj.owner)
    /\ secrets'[s].obj = [owner |-> Self, data |-> job.gs.obj.spec.sealed]
    /\ applied' = applied \cup {<<job.name, job.gs.obj.uid, job.gs.obj.gen>>}

ChangedByOthers(s) ==
    /\ UNCHANGED applied
    /\ \/ secrets'[s].obj = None
       \/ /\ secrets[s].obj = None
          /\ \E owner \in {None} \cup {OtherOwner(g) : g \in GitSecrets} :
                secrets'[s].obj = [owner |-> owner, data |-> Alien]
       \/ secrets[s].obj # None /\ secrets'[s].obj = [secrets[s].obj EXCEPT !.data = Alien]

\* One Secret changes, and nothing of the objects.
LEMMA SecretStep ==
    ASSUME Inv, [Next]_vars, secrets' # secrets \/ applied' # applied
    PROVE  /\ UNCHANGED gitsecrets
           /\ \E s \in Secrets :
                 /\ secrets' = [secrets EXCEPT ![s] = secrets'[s]]
                 /\ Released(s) \/ Written(s) \/ ChangedByOthers(s)
<1>. TypeOK
  BY DEF Inv
<1>1. secrets \in [Secrets -> Entries(SecretObjects)]
  BY DEF TypeOK
<1>2. ASSUME NEW s \in Secrets, NEW obj, SetSecret(s, obj)
      PROVE  /\ secrets' = [secrets EXCEPT ![s] = secrets'[s]]
             /\ secrets'[s].obj = obj
  <2>1. secrets' = [secrets EXCEPT ![s] = Put(secrets[s], obj)]
    BY <1>2 DEF SetSecret
  <2>2. secrets'[s] = Put(secrets[s], obj)
    BY <1>1, <2>1
  <2>3. Put(secrets[s], obj).obj = obj
    BY DEF Put
  <2>4. secrets' = [secrets EXCEPT ![s] = secrets'[s]]
    BY <2>1, <2>2
  <2>. QED BY <2>2, <2>3, <2>4
<1>3. ASSUME Release
      PROVE  \E s \in Secrets : secrets' = [secrets EXCEPT ![s] = secrets'[s]] /\ Released(s)
  <2>. DEFINE obj == [job.existing.obj EXCEPT !.owner = None]
  <2>1. pc = "release" /\ Target \in Secrets /\ UNCHANGED applied
    BY <1>3, TargetType DEF Release
  <2>2. SecretIsCurrent(job.existing) /\ SetSecret(Target, obj)
    BY <1>3 DEF Release, secretServer
  <2>3. job.existing \in SecretCopies(Target)
    BY <2>1 DEF SecretCopies
  <2>4. secrets[Target] = job.existing
    BY <2>1, <2>2, <2>3 DEF Inv, CopiesInv, SameOrOlder, SecretIsCurrent
  <2>. HIDE DEF obj
  <2>5. secrets' = [secrets EXCEPT ![Target] = secrets'[Target]] /\ secrets'[Target].obj = obj
    BY <1>2, <2>1, <2>2
  <2>6. ownedByLegacyNamesake(job.existing, job.name)
    BY <2>1 DEF Inv, JobInv
  <2>7. Released(Target)
    BY <2>1, <2>4, <2>5, <2>6 DEF Released, ownedByLegacyNamesake, obj
  <2>. QED BY <2>1, <2>5, <2>7
<1>4. ASSUME Write
      PROVE  \E s \in Secrets : secrets' = [secrets EXCEPT ![s] = secrets'[s]] /\ Written(s)
  <2>. DEFINE obj == [owner |-> Self, data |-> job.gs.obj.spec.sealed]
  <2>1. pc = "write" /\ Target \in Secrets /\ Controllable(job.read)
    BY <1>4, TargetType DEF Write, Inv, JobInv
  <2>2. /\ IF job.read.obj = None THEN secrets[Target].obj = None ELSE SecretIsCurrent(job.read)
        /\ SetSecret(Target, obj)
        /\ applied' = applied \cup {<<job.name, job.gs.obj.uid, job.gs.obj.gen>>}
    BY <1>4 DEF Write, secretServer, history
  <2>3. secrets[Target].obj = None \/ Promise!MayMirror(job.name, secrets[Target].obj.owner)
    <3>1. CASE job.read.obj = None
      BY <2>2, <3>1
    <3>2. CASE job.read.obj # None
      <4>1. job.read \in SecretCopies(Target)
        BY <2>1 DEF SecretCopies
      <4>2. secrets[Target] = job.read
        BY <2>1, <2>2, <3>2, <4>1 DEF Inv, CopiesInv, SameOrOlder, SecretIsCurrent
      <4>. QED BY <2>1, <3>2, <4>2 DEF Controllable, OwnedBy, Namesakes, Self, Ref, Promise!MayMirror
    <3>. QED BY <3>1, <3>2
  <2>. HIDE DEF obj
  <2>4. secrets' = [secrets EXCEPT ![Target] = secrets'[Target]] /\ secrets'[Target].obj = obj
    BY <1>2, <2>1, <2>2
  <2>5. Written(Target)
    BY <2>1, <2>2, <2>3, <2>4 DEF Written, obj
  <2>. QED BY <2>1, <2>4, <2>5
<1>5. ASSUME NEW s \in Secrets, ChangeSecret(s)
      PROVE  secrets' = [secrets EXCEPT ![s] = secrets'[s]] /\ ChangedByOthers(s)
  <2>. DEFINE marred == [secrets[s].obj EXCEPT !.data = Alien]
              made(owner) == [owner |-> owner, data |-> Alien]
  <2>1. UNCHANGED applied
    BY <1>5 DEF ChangeSecret, UnchangedByUsers
  <2>2. \/ /\ secrets[s].obj = None
           /\ \E owner \in {None} \cup {OtherOwner(g) : g \in GitSecrets} : SetSecret(s, made(owner))
        \/ secrets[s].obj # None /\ SetSecret(s, marred)
        \/ SetSecret(s, None)
    BY <1>5 DEF ChangeSecret
  <2>. HIDE DEF marred, made
  <2>3. ASSUME NEW owner \in {None} \cup {OtherOwner(g) : g \in GitSecrets},
               secrets[s].obj = None, SetSecret(s, made(owner))
        PROVE  secrets' = [secrets EXCEPT ![s] = secrets'[s]] /\ ChangedByOthers(s)
    <3>1. secrets' = [secrets EXCEPT ![s] = secrets'[s]] /\ secrets'[s].obj = made(owner)
      BY <1>2, <2>3
    <3>. QED BY <2>1, <2>3, <3>1 DEF ChangedByOthers, made
  <2>4. CASE secrets[s].obj # None /\ SetSecret(s, marred)
    <3>1. secrets' = [secrets EXCEPT ![s] = secrets'[s]] /\ secrets'[s].obj = marred
      BY <1>2, <2>4
    <3>. QED BY <2>1, <2>4, <3>1 DEF ChangedByOthers, marred
  <2>5. CASE SetSecret(s, None)
    BY <1>2, <2>1, <2>5 DEF ChangedByOthers
  <2>. QED BY <2>2, <2>3, <2>4, <2>5
<1>6. ASSUME NEW s \in Secrets, Collect(s)
      PROVE  secrets' = [secrets EXCEPT ![s] = secrets'[s]] /\ ChangedByOthers(s)
  BY <1>2, <1>6 DEF Collect, ChangedByOthers, UnchangedByUsers
<1>7. Release \/ Write \/ \E s \in Secrets : ChangeSecret(s) \/ Collect(s)
  <2>1. CASE Reconcile
    BY <2>1 DEF Reconcile, Fetch, Guard, Lookup, StatusWrite, server, secretServer, history
  <2>2. CASE Manager \/ Restart
    BY <2>2 DEF Manager, ObserveGitSecret, ObserveSecret, Resync, Restart, server, secretServer,
           history
  <2>3. CASE Environment
    BY <2>3 DEF Environment, ApplyManifest, DeleteGitSecret, DeleteLegacy, server,
           secretServer, history, UnchangedByUsers
  <2>4. CASE UNCHANGED vars
    BY <2>4 DEF vars, server, secretServer, history
  <2>. QED BY <2>1, <2>2, <2>3, <2>4 DEF Next
<1>8. UNCHANGED gitsecrets
  BY <1>7 DEF Release, Write, ChangeSecret, Collect, gsServer
<1>. QED BY <1>3, <1>4, <1>5, <1>6, <1>7, <1>8

-----------------------------------------------------------------------------
(* The invariant is preserved. *)

\* What the next version of an object is, its fields one by one.
LEMMA NextVersion ==
    ASSUME TypeOK, NEW g \in GitSecrets, NEW new, new = gitsecrets'[g].obj,
           Deleted(g) \/ Created(g) \/ Edited(g) \/ Recorded(g)
    PROVE  LET old == gitsecrets[g].obj
           IN  \/ new = None
               \/ /\ old = None
                  /\ new.uid = gitsecrets[g].rv + 1 /\ new.gen = 1 /\ new.status = NoStatus
                  /\ new.spec \in UserSpecs
               \/ /\ old # None
                  /\ new.uid = old.uid /\ new.gen = old.gen + 1 /\ new.status = old.status
                  /\ new.spec \in UserSpecs
               \/ /\ old # None /\ old = job.gs.obj /\ pc = "status" /\ g = job.name
                  /\ new.uid = old.uid /\ new.gen = old.gen /\ new.spec = old.spec
                  /\ new.status = job.status
<1>. DEFINE old == gitsecrets[g].obj
<1>1. old # None => old \in GSObjects
  BY DEF TypeOK, Entries
<1>2. CASE Deleted(g)
  BY <1>2 DEF Deleted
<1>3. CASE Created(g)
  BY <1>3 DEF Created
<1>4. CASE Edited(g)
  <2>1. PICK spec \in UserSpecs : old # None /\ new = [old EXCEPT !.spec = spec, !.gen = @ + 1]
    BY <1>4 DEF Edited
  <2>. QED BY <1>1, <2>1 DEF GSObjects
<1>5. CASE Recorded(g)
  <2>1. /\ pc = "status" /\ g = job.name /\ old # None /\ old = job.gs.obj
        /\ new = [old EXCEPT !.status = job.status]
    BY <1>5 DEF Recorded
  <2>. QED BY <1>1, <2>1 DEF GSObjects
<1>. QED BY <1>2, <1>3, <1>4, <1>5

\* A copy of an object, or the version that is there, is no other object's.
LEMMA VersionIdentity ==
    ASSUME TypeOK, NEW g \in GitSecrets, NEW e \in Entries(GSObjects),
           SameOrOlder(e, gitsecrets[g]), SameIdentity(e, gitsecrets[g]),
           SameIdentity(gitsecrets[g], gitsecrets[g]),
           gitsecrets'[g].rv = gitsecrets[g].rv + 1,
           Deleted(g) \/ Created(g) \/ Edited(g) \/ Recorded(g)
    PROVE  SameIdentity(e, gitsecrets'[g]) /\ SameIdentity(gitsecrets'[g], gitsecrets'[g])
<1>. DEFINE old == gitsecrets[g].obj
            new == gitsecrets'[g].obj
<1>1. gitsecrets[g].rv \in Nat /\ (old # None => old.uid \in Nat /\ old.gen \in Nat)
  BY DEF TypeOK, Entries, GSObjects
<1>2. e.rv \in Nat /\ (e.obj # None => e.obj.uid \in Nat /\ e.obj.gen \in Nat)
  BY DEF Entries, GSObjects
<1>3. e.rv <= gitsecrets[g].rv
  BY DEF SameOrOlder
<1>4. CASE new = None
  BY <1>4 DEF SameIdentity
<1>5. CASE old = None /\ new.uid = gitsecrets[g].rv + 1 /\ new.gen = 1
  <2>1. e.obj # None => e.obj.uid <= e.rv /\ e.obj.uid < new.uid
    BY <1>1, <1>2, <1>3, <1>5 DEF SameIdentity
  <2>2. new.uid <= gitsecrets'[g].rv /\ new.gen <= new.gen
    BY <1>1, <1>5
  <2>3. new.uid \in Nat
    BY <1>1, <1>5
  <2>. QED BY <1>2, <2>1, <2>2, <2>3 DEF SameIdentity
<1>6. CASE /\ old # None /\ new.uid = old.uid
           /\ new.gen = old.gen + 1 \/ (new.gen = old.gen /\ new.spec = old.spec)
  <2>1. e.obj # None => /\ e.obj.uid <= e.rv
                        /\ e.obj.uid = old.uid =>
                              /\ e.obj.gen <= old.gen
                              /\ e.obj.gen = old.gen => e.obj.spec = old.spec
    BY <1>6 DEF SameIdentity
  <2>2. old.uid <= gitsecrets[g].rv
    BY <1>6 DEF SameIdentity
  <2>3. new.uid <= gitsecrets'[g].rv /\ new.gen <= new.gen
    BY <1>1, <1>6, <2>2
  <2>4. SameIdentity(e, gitsecrets'[g])
    BY <1>1, <1>2, <1>6, <2>1 DEF SameIdentity
  <2>. QED BY <2>3, <2>4 DEF SameIdentity
<1>. QED BY <1>4, <1>5, <1>6, NextVersion

\* Every step keeps every copy's identity.
LEMMA StepIdentity ==
    ASSUME Inv, IdentityInv, [Next]_vars
    PROVE  IdentityInv'
<1>. TypeOK /\ CopiesInv /\ GitSecretMove /\ SecretMove /\ JobMove
  BY StepMoves DEF Inv
<1>. SUFFICES ASSUME NEW g \in GitSecrets, NEW e \in GSCopies(g)' \cup {gitsecrets'[g]}
              PROVE  SameIdentity(e, gitsecrets'[g])
  BY DEF IdentityInv
<1>1. e \in GSCopies(g) \cup {gitsecrets[g], gitsecrets'[g]}
  BY CopiesMove
<1>2. SameIdentity(gitsecrets[g], gitsecrets[g])
  BY DEF IdentityInv
<1>3. CASE gitsecrets'[g] = gitsecrets[g]
  BY <1>1, <1>3 DEF IdentityInv
<1>4. CASE gitsecrets'[g] # gitsecrets[g]
  <2>1. PICK h \in GitSecrets :
            /\ gitsecrets' = [gitsecrets EXCEPT ![h] = gitsecrets'[h]]
            /\ gitsecrets'[h].rv = gitsecrets[h].rv + 1
            /\ Deleted(h) \/ Created(h) \/ Edited(h) \/ Recorded(h)
    BY <1>4, GitSecretStep
  <2>2. h = g
    BY <1>4, <2>1 DEF TypeOK
  <2>3. gitsecrets[g] \in Entries(GSObjects) /\ SameOrOlder(gitsecrets[g], gitsecrets[g])
    BY DEF TypeOK, Entries, SameOrOlder
  <2>4. CASE e = gitsecrets'[g]
    BY <1>2, <2>1, <2>2, <2>3, <2>4, VersionIdentity
  <2>5. CASE e \in GSCopies(g) \cup {gitsecrets[g]}
    <3>1. e \in Entries(GSObjects)
      BY <2>3, <2>5 DEF GSCopies, TypeOK, Jobs
    <3>2. SameOrOlder(e, gitsecrets[g]) /\ SameIdentity(e, gitsecrets[g])
      BY <2>3, <2>5 DEF CopiesInv, IdentityInv
    <3>. QED BY <1>2, <2>1, <2>2, <3>1, <3>2, VersionIdentity
  <2>. QED BY <1>1, <2>4, <2>5
<1>. QED BY <1>3, <1>4

\* What is written for a copy is written for a uid that is not to come.
LEMMA StepWritten ==
    ASSUME Inv, IdentityInv, WrittenInv, [Next]_vars
    PROVE  WrittenInv'
<1>. TypeOK /\ CopiesInv /\ GitSecretMove
  BY StepMoves DEF Inv
<1>. SUFFICES ASSUME NEW g \in GitSecrets, NEW w \in applied', w[1] = g
              PROVE  w[2] <= gitsecrets'[g].rv
  BY DEF WrittenInv
<1>1. w[2] <= gitsecrets[g].rv /\ w[2] \in Nat
  <2>1. CASE w \in applied
    BY <2>1 DEF WrittenInv, TypeOK
  <2>2. CASE w \notin applied
    <3>1. /\ pc = "write"
          /\ applied' = applied \cup {<<job.name, job.gs.obj.uid, job.gs.obj.gen>>}
      BY <2>2, SecretStep DEF Released, Written, ChangedByOthers
    <3>2. w = <<job.name, job.gs.obj.uid, job.gs.obj.gen>>
      BY <2>2, <3>1
    <3>3. job.gs.obj # None /\ job.gs.obj \in GSObjects /\ job \in Jobs
      BY <3>1, JobTruthful
    <3>4. job.gs \in GSCopies(g)
      BY <3>1, <3>2 DEF GSCopies
    <3>5. job.gs.obj.uid <= job.gs.rv /\ job.gs.rv <= gitsecrets[g].rv
      BY <3>3, <3>4 DEF IdentityInv, SameIdentity, CopiesInv, SameOrOlder
    <3>6. job.gs.obj.uid \in Nat /\ job.gs.rv \in Nat /\ gitsecrets[g].rv \in Nat
      BY <3>3 DEF GSObjects, Jobs, Entries, TypeOK
    <3>. QED BY <3>2, <3>5, <3>6
  <2>. QED BY <2>1, <2>2
<1>2. gitsecrets[g].rv \in Nat
  BY DEF TypeOK, Entries
<1>. QED BY <1>1, <1>2 DEF GitSecretMove

\* A failure path's condition keeps the observed generation.
LEMMA ReportRecord ==
    ASSUME NEW q, NEW j \in Jobs, NEW reason, NEW err, Report(q, j, reason, err), j.gs.obj # None
    PROVE  RecordInv'
<1>1. j.gs.obj \in GSObjects
  BY DEF Jobs, Entries
<1>2. setCondition(j.gs.obj.status, j.gs.obj, reason).observed = j.gs.obj.status.observed
  BY <1>1 DEF setCondition, GSObjects, Statuses
<1>. QED BY <1>2, ReportSteps DEF RecordInv

LEMMA StepRecord ==
    ASSUME Inv, RecordInv, [Next]_vars
    PROVE  RecordInv'
<1>. TypeOK
  BY DEF Inv
<1>1. ASSUME NEW g \in GitSecrets, Fetch(g) PROVE RecordInv'
  <2>. DEFINE locals == [NoJob EXCEPT !.name = g, !.gs = gsCache[g]]
  <2>1. locals \in Jobs /\ locals.gs = gsCache[g]
    BY NoJobType DEF NoJob, Jobs, TypeOK
  <2>2. \/ pc' \in {"idle", "guard"}
        \/ gsCache[g].obj # None /\ Report(queue \ {g}, locals, "UnsealFailed", FALSE)
    BY <1>1 DEF Fetch, Return
  <2>. HIDE DEF locals
  <2>. QED BY <2>1, <2>2, ReportRecord DEF RecordInv
<1>2. ASSUME Guard PROVE RecordInv'
  <2>. DEFINE locals == [job EXCEPT !.existing = secretCache[Target]]
  <2>1. pc # "idle" /\ job \in Jobs /\ job.gs.obj # None /\ secretCache[Target] \in Entries(SecretObjects)
    BY <1>2, TargetType DEF Guard, TypeOK
  <2>2. locals \in Jobs /\ locals.gs = job.gs
    BY <2>1 DEF Jobs
  <2>3. pc' \in {"release", "lookup", "idle"} \/ Report(queue, locals, "TargetConflict", FALSE)
    BY <1>2 DEF Guard, Return
  <2>. HIDE DEF locals
  <2>. QED BY <2>1, <2>2, <2>3, ReportRecord DEF RecordInv
<1>3. ASSUME Lookup PROVE RecordInv'
  <2>1. pc # "idle" /\ job \in Jobs /\ job.gs.obj # None
    BY <1>3 DEF Lookup, TypeOK
  <2>2. pc' = "write" \/ Report(queue, job, "ApplyFailed", TRUE)
    BY <1>3 DEF Lookup
  <2>. QED BY <2>1, <2>2, ReportRecord DEF RecordInv
<1>4. ASSUME Write PROVE RecordInv'
  <2>. DEFINE gs == job.gs.obj
              status == [setCondition(gs.status, gs, "Synced") EXCEPT
                            !.observed = gs.gen, !.synced = clock']
              done == [job EXCEPT !.status = status, !.retry = FALSE, !.wrote = secrets' # secrets]
  <2>1. pc # "idle" /\ job \in Jobs /\ gs # None
    BY <1>4 DEF Write, TypeOK
  <2>2. gs \in GSObjects
    BY <2>1, JobTruthful
  <2>3. status.reason = "Synced"
    BY <2>2 DEF setCondition, GSObjects, Statuses
  <2>4. job' = done \/ Report(queue, job, "ApplyFailed", TRUE)
    BY <1>4 DEF Write
  <2>5. done.status = status
    <3>. HIDE DEF status
    <3>. QED BY <2>1 DEF Jobs
  <2>. HIDE DEF done, status
  <2>6. CASE job' = done
    BY <2>3, <2>5, <2>6 DEF RecordInv
  <2>. QED BY <2>1, <2>4, <2>6, ReportRecord DEF gs
<1>5. CASE Release \/ StatusWrite \/ Restart
  BY <1>5 DEF Release, StatusWrite, Restart, Return, RecordInv
<1>6. CASE Manager \/ Environment \/ (\E s \in Secrets : Collect(s)) \/ UNCHANGED vars
  <2>1. UNCHANGED <<pc, job>>
    BY <1>6 DEF Manager, ObserveGitSecret, ObserveSecret, Resync, Environment, ApplyManifest,
           DeleteGitSecret, DeleteLegacy, ChangeSecret, Collect, UnchangedByUsers, vars
  <2>. QED BY <2>1 DEF RecordInv
<1>. QED BY <1>1, <1>2, <1>3, <1>4, <1>5, <1>6 DEF Next, Reconcile

LEMMA InitMirrorInv == Init => MirrorInv
<1>. SUFFICES ASSUME Init PROVE MirrorInv
  OBVIOUS
<1>1. \A g \in GitSecrets : GSCopies(g) \cup {gitsecrets[g]} = {NoEntry}
  BY DEF Init, GSCopies
<1>2. IdentityInv
  BY <1>1 DEF IdentityInv, SameIdentity, NoEntry
<1>3. WrittenInv /\ RecordInv
  BY DEF Init, WrittenInv, RecordInv
<1>. QED BY <1>2, <1>3, InitInv DEF MirrorInv

LEMMA StepMirrorInv == MirrorInv /\ [Next]_vars => MirrorInv'
BY StepInv, StepIdentity, StepWritten, StepRecord DEF MirrorInv

-----------------------------------------------------------------------------
(* The refinement. *)

Objects == [g \in GitSecrets |-> Seen(g)]
Held == [s \in Secrets |-> secrets[s].obj]

\* What SecretMirror sees of an object that is there, and that it is not None.
SeenOf(g, obj) ==
    [uid |-> obj.uid, gen |-> obj.gen, target |-> TargetName(g, obj.spec),
     data |-> IF Unseals(obj.spec) THEN obj.spec.sealed ELSE None,
     observed |-> obj.status.observed,
     ready |-> IF obj.status.reason = "Synced" THEN obj.status.at ELSE 0]

SeenInv ==
    \A g \in GitSecrets :
        LET obj == gitsecrets[g].obj
        IN /\ obj = None <=> Seen(g) = None
           /\ obj # None => obj \in GSObjects /\ Seen(g) = SeenOf(g, obj)

LEMMA SeenIsThere == TypeOK => SeenInv
<1>. SUFFICES ASSUME TypeOK, NEW g \in GitSecrets
              PROVE  LET obj == gitsecrets[g].obj
                     IN /\ obj = None <=> Seen(g) = None
                        /\ obj # None => obj \in GSObjects /\ Seen(g) = SeenOf(g, obj)
  BY DEF SeenInv
<1>. DEFINE obj == gitsecrets[g].obj
<1>1. CASE obj = None
  BY <1>1 DEF Seen
<1>2. CASE obj # None
  <2>1. obj \in GSObjects
    BY <1>2 DEF TypeOK, Entries
  <2>2. TargetName(g, obj.spec) \in Secrets
    BY <2>1, ConstantsAssumption DEF GSObjects
  <2>3. Seen(g) = SeenOf(g, obj)
    BY <1>2 DEF Seen, SeenOf
  <2>4. Seen(g) \in SeenObjects
    BY <2>1, <2>2, <2>3 DEF SeenOf, SeenObjects, GSObjects, Statuses, Unseals
  <2>. QED BY <1>2, <2>1, <2>3, <2>4, MirrorAssumption
<1>. QED BY <1>1, <1>2

LEMMA SeenStaysThere == TypeOK' => SeenInv'
BY SeenIsThere, PTL

\* SecretMirror's steps in the controller's terms.
LEMMA ObjectsSeen ==
    ASSUME NEW g \in GitSecrets
    PROVE  Objects[g] = Seen(g) /\ Objects'[g] = Seen(g)'
BY DEF Objects

LEMMA MirrorDelete ==
    ASSUME NEW g \in GitSecrets, Objects[g] # None,
           Objects' = [Objects EXCEPT ![g] = None], UNCHANGED Held, UNCHANGED applied
    PROVE  Promise!Delete(g)
BY DEF Promise!Delete, Promise!OnlyObject, Objects, Held

LEMMA MirrorReport ==
    ASSUME NEW g \in GitSecrets, NEW old, NEW new, Objects[g] = old, Objects'[g] = new,
           old # None, new # None,
           Promise!Same(old, new, {"uid", "gen", "target", "data"}),
           \/ new.ready = 0 /\ new.observed = old.observed
           \/ /\ new.observed = new.ready
              /\ new.ready \in old.observed..old.gen
              /\ <<g, old.uid, new.ready>> \in applied,
           Objects' = [Objects EXCEPT ![g] = new], UNCHANGED Held, UNCHANGED applied
    PROVE  Promise!Report(g)
BY DEF Promise!Report, Promise!Same, Promise!OnlyObject, Objects, Held

LEMMA MirrorApply ==
    ASSUME NEW g \in GitSecrets, NEW old, NEW new, Objects[g] = old, Objects'[g] = new,
           new # None,
           IF old = None
           THEN /\ new.gen = 1 /\ new.observed = 0 /\ new.ready = 0
                /\ \A w \in applied : w[1] = g => w[2] < new.uid
           ELSE Promise!Same(old, new, {"uid", "observed", "ready"}) /\ new.gen = old.gen + 1,
           Objects' = [Objects EXCEPT ![g] = new], UNCHANGED Held, UNCHANGED applied
    PROVE  Promise!Apply(g)
BY DEF Promise!Apply, Promise!Same, Promise!OnlyObject, Objects, Held

LEMMA MirrorMirror ==
    ASSUME NEW g \in GitSecrets, NEW s \in Secrets, NEW w, NEW data \in Payloads,
           w[1] = g, applied' = applied \cup {w},
           IF Held[s] = None THEN TRUE ELSE Promise!MayMirror(g, Held[s].owner),
           Held' = [Held EXCEPT ![s] = [owner |-> Promise!Ref(g, w[2]), data |-> data]],
           UNCHANGED Objects,
           IF Objects[g] = None THEN TRUE
           ELSE Objects[g].uid = w[2] =>
                   /\ w[3] <= Objects[g].gen
                   /\ w[3] = Objects[g].gen => Objects[g].target = s /\ Objects[g].data = data
    PROVE  Promise!Mirror(g, s)
<1>1. w \in applied'
  OBVIOUS
<1>. QED BY <1>1 DEF Promise!Mirror, Promise!OnlySecret, Promise!Ref, Promise!MayMirror, Objects, Held

LEMMA MirrorRelease ==
    ASSUME NEW s \in Secrets, Held[s] # None, Held[s].owner # None,
           Held[s].owner.kind = "Legacy",
           Held' = [Held EXCEPT ![s] = [Held[s] EXCEPT !.owner = None]],
           UNCHANGED Objects, UNCHANGED applied
    PROVE  Promise!Release(s)
BY DEF Promise!Release, Promise!OnlySecret, Objects, Held

LEMMA MirrorOthers ==
    ASSUME NEW s \in Secrets, NEW new, Held'[s] = new,
           IF new = None THEN TRUE
           ELSE /\ new.data = Alien
                /\ IF Held[s] = None THEN Promise!Foreign(new.owner)
                   ELSE new.owner = Held[s].owner,
           Held' = [Held EXCEPT ![s] = new], UNCHANGED Objects, UNCHANGED applied
    PROVE  Promise!Others(s)
BY DEF Promise!Others, Promise!OnlySecret, Promise!Foreign, Objects, Held

\* Only the object that changed is seen to change.
LEMMA OnlyOneSeen ==
    ASSUME TypeOK, NEW g \in GitSecrets,
           gitsecrets' = [gitsecrets EXCEPT ![g] = gitsecrets'[g]]
    PROVE  Objects' = [Objects EXCEPT ![g] = Seen(g)']
<1>1. ASSUME NEW h \in GitSecrets, h # g PROVE Seen(h)' = Seen(h)
  <2>1. gitsecrets'[h] = gitsecrets[h]
    BY <1>1 DEF TypeOK
  <2>. QED BY <2>1 DEF Seen, Unseals, TargetName
<1>. QED BY <1>1 DEF Objects

LEMMA SameSeen == UNCHANGED gitsecrets => UNCHANGED Objects
BY DEF Objects, Seen, Unseals, TargetName

LEMMA OnlyOneHeld ==
    ASSUME TypeOK, NEW s \in Secrets, secrets' = [secrets EXCEPT ![s] = secrets'[s]]
    PROVE  Held' = [Held EXCEPT ![s] = secrets'[s].obj]
<1>1. \A t \in Secrets : t # s => secrets'[t] = secrets[t]
  BY DEF TypeOK
<1>. QED BY <1>1 DEF Held

\* Initially nothing has been applied, and every Secret is somebody else's.
LEMMA InitMirrors == Init => Promise!Init
<1>. SUFFICES ASSUME Init PROVE Promise!Init
  OBVIOUS
<1>1. Objects = [g \in GitSecrets |-> None]
  BY DEF Init, Objects, Seen, NoEntry
<1>2. ASSUME NEW s \in Secrets
      PROVE  IF secrets[s].obj = None THEN TRUE
             ELSE Promise!Foreign(secrets[s].obj.owner) /\ secrets[s].obj.data = Alien
  <2>1. secrets[s] \in InitialSecrets
    BY DEF Init
  <2>. QED BY <2>1 DEF InitialSecrets, NoEntry, OtherOwner, LegacyOwner, Promise!Foreign
<1>3. applied = {}
  BY DEF Init
<1>. QED BY <1>1, <1>2, <1>3 DEF Promise!Init, Objects

\* A change of an object is one that SecretMirror allows.
LEMMA ObjectMirrors ==
    ASSUME MirrorInv, [Next]_vars, gitsecrets' # gitsecrets
    PROVE  Promise!Next
<1>. TypeOK /\ Inv /\ TypeOK'
  BY StepType DEF MirrorInv, Inv
<1>1. PICK g \in GitSecrets :
          /\ gitsecrets' = [gitsecrets EXCEPT ![g] = gitsecrets'[g]]
          /\ gitsecrets'[g].rv = gitsecrets[g].rv + 1
          /\ Deleted(g) \/ Created(g) \/ Edited(g) \/ Recorded(g)
  BY GitSecretStep
<1>. DEFINE old == gitsecrets[g].obj
            new == gitsecrets'[g].obj
<1>2. /\ Objects' = [Objects EXCEPT ![g] = Seen(g)']
      /\ UNCHANGED Held /\ UNCHANGED applied
  <2>1. UNCHANGED <<secrets, applied>>
    BY GitSecretStep
  <2>. QED BY <1>1, <2>1, OnlyOneSeen DEF Held
<1>3. /\ Objects[g] = Seen(g) /\ Objects'[g] = Seen(g)'
      /\ old = None <=> Seen(g) = None
      /\ new = None <=> Seen(g)' = None
      /\ old # None => old \in GSObjects /\ Seen(g) = SeenOf(g, old)
      /\ new # None => new \in GSObjects /\ Seen(g)' = SeenOf(g, new)
  <2>1. SeenInv /\ SeenInv'
    BY SeenIsThere, SeenStaysThere
  <2>2. old # None => old \in GSObjects /\ Seen(g) = SeenOf(g, old)
    BY <2>1 DEF SeenInv
  <2>3. new # None => new \in GSObjects /\ Seen(g)' = SeenOf(g, new)
    BY <2>1 DEF SeenInv, SeenOf, Unseals, TargetName
  <2>4. (old = None <=> Seen(g) = None) /\ (new = None <=> Seen(g)' = None)
    BY <2>1 DEF SeenInv
  <2>. QED BY <2>2, <2>3, <2>4, ObjectsSeen
<1>4. CASE new = None
  <2>1. old # None
    <3>1. ASSUME NEW spec \in UserSpecs
          PROVE  [uid |-> gitsecrets[g].rv + 1, gen |-> 1, spec |-> spec, status |-> NoStatus] # None
      <4>1. [uid |-> gitsecrets[g].rv + 1, gen |-> 1, spec |-> spec, status |-> NoStatus] \in GSObjects
        BY DEF TypeOK, Entries, GSObjects, NoStatus, Statuses, Reasons
      <4>. QED BY <4>1, ConstantsAssumption
    <3>2. ~Created(g)
      BY <1>4, <3>1 DEF Created
    <3>. QED BY <1>1, <3>2 DEF Deleted, Edited, Recorded
  <2>2. Promise!Delete(g)
    BY <1>2, <1>3, <1>4, <2>1, MirrorDelete
  <2>. QED BY <2>2 DEF Promise!Next
<1>5. CASE old = None /\ new # None
  <2>1. new.uid = gitsecrets[g].rv + 1 /\ new.gen = 1 /\ new.status = NoStatus
    BY <1>1, <1>5, NextVersion
  <2>2. Seen(g)'.uid = new.uid /\ Seen(g)'.gen = 1 /\ Seen(g)'.observed = 0 /\ Seen(g)'.ready = 0
    BY <1>5, <2>1 DEF Seen, NoStatus
  <2>3. \A w \in applied : w[1] = g => w[2] < new.uid
    <3>1. gitsecrets[g].rv \in Nat /\ \A w \in applied : w[2] \in Nat
      BY DEF TypeOK, Entries
    <3>. QED BY <2>1, <3>1 DEF MirrorInv, WrittenInv
  <2>4. Promise!Apply(g)
    BY <1>2, <1>3, <1>5, <2>2, <2>3, MirrorApply
  <2>. QED BY <2>4 DEF Promise!Next
<1>6. CASE old # None /\ new # None /\ new.gen = old.gen + 1
  <2>1. new.uid = old.uid /\ new.status = old.status
    <3>1. old.gen \in Nat
      BY <1>6 DEF TypeOK, Entries, GSObjects
    <3>2. old.gen # old.gen + 1
      BY <3>1
    <3>. QED BY <1>1, <1>6, <3>2, NextVersion
  <2>2. /\ Promise!Same(Seen(g), Seen(g)', {"uid", "observed", "ready"})
        /\ Seen(g)'.gen = Seen(g).gen + 1
    <3>1. Seen(g) = SeenOf(g, old) /\ Seen(g)' = SeenOf(g, new)
      BY <1>3, <1>6
    <3>. HIDE DEF old, new
    <3>. QED BY <1>6, <2>1, <3>1 DEF SeenOf, Promise!Same
  <2>3. Promise!Apply(g)
    BY <1>2, <1>3, <1>6, <2>2, MirrorApply
  <2>. QED BY <2>3 DEF Promise!Next
<1>7. CASE /\ old # None /\ new # None /\ old = job.gs.obj /\ pc = "status" /\ g = job.name
           /\ new.uid = old.uid /\ new.gen = old.gen /\ new.spec = old.spec
           /\ new.status = job.status
  <2>1. /\ job.status.observed \in old.status.observed..old.gen
        /\ Truthful(g, [old EXCEPT !.status = job.status])
    BY <1>7 DEF Inv, JobInv
  <2>2. old \in GSObjects
    BY <1>7 DEF TypeOK, Entries
  <2>3. job.status.reason = "Synced" =>
           /\ job.status.observed = job.status.at
           /\ <<g, old.uid, job.status.at>> \in applied
    <3>. DEFINE reported == [old EXCEPT !.status = job.status]
    <3>1. job.status \in Statuses
      BY DEF TypeOK, Jobs
    <3>2. reported \in GSObjects /\ reported.status = job.status /\ reported.uid = old.uid
      BY <2>2, <3>1 DEF GSObjects
    <3>3. reported # None
      BY <3>2, ConstantsAssumption
    <3>. HIDE DEF reported
    <3>. QED BY <2>1, <3>2, <3>3 DEF Truthful, Ready, reported
  <2>4. job.status.reason # "Synced" => job.status.observed = old.status.observed
    BY <1>7 DEF MirrorInv, RecordInv
  <2>5. Unseals(new.spec) = Unseals(old.spec) /\ TargetName(g, new.spec) = TargetName(g, old.spec)
    BY <1>7
  <2>. Seen(g) = SeenOf(g, old) /\ Seen(g)' = SeenOf(g, new)
    BY <1>3, <1>7
  <2>. HIDE DEF old, new
  <2>6. CASE job.status.reason = "Synced"
    <3>1. /\ Promise!Same(Seen(g), Seen(g)', {"uid", "gen", "target", "data"})
          /\ Seen(g)'.ready = job.status.at /\ Seen(g)'.observed = job.status.at
      BY <1>7, <2>3, <2>5, <2>6 DEF SeenOf, Promise!Same
    <3>2. Seen(g).observed = old.status.observed /\ Seen(g).gen = old.gen /\ Seen(g).uid = old.uid
      BY <1>7 DEF SeenOf
    <3>3. Promise!Report(g)
      <4>1. Seen(g)'.ready \in Seen(g).observed..Seen(g).gen
        BY <1>7, <2>1, <2>3, <2>6, <3>1, <3>2
      <4>2. <<g, Seen(g).uid, Seen(g)'.ready>> \in applied
        BY <2>3, <2>6, <3>1, <3>2
      <4>. QED BY <1>2, <1>3, <1>7, <3>1, <4>1, <4>2, MirrorReport
    <3>. QED BY <3>3 DEF Promise!Next
  <2>7. CASE job.status.reason # "Synced"
    <3>1. /\ Promise!Same(Seen(g), Seen(g)', {"uid", "gen", "target", "data"})
          /\ Seen(g)'.ready = 0 /\ Seen(g)'.observed = Seen(g).observed
      BY <1>7, <2>4, <2>5, <2>7 DEF SeenOf, Promise!Same
    <3>2. Promise!Report(g)
      BY <1>2, <1>3, <1>7, <3>1, MirrorReport
    <3>. QED BY <3>2 DEF Promise!Next
  <2>. QED BY <2>6, <2>7
<1>. QED BY <1>1, <1>4, <1>5, <1>6, <1>7, NextVersion

\* The write of a Secret mirrors a generation of its object.
LEMMA WriteMirrors ==
    ASSUME MirrorInv, [Next]_vars, NEW s \in Secrets, Written(s), UNCHANGED gitsecrets,
           secrets' = [secrets EXCEPT ![s] = secrets'[s]]
    PROVE  Promise!Mirror(job.name, s)
<1>. DEFINE g == job.name
            gs == job.gs.obj
            w == <<g, gs.uid, gs.gen>>
            current == gitsecrets[g].obj
<1>. TypeOK /\ Inv
  BY DEF MirrorInv, Inv
<1>1. /\ pc = "write" /\ s = Target
      /\ secrets[s].obj = None \/ Promise!MayMirror(g, secrets[s].obj.owner)
      /\ secrets'[s].obj = [owner |-> Self, data |-> gs.spec.sealed]
      /\ applied' = applied \cup {w}
  BY DEF Written
<1>2. job \in Jobs /\ g \in GitSecrets /\ gs # None /\ gs \in GSObjects
  BY <1>1, JobTruthful
<1>3. gs.spec.sealed \in Payloads
  BY <1>1 DEF Inv, JobInv, Unseals
<1>4. Self = Promise!Ref(g, gs.uid)
  BY DEF Self, Ref, Promise!Ref
<1>5. /\ Held' = [Held EXCEPT ![s] = [owner |-> Promise!Ref(g, gs.uid), data |-> gs.spec.sealed]]
      /\ UNCHANGED Objects
  BY <1>1, <1>4, OnlyOneHeld, SameSeen
<1>6. ASSUME current # None, current.uid = gs.uid
      PROVE  /\ gs.gen <= current.gen
             /\ gs.gen = current.gen =>
                   Seen(g).target = s /\ Seen(g).data = gs.spec.sealed
  <2>1. job.gs \in GSCopies(g)
    BY <1>1 DEF GSCopies
  <2>2. gs.gen <= current.gen /\ (gs.gen = current.gen => gs.spec = current.spec)
    BY <1>2, <1>6, <2>1 DEF MirrorInv, IdentityInv, SameIdentity
  <2>3. Seen(g).target = TargetName(g, current.spec)
        /\ (Unseals(current.spec) => Seen(g).data = current.spec.sealed)
    BY <1>6 DEF Seen
  <2>. QED BY <1>1, <1>3, <2>2, <2>3 DEF Target, Unseals
<1>7. Objects[g] = Seen(g) /\ (Seen(g) = None <=> current = None)
  BY <1>2, SeenIsThere, ObjectsSeen DEF SeenInv
<1>8. current # None => Seen(g).uid = current.uid /\ Seen(g).gen = current.gen
  BY DEF Seen
<1>9. w[1] = g /\ w[2] = gs.uid /\ w[3] = gs.gen /\ w \in applied'
  BY <1>1
<1>10. IF Objects[g] = None THEN TRUE
       ELSE Objects[g].uid = w[2] =>
               /\ w[3] <= Objects[g].gen
               /\ w[3] = Objects[g].gen => Objects[g].target = s /\ Objects[g].data = gs.spec.sealed
  BY <1>6, <1>7, <1>8, <1>9
<1>11. IF Held[s] = None THEN TRUE ELSE Promise!MayMirror(g, Held[s].owner)
  BY <1>1, <1>4, <1>9 DEF Held
<1>. HIDE DEF w, g, gs
<1>12. applied' = applied \cup {w}
  BY <1>1
<1>. QED BY <1>2, <1>3, <1>5, <1>9, <1>10, <1>11, <1>12, MirrorMirror DEF g

\* A change of a Secret is one that SecretMirror allows.
LEMMA SecretMirrors ==
    ASSUME MirrorInv, [Next]_vars, secrets' # secrets \/ applied' # applied
    PROVE  Promise!Next
<1>. TypeOK /\ Inv
  BY DEF MirrorInv, Inv
<1>1. PICK s \in Secrets :
          /\ secrets' = [secrets EXCEPT ![s] = secrets'[s]]
          /\ Released(s) \/ Written(s) \/ ChangedByOthers(s)
  BY SecretStep
<1>2. UNCHANGED gitsecrets /\ UNCHANGED Objects
  BY SecretStep, SameSeen
<1>3. Held' = [Held EXCEPT ![s] = secrets'[s].obj]
  BY <1>1, OnlyOneHeld
<1>4. Held[s] = secrets[s].obj /\ Held'[s] = secrets'[s].obj
  BY DEF Held
<1>5. CASE Released(s)
  <2>1. Promise!Release(s)
    BY <1>2, <1>3, <1>4, <1>5, MirrorRelease DEF Released
  <2>. QED BY <2>1 DEF Promise!Next
<1>6. CASE Written(s)
  <2>1. job.name \in GitSecrets
    BY <1>6, JobTruthful DEF Written
  <2>2. Promise!Mirror(job.name, s)
    BY <1>1, <1>2, <1>6, WriteMirrors
  <2>. QED BY <2>1, <2>2 DEF Promise!Next
<1>7. CASE ChangedByOthers(s)
  <2>1. secrets[s].obj # None => secrets[s].obj \in SecretObjects
    BY DEF TypeOK, Entries
  <2>2. IF secrets'[s].obj = None THEN TRUE
        ELSE /\ secrets'[s].obj.data = Alien
             /\ IF secrets[s].obj = None THEN Promise!Foreign(secrets'[s].obj.owner)
                ELSE secrets'[s].obj.owner = secrets[s].obj.owner
    <3>1. ASSUME NEW owner \in {None} \cup {OtherOwner(g) : g \in GitSecrets},
                 secrets[s].obj = None, secrets'[s].obj = [owner |-> owner, data |-> Alien]
          PROVE  secrets'[s].obj.data = Alien /\ Promise!Foreign(secrets'[s].obj.owner)
      BY <3>1 DEF Promise!Foreign, OtherOwner
    <3>2. ASSUME secrets[s].obj # None, secrets'[s].obj = [secrets[s].obj EXCEPT !.data = Alien]
          PROVE  secrets'[s].obj.data = Alien /\ secrets'[s].obj.owner = secrets[s].obj.owner
      BY <2>1, <3>2 DEF SecretObjects
    <3>. QED BY <1>7, <3>1, <3>2 DEF ChangedByOthers
  <2>3. UNCHANGED applied
    BY <1>7 DEF ChangedByOthers
  <2>4. Promise!Others(s)
    BY <1>2, <1>3, <1>4, <2>2, <2>3, MirrorOthers
  <2>. QED BY <2>4 DEF Promise!Next
<1>. QED BY <1>1, <1>5, <1>6, <1>7

LEMMA StepMirrors == MirrorInv /\ [Next]_vars => [Promise!Next]_(Promise!vars)
<1>. SUFFICES ASSUME MirrorInv, [Next]_vars PROVE [Promise!Next]_(Promise!vars)
  OBVIOUS
<1>1. CASE UNCHANGED <<gitsecrets, secrets, applied>>
  <2>1. UNCHANGED Objects /\ UNCHANGED Held
    BY <1>1, SameSeen DEF Held
  <2>. QED BY <1>1, <2>1 DEF Promise!vars, Objects, Held
<1>. QED BY <1>1, ObjectMirrors, SecretMirrors

\* The controller, with its stale reads, lost races, failed calls and restarts, does
\* what SecretMirror promises and no more: every write of a Secret is for some
\* generation of its object and respects its owner, every report is of a write.
THEOREM ControllerMirrorsSecrets == Spec => MirrorsSecrets
<1>1. Init => MirrorInv
  BY InitMirrorInv
<1>2. MirrorInv /\ [Next]_vars => MirrorInv'
  BY StepMirrorInv
<1>. QED BY <1>1, <1>2, InitMirrors, StepMirrors, PTL DEF Spec, MirrorsSecrets, Promise!Spec

=============================================================================
