---------------------------- MODULE SecretMirror ----------------------------
(***************************************************************************)
(* What the GitSecret controller promises to whoever applies a GitSecret,  *)
(* with nothing of how it works: no cache, no queue, no calls.  A write of *)
(* a Secret and a report of Ready are single steps.                        *)
(*                                                                         *)
(* GitSecretController is shown to implement Spec.  A step is described by *)
(* what it may do to one object or one Secret.                             *)
(***************************************************************************)
EXTENDS Naturals

CONSTANTS GitSecrets, Secrets, Payloads, Alien, None

VARIABLES
    objects,  \* name -> None, or uid, generation, target, what it unseals to (None
              \* when it does not), observed generation, and the generation that
              \* Ready is True for, 0 for none
    secrets,  \* name -> None, or owner and data
    written   \* <<name, uid, generation>> of the objects' generations that were written

vars == <<objects, secrets, written>>

Foreign(owner) == IF owner = None THEN TRUE ELSE owner.kind # "GitSecret"
Ref(g, uid) == [kind |-> "GitSecret", name |-> g, uid |-> uid]
MayMirror(g, owner) ==
    IF owner = None THEN TRUE ELSE owner.kind = "GitSecret" /\ owner.name = g

Init ==
    /\ objects = [g \in GitSecrets |-> None]
    /\ secrets = [s \in Secrets |-> secrets[s]]
    /\ \A s \in Secrets : IF secrets[s] = None THEN TRUE
                          ELSE Foreign(secrets[s].owner) /\ secrets[s].data = Alien
    /\ written = {}

Same(old, new, fields) == \A f \in fields : new[f] = old[f]

OnlyObject(g, new) == objects' = [objects EXCEPT ![g] = new] /\ UNCHANGED <<secrets, written>>
OnlySecret(s, new) == secrets' = [secrets EXCEPT ![s] = new] /\ UNCHANGED objects

\* An object is created under a uid of its own, edited, or deleted.
Apply(g) ==
    LET new == objects'[g]
    IN /\ new # None
       /\ IF objects[g] = None
          THEN /\ new.gen = 1 /\ new.observed = 0 /\ new.ready = 0
               /\ \A w \in written : w[1] = g => w[2] < new.uid
          ELSE /\ Same(objects[g], new, {"uid", "observed", "ready"})
               /\ new.gen = objects[g].gen + 1
       /\ OnlyObject(g, new)

Delete(g) == objects[g] # None /\ OnlyObject(g, None)

\* A Secret is made to mirror one generation of g: nobody's, g's own, or that of
\* another object that bore g's name.  Of an object that is there it is none to
\* come, and the current one goes where its spec says, as its spec says.
Mirror(g, s) ==
    \E w \in written' :
        /\ w[1] = g
        /\ written' = written \cup {w}
        /\ IF secrets[s] = None THEN TRUE ELSE MayMirror(g, secrets[s].owner)
        /\ \E data \in Payloads :
              /\ OnlySecret(s, [owner |-> Ref(g, w[2]), data |-> data])
              /\ IF objects[g] = None THEN TRUE
                 ELSE objects[g].uid = w[2] =>
                         /\ w[3] <= objects[g].gen
                         /\ w[3] = objects[g].gen => objects[g].target = s /\ objects[g].data = data

\* Ready becomes True for a generation that was written, or it becomes False.
Report(g) ==
    LET old == objects[g]
        new == objects'[g]
    IN /\ old # None /\ new # None
       /\ Same(old, new, {"uid", "gen", "target", "data"})
       /\ \/ new.ready = 0 /\ new.observed = old.observed
          \/ /\ new.observed = new.ready
             /\ new.ready \in old.observed..old.gen
             /\ <<g, old.uid, new.ready>> \in written
       /\ OnlyObject(g, new)

\* The reference of a pre-rename object is taken off.
Release(s) ==
    /\ secrets[s] # None /\ secrets[s].owner # None /\ secrets[s].owner.kind = "Legacy"
    /\ OnlySecret(s, [secrets[s] EXCEPT !.owner = None])
    /\ UNCHANGED written

\* Others create, change and delete Secrets, the garbage collector among them.
Others(s) ==
    LET new == secrets'[s]
    IN /\ IF new = None THEN TRUE
          ELSE /\ new.data = Alien
               /\ IF secrets[s] = None THEN Foreign(new.owner) ELSE new.owner = secrets[s].owner
       /\ OnlySecret(s, new)
       /\ UNCHANGED written

Next ==
    \/ \E g \in GitSecrets : Apply(g) \/ Delete(g) \/ Report(g) \/ \E s \in Secrets : Mirror(g, s)
    \/ \E s \in Secrets : Release(s) \/ Others(s)

Spec == Init /\ [][Next]_vars

=============================================================================
