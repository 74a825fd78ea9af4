--------------------------- MODULE SealedManifests ---------------------------
(***************************************************************************)
(* The life of GitSecret manifests in a repository: keyfold's seal,        *)
(* --rewrap, recipients add and remove, rekey, set, unseal and migrate     *)
(* (cmd/keyfold), internal/sealer under them, and the admission webhook    *)
(* (internal/webhook) that lets a manifest into the cluster.               *)
(*                                                                         *)
(* A manifest is what decides who can read it: the content key it is       *)
(* sealed under, the fingerprints that key is wrapped to, those that       *)
(* spec.recipients lists, and the annotations.  An operator is the         *)
(* fingerprint whose secret key is at hand.  recipients add and remove     *)
(* compute every file and then write them one by one; the other commands   *)
(* print one manifest, which the user saves.  The repository has a second  *)
(* branch, and git merges manifests line by line: the list, the wrapped    *)
(* key, the data and each annotation on its own.                           *)
(***************************************************************************)
EXTENDS Naturals, FiniteSets

CONSTANTS
    Manifests,    \* paths, one object each
    Fprs,         \* fingerprints; each is also the operator who holds the secret key
    Recovery,     \* fingerprints whose role is "recovery"
    Keyring,      \* recipients of the --keyring file
    Lists,        \* bound: what --recipient is given to seal and --rewrap
    Wanted,       \* a recipient to be added everywhere
    Overlaps,     \* whether other commands run while a bulk change is being written
    MaxKeys,      \* bound: content keys generated
    MaxValues,    \* bound: values a secret has in turn
    MaxCommands,  \* bound: commands that rewrite manifests, merges and checkouts
    MaxFailures   \* bound: writes that fail, processes that die

Keys == 0..MaxKeys
Values == 0..MaxValues

\* How a merge that took a manifest's fields from two versions may have left it: the
\* list with more, or with fewer, than the key was wrapped to; the data, or the stamp,
\* of another version than the key, or the data.
Splits == {"more", "fewer", "values", "stamp"}

\* The wrapped key: what it is (key) and for whom (wrapped).  The data: the key it is
\* sealed under and the value.  The role annotation may be under its pre-rename key;
\* recovery is who it gives that role.  stamp is the value the provenance annotation was
\* written for, 0 when there is none.  The last two are history: what merges have left
\* apart and no command has mended since; whether the recovery recipients it was sealed
\* to have been guarded, that is, neither forced, rewrapped nor merged away.
Contents == [kind : {"none", "gitsecret", "broken"}, group : {"legacy", "current"},
             key : Keys, wrapped : SUBSET Fprs, sealed : Keys, value : Values,
             recipients : SUBSET Fprs,
             recovery : SUBSET Fprs, rolesKey : {"legacy", "current"}, stamp : Values,
             spliced : SUBSET Splits, guarded : BOOLEAN]

NoFile == [kind |-> "none", group |-> "current", key |-> 0, wrapped |-> {}, sealed |-> 0,
           value |-> 0, recipients |-> {}, recovery |-> {}, rolesKey |-> "current", stamp |-> 0,
           spliced |-> {}, guarded |-> FALSE]
Broken == [NoFile EXCEPT !.kind = "broken"]

ASSUME ConstantsAssumption ==
    /\ IsFiniteSet(Fprs)
    /\ Recovery \subseteq Fprs /\ Keyring \subseteq Fprs
    /\ Lists \subseteq SUBSET Fprs
    /\ Wanted \in Fprs
    /\ Overlaps \in BOOLEAN
    /\ MaxKeys \in Nat /\ MaxValues \in Nat \ {0} /\ MaxCommands \in Nat /\ MaxFailures \in Nat

VARIABLES
    files,     \* the working tree
    branch,    \* the other branch's tree
    pending,   \* what the bulk command has computed and not yet written
    values,    \* the latest value of each object's secret
    generated, \* content keys generated
    commands, failures, \* used up of MaxCommands and MaxFailures
    granted,   \* history: who was wrapped which content key
    out        \* history: who a re-encryption of the manifest has locked out

repository == <<files, branch, pending, generated>>
history == <<granted, out>>
vars == <<repository, history, values, commands, failures>>

TypeOK ==
    /\ files \in [Manifests -> Contents]
    /\ branch \in [Manifests -> Contents]
    /\ pending \in [Manifests -> Contents]
    /\ values \in [Manifests -> Values]
    /\ generated \in Keys
    /\ commands \in 0..MaxCommands /\ failures \in 0..MaxFailures
    /\ granted \subseteq Fprs \X (1..generated)
    /\ out \in [Manifests -> SUBSET Fprs]
    /\ \A p \in Manifests : /\ pending[p].kind # "broken"
                            /\ files[p].kind = "gitsecret" => files[p].wrapped # {}

Init ==
    /\ files = [p \in Manifests |-> NoFile]
    /\ branch = files /\ pending = files
    /\ values = [p \in Manifests |-> 1]
    /\ generated = 0
    /\ commands = 0 /\ failures = 0
    /\ granted = {}
    /\ out = [p \in Manifests |-> {}]

-----------------------------------------------------------------------------
(* internal/sealer. *)

\* gpg, with the secret key that op has.
Decrypt(content, op) == op \in content.wrapped

\* Whether op gets at the values: Unseal, and with it keyfold unseal.
Unseals(content, op) == Decrypt(content, op) /\ content.sealed = content.key

\* Mutant of Rewrap: wraps to whom the old blob was wrapped too.
RewrapAdding(content, next) ==
    [content EXCEPT !.wrapped = @ \cup next, !.recipients = next,
                    !.spliced = @ \ {"more", "fewer"}]

\* The same content key, wrapped to next instead.
Rewrap(content, next) ==
    [content EXCEPT !.wrapped = next, !.recipients = next, !.spliced = @ \ {"more", "fewer"}]

\* Mutant of Seal: the content key is used again.
SealKeepingKey(content, value, recipients, key) ==
    [content EXCEPT !.kind = "gitsecret", !.key = IF @ = 0 THEN key ELSE @,
                    !.sealed = IF @ = 0 THEN key ELSE @,
                    !.wrapped = recipients, !.recipients = recipients, !.value = value,
                    !.spliced = @ \cap {"stamp"}]

\* Every value under a fresh content key.
Seal(content, value, recipients, key) ==
    [content EXCEPT !.kind = "gitsecret", !.key = key, !.sealed = key,
                    !.wrapped = recipients, !.recipients = recipients, !.value = value,
                    !.spliced = @ \cap {"stamp"}]

\* Mutant of VerifyRecipients: a warning, as in the controller.
VerifyNothing(content) == TRUE

\* From the packet headers of the wrapped key, which do not say who they are.
CountRecipients(content) == Cardinality(content.wrapped)

\* The count of recipients listed and wrapped to is compared, nothing more.  A list that
\* names somebody twice does not come as far: the CRD has it a set
\* (gitsecret_types.go:56).
VerifyRecipients(content) ==
    content.recipients = {} \/ Cardinality(content.recipients) = CountRecipients(content)

-----------------------------------------------------------------------------
(* recipients add and remove. *)

\* Mutant of ParseRecipientRoles: the pre-rename annotation is not looked at.
CurrentRoles(content) == IF content.rolesKey = "current" THEN content.recovery ELSE {}

\* Annotation falls back to the pre-rename key.
ParseRecipientRoles(content) == content.recovery

\* Mutant of NoChange: an object that has f already counts as one that fails.
AlwaysChange(content, add, f) == FALSE

NoChange(content, add, f) == (f \in content.recipients) <=> add

\* Mutant of MayApply: --force lets the last recipient go.
MayApplyForced(content, add, f, force, op) ==
    /\ Decrypt(content, op)
    /\ f \in content.recipients <=> ~add
    /\ add \/ force \/ (content.recipients \ {f}) \cap content.recovery # {}

\* next is empty: refused with --force too, by Rewrap.
MayApply(content, add, f, force, op) ==
    LET next == content.recipients \ {f}
        roles == ParseRecipientRoles(content)
    IN /\ Decrypt(content, op)
       /\ add => f \notin content.recipients
       /\ add \/ /\ f \in content.recipients /\ next # {}
                 /\ force \/ f \notin roles \/ next \cap roles # {}

\* The roles are written under the current key.  --role gives f the recovery role, or
\* another in place of one that a list without f still had for it.
applyRecipientChange(content, add, f, role) ==
    LET next == IF add THEN content.recipients \cup {f} ELSE content.recipients \ {f}
        roles == ParseRecipientRoles(content)
    IN [Rewrap(content, next) EXCEPT
          !.recovery = IF ~add \/ role = "other" THEN roles \ {f}
                       ELSE IF role = "recovery" THEN roles \cup {f} ELSE roles,
          !.rolesKey = "current"]

Idle == \A p \in Manifests : pending[p] = NoFile
Free == Idle \/ Overlaps

Command == commands < MaxCommands /\ commands' = commands + 1

\* What is wrapped is there for good: the repository keeps every version.
Grant(contents) ==
    granted' = granted \cup UNION {{<<f, c.key>> : f \in c.wrapped} : c \in contents}

readGitSecret(p) == files[p].kind = "gitsecret"

\* Of the files named, or walked to in a directory, those that a command fails for:
\* what it finds in a directory may be anything.
Unreadable(targets, walked) == IF walked THEN {} ELSE {p \in targets : ~readGitSecret(p)}

\* What is to be written; a file that has the change already is passed over.
Computed(targets, walked, add, f, role, force, op) ==
    LET todo == {p \in targets : readGitSecret(p) /\ ~NoChange(files[p], add, f)}
        failing == Unreadable(targets, walked)
                   \cup {p \in todo : ~MayApply(files[p], add, f, force, op)}
    IN [p \in Manifests |->
           IF failing = {} /\ p \in todo
           THEN [applyRecipientChange(files[p], add, f, role) EXCEPT !.guarded = @ /\ (add \/ ~force)]
           ELSE NoFile]

\* What --role says of f: nothing, recovery, or another role.
RoleFlags == {"none", "recovery", "other"}

\* The bulk change that operators run as often as it takes, which no bound counts.
Addition == <<Manifests, TRUE, TRUE, Wanted, "none", FALSE>>

\* Nothing happens unless every file can be computed.
Mutate(targets, walked, add, f, role, force, op) ==
    /\ Idle
    /\ IF <<targets, walked, add, f, role, force>> = Addition THEN UNCHANGED commands ELSE Command
    /\ role # "none" => add
    /\ role = "recovery" => f \in Recovery
    /\ pending' = Computed(targets, walked, add, f, role, force, op)
    /\ pending' # pending
    /\ UNCHANGED <<files, branch, generated, history, values, failures>>

\* writeFileAtomic, of one of them.
Write(p) ==
    /\ pending[p] # NoFile
    /\ files' = [files EXCEPT ![p] = pending[p]]
    /\ pending' = [pending EXCEPT ![p] = NoFile]
    /\ Grant({pending[p]})
    /\ out' = [out EXCEPT ![p] = @ \ pending[p].wrapped]
    /\ UNCHANGED <<branch, generated, values, commands, failures>>

\* A write fails, or the process dies: the rest is never written.
Abandon ==
    /\ ~Idle
    /\ failures < MaxFailures /\ failures' = failures + 1
    /\ pending' = [p \in Manifests |-> NoFile]
    /\ UNCHANGED <<files, branch, generated, history, values, commands>>

-----------------------------------------------------------------------------
(* The commands on one manifest. *)

\* A manifest is saved, its key wrapped; locked says whom it locks out anew.
SaveManifest(p, content, locked) ==
    /\ files' = [files EXCEPT ![p] = content]
    /\ Grant({content})
    /\ out' = [out EXCEPT ![p] = (@ \cup locked) \ content.wrapped]
    /\ Command
    /\ UNCHANGED <<branch, pending, failures>>

\* Values are re-encrypted: nobody but the recipients has the fresh key.
Reseal(p, content, value) ==
    /\ generated < MaxKeys
    /\ generated' = generated + 1
    /\ SaveManifest(p, Seal(content, value, content.recipients, generated'),
                    Fprs \ content.recipients)

\* The recipients of --keyring, with their roles.
loadKeyring(given) == IF given THEN Keyring ELSE {}

\* The stamp of value; none with --no-provenance, or outside of git.
gitProvenance(provenance, value) == IF provenance THEN value ELSE 0

\* keyfold seal, the recipients named one by one and by the keyring, which alone
\* brings roles along.
SealManifest(p, named, byKeyring, provenance) ==
    LET recipients == named \cup loadKeyring(byKeyring)
        roles == loadKeyring(byKeyring) \cap Recovery
    IN /\ Free /\ recipients # {}
       /\ Reseal(p, [NoFile EXCEPT !.recipients = recipients, !.recovery = roles,
                                   !.stamp = gitProvenance(provenance, values[p]),
                                   !.guarded = roles # {}],
                 values[p])
       /\ UNCHANGED values

\* --rewrap: the list as given; the annotations stay.
RewrapManifest(p, recipients, op) ==
    /\ Free /\ readGitSecret(p)
    /\ recipients # {} /\ Decrypt(files[p], op)
    /\ SaveManifest(p, [Rewrap(files[p], recipients) EXCEPT
                           !.guarded = @ /\ recipients \cap files[p].recovery # {}], {})
    /\ UNCHANGED <<generated, values>>

\* What rekey and set ask of a manifest.
openForReseal(p, op) ==
    readGitSecret(p) /\ files[p].recipients # {} /\ Unseals(files[p], op)

\* rekey: the annotations stay, the stamp included.
Rekey(p, op) ==
    /\ Free /\ openForReseal(p, op)
    /\ Reseal(p, files[p], files[p].value)
    /\ UNCHANGED values

\* Mutant of Restamped: an old stamp is kept when none is written.
StampKept(content, provenance, value) ==
    IF provenance THEN [content EXCEPT !.stamp = value, !.spliced = @ \ {"stamp"}] ELSE content

\* The old stamp goes, whether a new one comes or not.
Restamped(content, provenance, value) ==
    [content EXCEPT !.stamp = gitProvenance(provenance, value), !.spliced = @ \ {"stamp"}]

\* set: the secret is changed at its source and here.
SetValue(p, op, provenance) ==
    /\ Free /\ openForReseal(p, op)
    /\ values[p] < MaxValues
    /\ values' = [values EXCEPT ![p] = @ + 1]
    /\ Reseal(p, Restamped(files[p], provenance, values'[p]), values'[p])

\* migrate: the group and the annotation's key; the ciphertext stays.  The file is
\* rewritten in place, so that a process that dies leaves part of it.
Migrate(p, completes) ==
    /\ Free /\ readGitSecret(p)
    /\ files[p].group = "legacy" \/ files[p].rolesKey = "legacy"
    /\ ~completes => failures < MaxFailures
    /\ failures' = IF completes THEN failures ELSE failures + 1
    /\ files' = [files EXCEPT ![p] = IF completes
                                     THEN [@ EXCEPT !.group = "current", !.rolesKey = "current"]
                                     ELSE Broken]
    /\ Command
    /\ UNCHANGED <<branch, pending, generated, history, values>>

-----------------------------------------------------------------------------
(* Around the commands: older manifests, git, the webhook. *)

\* A manifest that an older keyfold sealed under the pre-rename group.
AddLegacy(p) ==
    /\ Free /\ files[p].kind = "none" /\ Keyring # {} /\ generated < MaxKeys
    /\ generated' = generated + 1
    /\ files' = [files EXCEPT ![p] =
                    [Seal(NoFile, values[p], Keyring, generated') EXCEPT
                        !.group = "legacy", !.rolesKey = "legacy", !.recovery = Keyring \cap Recovery,
                        !.guarded = Keyring \cap Recovery # {}]]
    /\ Grant({files'[p]})
    /\ out' = [out EXCEPT ![p] = Fprs \ Keyring]
    /\ UNCHANGED <<branch, pending, values, commands, failures>>

\* git branch, at the working tree.
Fork ==
    /\ Idle /\ branch # files
    /\ branch' = files
    /\ UNCHANGED <<files, pending, generated, history, values, commands, failures>>

\* Whom a version of p locks out that comes from a branch: who has had its keys is in.
LockedOutOf(p, content) ==
    {f \in out[p] : \A key \in {content.key, content.sealed} : <<f, key>> \notin granted}

\* git checkout of the other branch.
Switch ==
    /\ Idle /\ branch # files
    /\ files' = branch /\ branch' = files
    /\ out' = [p \in Manifests |-> LockedOutOf(p, branch[p])]
    /\ Command
    /\ UNCHANGED <<pending, generated, granted, values, failures>>

Parts == {"group", "key", "data", "roles", "stamp"}

\* What git makes of a and b, line by line: every part is one version's, those in theirs
\* are b's, and the list has whom both have and, of the others, any that either has.
\* Which, the merge base decides and, where both changed a part, the user.
Splice(a, b, theirs, list) ==
    LET from(part) == IF part \in theirs THEN b ELSE a
        key == from("key")
        data == from("data")
        roles == from("roles")
    IN [kind |-> "gitsecret", group |-> from("group").group,
        key |-> key.key, wrapped |-> key.wrapped,
        sealed |-> data.sealed, value |-> data.value,
        recipients |-> list,
        recovery |-> roles.recovery, rolesKey |-> roles.rolesKey,
        stamp |-> from("stamp").stamp,
        spliced |->
            (IF list \subseteq key.recipients THEN key.spliced \cap {"more"} ELSE {"more"})
            \cup (IF key.recipients \subseteq list THEN key.spliced \cap {"fewer"} ELSE {"fewer"})
            \cup (IF data.sealed = key.sealed THEN key.spliced \cap {"values"} ELSE {"values"})
            \cup (IF from("stamp").stamp = data.stamp THEN data.spliced \cap {"stamp"} ELSE {"stamp"}),
        guarded |-> key.guarded /\ key.recipients \subseteq list /\ key.recovery \subseteq roles.recovery]

\* One of them may be absent or broken: no lines to merge, the other is taken or left.
Merges(a, b) ==
    IF a.kind = "gitsecret" /\ b.kind = "gitsecret"
    THEN LET both == a.recipients \cap b.recipients
             either == a.recipients \cup b.recipients
         IN  UNION {{Splice(a, b, theirs, both \cup others) : others \in SUBSET either} :
                       theirs \in SUBSET Parts}
    ELSE {b}

\* git merge of the other branch, which stays.
Merge(p) ==
    /\ Idle /\ branch[p] # files[p]
    /\ Command
    /\ \E new \in Merges(files[p], branch[p]) :
          /\ files' = [files EXCEPT ![p] = new]
          /\ out' = [out EXCEPT ![p] = LockedOutOf(p, new)]
    /\ UNCHANGED <<branch, pending, generated, granted, values, failures>>

\* The webhook's policy, under the recipients that the namespace requires; there may
\* be none.
validate(content, required) == VerifyRecipients(content) /\ required \subseteq content.recipients

-----------------------------------------------------------------------------
Recipients ==
    \/ \E targets \in SUBSET Manifests, walked, add, force \in BOOLEAN, role \in RoleFlags,
          f \in Fprs, op \in Fprs : Mutate(targets, walked, add, f, role, force, op)
    \/ \E p \in Manifests : Write(p)
    \/ Abandon

Single ==
    \E p \in Manifests :
        \/ \E named \in Lists \cup {{}}, byKeyring, provenance \in BOOLEAN :
              SealManifest(p, named, byKeyring, provenance)
        \/ \E recipients \in Lists, op \in Fprs : RewrapManifest(p, recipients, op)
        \/ \E op \in Fprs : Rekey(p, op)
        \/ \E op \in Fprs, provenance \in BOOLEAN : SetValue(p, op, provenance)
        \/ \E completes \in BOOLEAN : Migrate(p, completes)

Around ==
    \/ \E p \in Manifests : AddLegacy(p) \/ Merge(p)
    \/ Fork \/ Switch

Next == Recipients \/ Single \/ Around

Spec == Init /\ [][Next]_vars

\* A command that runs goes on, and the operators run the addition of Wanted to the
\* whole directory until it says it is done.
Retry ==
    \E op \in Fprs : Mutate(Manifests, TRUE, TRUE, Wanted, "none", FALSE, op)

FairSpec == Spec /\ WF_vars(\E p \in Manifests : Write(p)) /\ WF_vars(Retry)

-----------------------------------------------------------------------------
(* Properties. *)

\* The commands keep list, key and data together (sealer.go:28-30): who is listed is who
\* the key is wrapped to, and the key is the one the data is sealed under.  Whatever
\* merges have left apart, the next command that wraps or seals brings together again
\* and none brings anything else apart.
EveryRecipientReads ==
    \A p \in Manifests :
        LET c == files[p]
        IN /\ "values" \notin c.spliced => c.sealed = c.key
           /\ "fewer" \notin c.spliced => c.wrapped \subseteq c.recipients
           /\ "more" \notin c.spliced => c.recipients \subseteq c.wrapped

\* rekey's promise (rekey.go:21-25), with set's: whoever was not a recipient when the
\* values were last re-encrypted, and has not been added since, has neither the key in
\* the manifest nor the one its values are under, from no version of any file.
LockedOut ==
    \A p \in Manifests : \A f \in out[p] :
        <<f, files[p].key>> \notin granted /\ <<f, files[p].sealed>> \notin granted

\* Without --force, no series of additions, removals, re-encryptions and migrations takes
\* the last recovery recipient of a manifest away (recipients.go:266), on whichever
\* branches, as long as their merges leave in the list and the roles everyone whom the
\* version has there whose key they take.
RecoveryStays ==
    \A p \in Manifests : files[p].guarded => files[p].wrapped \cap Recovery # {}

\* What the webhook admits can be opened by every recipient the namespace requires,
\* though it compares no more than a count: a list that a merge has made longer than the
\* key it is with is refused.  One that a merge has made shorter as well, or has put with
\* another version's data, is not (threat-model.md, T11).
AdmittedOpensForRequired ==
    \A p \in Manifests, required \in SUBSET Fprs :
        /\ files[p].kind = "gitsecret" /\ files[p].spliced \cap {"fewer", "values"} = {}
        /\ validate(files[p], required)
        => \A f \in required : Unseals(files[p], f)

\* A provenance stamp speaks of the value it is found with, unless a merge took it from
\* another version than the data.
StampIsTrue ==
    \A p \in Manifests :
        "stamp" \notin files[p].spliced => files[p].stamp \in {0, files[p].value}

\* However often a bulk addition fails partway, running it again finishes it: the files
\* it has changed do not stand in its way (recipients.go:377-379), unless no operator
\* opens them all.
RetryConverges ==
    <>[]( \/ \A p \in Manifests : files[p].kind = "gitsecret" => Wanted \in files[p].recipients
          \/ \A op \in Fprs : \E p \in Manifests :
                files[p].kind = "gitsecret" /\ op \notin files[p].wrapped )
=============================================================================
