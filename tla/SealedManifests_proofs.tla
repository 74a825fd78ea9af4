----------------------- MODULE SealedManifests_proofs -----------------------
(***************************************************************************)
(* What is proved of SealedManifests for every set of manifests and        *)
(* fingerprints.                                                           *)
(*                                                                         *)
(* A content key belongs to one manifest, in whichever of its versions: in *)
(* the working tree, on the other branch, computed and not yet written.    *)
(* That a version is well formed, and whom the key it is under has been    *)
(* wrapped to, is then followed from version to version.                   *)
(***************************************************************************)
EXTENDS SealedManifests, FiniteSetTheorems, TLAPS

Versions(p) == {files[p], branch[p], pending[p]}

\* A recovery recipient is listed with its role, and a recovery recipient has the key.
KeepsRecovery(c) == c.recipients \cap c.recovery # {} /\ c.wrapped \cap Recovery # {}

\* What every version of a manifest is, whoever made it: but for what merges have left
\* apart, its parts are of one another.
WellFormed(c) ==
    /\ c \in Contents
    /\ "values" \notin c.spliced => c.sealed = c.key
    /\ "fewer" \notin c.spliced => c.wrapped \subseteq c.recipients
    /\ "more" \notin c.spliced => c.recipients \subseteq c.wrapped
    /\ "stamp" \notin c.spliced => c.stamp \in {0, c.value}
    /\ c.recovery \subseteq Recovery
    /\ c.guarded = TRUE => KeepsRecovery(c)
    /\ c.key = 0 => c.wrapped = {}
    /\ c.kind = "gitsecret" <=> c.wrapped # {}

VersionsInv == \A p \in Manifests : \A c \in Versions(p) : WellFormed(c)

\* A key that is there was generated, for one manifest.
KeysOf(c) == {c.key, c.sealed}
KeysInv ==
    \A p \in Manifests : \A c \in Versions(p) : \A k \in KeysOf(c) :
        /\ k <= generated
        /\ \A q \in Manifests \ {p} : \A d \in Versions(q) : k \in KeysOf(d) => k = 0

IInv == TypeOK /\ VersionsInv /\ KeysInv

\* A bulk change that nothing overlaps is written over what it was computed from.
PendingInv ==
    \A p \in Manifests : pending[p] # NoFile =>
        pending[p].key = files[p].key /\ pending[p].sealed = files[p].sealed

LockInv == IInv /\ PendingInv /\ LockedOut

-----------------------------------------------------------------------------
(* Contents. *)

LEMMA NothingIsWellFormed ==
    /\ WellFormed(NoFile) /\ KeysOf(NoFile) = {0} /\ NoFile.kind = "none"
    /\ WellFormed(Broken) /\ KeysOf(Broken) = {0} /\ Broken.kind = "broken"
<1>1. 0 \in Keys /\ 0 \in Values
  BY ConstantsAssumption DEF Keys, Values
<1>2. NoFile \in Contents
  BY <1>1 DEF NoFile, Contents
<1>3. /\ Broken \in Contents /\ Broken.kind = "broken" /\ Broken.key = 0 /\ Broken.sealed = 0
      /\ Broken.wrapped = {} /\ Broken.recipients = {} /\ Broken.recovery = {}
      /\ Broken.stamp = 0 /\ Broken.spliced = {} /\ Broken.guarded = FALSE
  BY <1>1 DEF NoFile, Broken, Contents
<1>4. WellFormed(NoFile) /\ KeysOf(NoFile) = {0} /\ NoFile.kind = "none"
  BY <1>2 DEF NoFile, WellFormed, KeysOf
<1>5. WellFormed(Broken) /\ KeysOf(Broken) = {0}
  BY <1>3 DEF WellFormed, KeysOf
<1>. QED BY <1>3, <1>4, <1>5

\* A key that is wrapped to somebody is not 0.
LEMMA SealedUnderAKey ==
    ASSUME NEW c, WellFormed(c), c.kind = "gitsecret"
    PROVE  c.key \in Nat \ {0} /\ c.wrapped # {}
BY ConstantsAssumption DEF WellFormed, Contents, Keys

\* d is c with its key wrapped to next, whatever happened to its roles.
Rewrapped(c, d, next) ==
    /\ d \in Contents
    /\ d.kind = c.kind /\ d.key = c.key /\ d.sealed = c.sealed
    /\ d.value = c.value /\ d.stamp = c.stamp
    /\ d.wrapped = next /\ d.recipients = next
    /\ d.spliced = c.spliced \ {"more", "fewer"}

LEMMA RewrapIsWellFormed ==
    ASSUME NEW c, WellFormed(c), c.kind = "gitsecret",
           NEW next \in SUBSET Fprs, next # {}, NEW d, Rewrapped(c, d, next),
           d.recovery \subseteq Recovery,
           d.guarded = TRUE => next \cap d.recovery # {}
    PROVE  WellFormed(d) /\ d.kind = "gitsecret" /\ KeysOf(d) = KeysOf(c)
BY SealedUnderAKey DEF Rewrapped, WellFormed, KeepsRecovery, KeysOf

LEMMA RewrapRewraps ==
    ASSUME NEW c \in Contents, NEW next \in SUBSET Fprs
    PROVE  /\ Rewrapped(c, Rewrap(c, next), next)
           /\ Rewrap(c, next).recovery = c.recovery
           /\ Rewrap(c, next).guarded = c.guarded
BY DEF Rewrapped, Rewrap, Contents

\* What a version is sealed from, and for whom.
Sealable(c, value, recipients) ==
    /\ c.recovery \subseteq Recovery /\ recipients # {}
    /\ "stamp" \notin c.spliced => c.stamp \in {0, value}
    /\ c.guarded = TRUE => recipients \cap c.recovery # {}

LEMMA SealIsWellFormed ==
    ASSUME NEW c \in Contents, NEW value \in Values, NEW recipients \in SUBSET Fprs,
           NEW key \in Keys \ {0}, Sealable(c, value, recipients)
    PROVE  LET new == Seal(c, value, recipients, key)
           IN /\ WellFormed(new)
              /\ new.key = key /\ new.sealed = key /\ new.kind = "gitsecret"
              /\ new.wrapped = recipients /\ new.recipients = recipients
              /\ new.recovery = c.recovery
<1>. DEFINE new == Seal(c, value, recipients, key)
<1>1. /\ new \in Contents
      /\ new.kind = "gitsecret" /\ new.key = key /\ new.sealed = key
      /\ new.wrapped = recipients /\ new.recipients = recipients /\ new.value = value
      /\ new.stamp = c.stamp /\ new.recovery = c.recovery /\ new.guarded = c.guarded
      /\ new.spliced = c.spliced \cap {"stamp"}
  BY DEF Seal, Contents
<1>. HIDE DEF new
<1>2. WellFormed(new)
  BY <1>1 DEF WellFormed, KeepsRecovery, Sealable
<1>. QED BY <1>1, <1>2 DEF new

-----------------------------------------------------------------------------
(* Steps: where the versions of a step come from. *)

\* Every version of p after a step has the keys of those before it, none, or one that
\* was generated for p in the step.
Inherits(p, fresh) ==
    \A c \in Versions(p)' : \A k \in KeysOf(c) :
        \/ k = 0
        \/ \E d \in Versions(p) : k \in KeysOf(d)
        \/ fresh = p /\ generated' = generated + 1 /\ k = generated'

LEMMA KeysStayApart ==
    ASSUME IInv, TypeOK', generated' \in {generated, generated + 1},
           NEW fresh, \A p \in Manifests : Inherits(p, fresh)
    PROVE  KeysInv'
<1>. USE DEF IInv
<1>0. generated \in Nat /\ generated' \in Nat /\ generated <= generated'
  BY ConstantsAssumption DEF TypeOK, Keys
<1>1. \A p \in Manifests : \A d \in Versions(p) : \A k \in KeysOf(d) : k \in Nat /\ k <= generated
  BY ConstantsAssumption DEF Versions, TypeOK, KeysInv, KeysOf, Contents, Keys
<1>2. ASSUME NEW p \in Manifests, NEW c \in Versions(p)', NEW k \in KeysOf(c)
      PROVE  k \in Nat /\ k <= generated'
  <2>1. c \in Contents
    BY DEF Versions, TypeOK
  <2>2. k \in Nat
    BY <2>1, ConstantsAssumption DEF Contents, Keys, KeysOf
  <2>. QED BY <1>0, <1>1, <2>2 DEF Inherits
<1>3. ASSUME NEW p \in Manifests, NEW c \in Versions(p)', NEW q \in Manifests \ {p},
             NEW d \in Versions(q)', NEW k \in KeysOf(c), k \in KeysOf(d)
      PROVE  k = 0
  <2>1. \A a \in Versions(p), b \in Versions(q) : k \in KeysOf(a) /\ k \in KeysOf(b) => k = 0
    BY DEF KeysInv
  <2>2. \/ k = 0
        \/ \E a \in Versions(p) : k \in KeysOf(a)
        \/ fresh = p /\ k = generated + 1
    BY DEF Inherits
  <2>3. \/ k = 0
        \/ \E b \in Versions(q) : k \in KeysOf(b)
        \/ fresh = q /\ k = generated + 1
    BY <1>3 DEF Inherits
  <2>. QED BY <1>0, <1>1, <1>3, <2>1, <2>2, <2>3
<1>4. /\ \A p \in Manifests : \A c \in Versions(p)' : \A k \in KeysOf(c) : k <= generated'
      /\ \A p \in Manifests : \A c \in Versions(p)' : \A k \in KeysOf(c) :
            \A q \in Manifests \ {p} : \A d \in Versions(q)' : k \in KeysOf(d) => k = 0
  BY <1>2, <1>3
<1>. QED BY <1>4 DEF KeysInv, KeysOf

\* The bulk commands.
Bulk == \E targets \in SUBSET Manifests, walked, add, force \in BOOLEAN, role \in RoleFlags,
           f \in Fprs, op \in Fprs : Mutate(targets, walked, add, f, role, force, op)

LEMMA BulkComputes ==
    ASSUME IInv, Bulk, NEW p \in Manifests, NEW new, new = pending'[p], new # NoFile
    PROVE  /\ WellFormed(new) /\ new.kind = "gitsecret"
           /\ new.key = files[p].key /\ new.sealed = files[p].sealed
<1>1. PICK targets \in SUBSET Manifests, walked, add, force \in BOOLEAN, role \in RoleFlags,
           f \in Fprs, op \in Fprs : Mutate(targets, walked, add, f, role, force, op)
  BY DEF Bulk
<1>. DEFINE c == files[p]
            next == IF add THEN c.recipients \cup {f} ELSE c.recipients \ {f}
            old == c.recovery
            roles == IF ~add \/ role = "other" THEN old \ {f}
                     ELSE IF role = "recovery" THEN old \cup {f} ELSE old
            base == Rewrap(c, next)
            changed == [base EXCEPT !.recovery = roles, !.rolesKey = "current"]
<1>2. /\ new = [applyRecipientChange(c, add, f, role) EXCEPT !.guarded = @ /\ (add \/ ~force)]
      /\ readGitSecret(p) /\ MayApply(c, add, f, force, op)
  BY <1>1 DEF Mutate, Computed
<1>3. WellFormed(c) /\ c.kind = "gitsecret"
  BY <1>2 DEF IInv, VersionsInv, Versions, readGitSecret
<1>4. next \in SUBSET Fprs /\ next # {}
  BY <1>2, <1>3 DEF MayApply, WellFormed, Contents
<1>5. roles \in SUBSET Recovery /\ roles \in SUBSET Fprs
  BY <1>1, <1>3, ConstantsAssumption DEF WellFormed, Mutate
<1>6. new = [changed EXCEPT !.guarded = @ /\ (add \/ ~force)]
  BY <1>2 DEF applyRecipientChange, ParseRecipientRoles
<1>7. Rewrapped(c, base, next) /\ base.guarded = c.guarded
  <2>. HIDE DEF next
  <2>. QED BY <1>3, <1>4, RewrapRewraps DEF WellFormed
<1>8. Rewrapped(c, changed, next) /\ changed.recovery = roles /\ changed.guarded = c.guarded
  <2>. HIDE DEF base, roles, next
  <2>. QED BY <1>5, <1>7 DEF Rewrapped, Contents
<1>9. /\ Rewrapped(c, new, next) /\ new.recovery = roles
      /\ new.guarded = (c.guarded /\ (add \/ ~force))
  <2>. HIDE DEF changed, roles, next, c
  <2>. QED BY <1>6, <1>8 DEF Rewrapped, Contents
<1>10. ASSUME new.guarded = TRUE PROVE next \cap roles # {}
  <2>1. KeepsRecovery(c) /\ (add \/ ~force)
    BY <1>3, <1>9, <1>10 DEF WellFormed, Contents
  <2>2. CASE add
    BY <1>2, <2>1, <2>2 DEF MayApply, KeepsRecovery
  <2>3. CASE ~add
    <3>1. f \notin old \/ (c.recipients \ {f}) \cap old # {}
      BY <1>2, <2>1, <2>3 DEF MayApply, ParseRecipientRoles
    <3>. QED BY <2>1, <2>3, <3>1 DEF KeepsRecovery
  <2>. QED BY <2>2, <2>3
<1>11. WellFormed(new) /\ new.kind = "gitsecret"
  <2>. HIDE DEF roles, next, c
  <2>. QED BY <1>3, <1>4, <1>5, <1>9, <1>10, RewrapIsWellFormed
<1>. QED BY <1>9, <1>11 DEF Rewrapped

LEMMA BulkStep == ASSUME IInv, Bulk PROVE IInv'
<1>. USE DEF IInv
<1>1. /\ files' = files /\ branch' = branch /\ generated' = generated /\ granted' = granted
      /\ out' = out /\ values' = values /\ failures' = failures
      /\ commands' \in 0..MaxCommands
      /\ pending' = [p \in Manifests |-> pending'[p]]
  BY ConstantsAssumption DEF Bulk, Mutate, Computed, Command, TypeOK, history
<1>2. ASSUME NEW p \in Manifests
      PROVE  /\ WellFormed(pending'[p]) /\ pending'[p].kind # "broken"
             /\ KeysOf(pending'[p]) \subseteq KeysOf(files[p]) \cup {0}
  <2>1. CASE pending'[p] = NoFile
    BY <2>1, NothingIsWellFormed
  <2>2. CASE pending'[p] # NoFile
    BY <2>2, BulkComputes DEF KeysOf
  <2>. QED BY <2>1, <2>2
<1>3. pending' \in [Manifests -> Contents]
  BY <1>1, <1>2 DEF WellFormed
<1>4. TypeOK'
  BY <1>1, <1>2, <1>3 DEF TypeOK
<1>5. VersionsInv'
  BY <1>1, <1>2 DEF VersionsInv, Versions
<1>6. \A p \in Manifests : Inherits(p, 0)
  BY <1>1, <1>2 DEF Inherits, Versions
<1>. QED BY <1>1, <1>4, <1>5, <1>6, KeysStayApart

\* What is granted with a version that is well formed and under a key that exists.
LEMMA GrantTypes ==
    ASSUME IInv, NEW c, WellFormed(c), generated' \in {generated, generated + 1},
           c.key <= generated', Grant({c})
    PROVE  /\ granted' = granted \cup {<<f, c.key>> : f \in c.wrapped}
           /\ granted' \subseteq Fprs \X (1..generated')
<1>1. granted' = granted \cup {<<f, c.key>> : f \in c.wrapped}
  BY DEF Grant
<1>2. c.key \in Nat /\ c.wrapped \in SUBSET Fprs /\ (c.wrapped # {} => c.key # 0)
  BY ConstantsAssumption DEF WellFormed, Contents, Keys
<1>3. generated \in Nat /\ granted \subseteq Fprs \X (1..generated)
  BY ConstantsAssumption DEF IInv, TypeOK, Keys
<1>4. granted \subseteq Fprs \X (1..generated')
  BY <1>3
<1>. QED BY <1>1, <1>2, <1>3, <1>4

LEMMA WriteStep == ASSUME IInv, NEW p \in Manifests, Write(p) PROVE IInv'
<1>. USE DEF IInv
<1>1. /\ files' = [files EXCEPT ![p] = pending[p]]
      /\ pending' = [pending EXCEPT ![p] = NoFile]
      /\ out' = [out EXCEPT ![p] = @ \ pending[p].wrapped]
      /\ UNCHANGED <<branch, generated, values, commands, failures>>
      /\ Grant({pending[p]})
  BY DEF Write
<1>2. WellFormed(pending[p]) /\ pending[p].key <= generated
  BY DEF VersionsInv, KeysInv, Versions, KeysOf
<1>3. generated \in Nat /\ granted' \subseteq Fprs \X (1..generated')
  BY <1>1, <1>2, GrantTypes, ConstantsAssumption DEF TypeOK, Keys
<1>4. /\ files' \in [Manifests -> Contents] /\ pending' \in [Manifests -> Contents]
      /\ out' \in [Manifests -> SUBSET Fprs]
      /\ \A q \in Manifests : /\ files'[q] \in {files[q], pending[q]}
                              /\ pending'[q] \in {pending[q], NoFile}
  BY <1>1, NothingIsWellFormed DEF TypeOK, WellFormed
<1>5. \A q \in Manifests : WellFormed(files'[q]) /\ WellFormed(branch'[q]) /\ WellFormed(pending'[q])
  BY <1>1, <1>4, NothingIsWellFormed DEF VersionsInv, Versions
<1>6. TypeOK'
  <2>1. \A q \in Manifests : pending'[q].kind # "broken"
    BY <1>4, NothingIsWellFormed DEF TypeOK
  <2>2. \A q \in Manifests : files'[q].kind = "gitsecret" => files'[q].wrapped # {}
    BY <1>5 DEF WellFormed
  <2>. QED BY <1>1, <1>3, <1>4, <2>1, <2>2 DEF TypeOK
<1>7. VersionsInv'
  BY <1>5 DEF VersionsInv, Versions
<1>8. \A q \in Manifests : Inherits(q, 0)
  BY <1>1, <1>4, NothingIsWellFormed DEF Inherits, Versions
<1>. QED BY <1>1, <1>6, <1>7, <1>8, KeysStayApart

LEMMA AbandonStep == ASSUME IInv, Abandon PROVE IInv'
<1>. USE DEF IInv
<1>1. /\ pending' = [p \in Manifests |-> NoFile]
      /\ failures' \in 0..MaxFailures
      /\ UNCHANGED <<files, branch, generated, granted, out, values, commands>>
  BY ConstantsAssumption DEF Abandon, TypeOK, history
<1>2. TypeOK'
  BY <1>1, NothingIsWellFormed DEF TypeOK, WellFormed
<1>3. VersionsInv'
  BY <1>1, NothingIsWellFormed DEF VersionsInv, Versions
<1>4. \A p \in Manifests : Inherits(p, 0)
  BY <1>1, NothingIsWellFormed DEF Inherits, Versions
<1>. QED BY <1>1, <1>2, <1>3, <1>4, KeysStayApart

\* The commands on one manifest, each with what it saves.
LEMMA SaveStep ==
    ASSUME IInv, NEW p \in Manifests, NEW content, WellFormed(content),
           files' = [files EXCEPT ![p] = content], Grant({content}),
           UNCHANGED <<branch, pending, failures>>, commands' \in 0..MaxCommands,
           out' \in [Manifests -> SUBSET Fprs],
           values' \in [Manifests -> Values],
           generated' \in Keys,
           \/ generated' = generated /\ KeysOf(content) = KeysOf(files[p])
           \/ generated' = generated + 1 /\ KeysOf(content) = {generated'}
    PROVE  IInv'
<1>. USE DEF IInv
<1>0. generated \in Nat /\ content.key \in KeysOf(content)
  BY ConstantsAssumption DEF TypeOK, Keys, KeysOf
<1>1. content.key <= generated'
  <2>1. CASE generated' = generated + 1 /\ KeysOf(content) = {generated'}
    BY <1>0, <2>1
  <2>2. CASE generated' = generated /\ KeysOf(content) = KeysOf(files[p])
    BY <1>0, <2>2 DEF KeysInv, Versions
  <2>. QED BY <2>1, <2>2
<1>2. granted' \subseteq Fprs \X (1..generated')
  BY <1>1, GrantTypes
<1>3. /\ files' \in [Manifests -> Contents]
      /\ \A q \in Manifests : files'[q] = IF q = p THEN content ELSE files[q]
  BY DEF TypeOK, WellFormed
<1>4. \A q \in Manifests : WellFormed(files'[q]) /\ WellFormed(branch'[q]) /\ WellFormed(pending'[q])
  BY <1>3 DEF VersionsInv, Versions
<1>5. TypeOK'
  <2>1. \A q \in Manifests : files'[q].kind = "gitsecret" => files'[q].wrapped # {}
    BY <1>4 DEF WellFormed
  <2>. QED BY <1>0, <1>2, <1>3, <2>1 DEF TypeOK
<1>6. VersionsInv'
  BY <1>4 DEF VersionsInv, Versions
<1>7. \A q \in Manifests : Inherits(q, p)
  BY <1>3 DEF Inherits, Versions
<1>. QED BY <1>5, <1>6, <1>7, KeysStayApart

\* A version sealed anew: who has its key is who is listed.
LEMMA ResealStep ==
    ASSUME IInv, NEW p \in Manifests, NEW content \in Contents, NEW value \in Values,
           Sealable(content, value, content.recipients),
           Reseal(p, content, value),
           values' \in [Manifests -> Values]
    PROVE  /\ IInv'
           /\ WellFormed(files'[p]) /\ files'[p].kind = "gitsecret"
           /\ files'[p].key = generated + 1 /\ files'[p].sealed = generated + 1
           /\ files'[p].wrapped = content.recipients
           /\ files' = [files EXCEPT ![p] = files'[p]]
           /\ Grant({files'[p]})
           /\ out' = [out EXCEPT ![p] = (@ \cup (Fprs \ content.recipients)) \ content.recipients]
<1>. USE DEF IInv
<1>. DEFINE new == Seal(content, value, content.recipients, generated')
<1>1. /\ generated < MaxKeys /\ generated' = generated + 1
      /\ files' = [files EXCEPT ![p] = new] /\ Grant({new}) /\ Command
      /\ UNCHANGED <<branch, pending, failures>>
      /\ out' = [out EXCEPT ![p] = (@ \cup (Fprs \ content.recipients)) \ new.wrapped]
  BY DEF Reseal, SaveManifest
<1>2. generated \in Nat /\ generated' \in Keys \ {0} /\ MaxKeys \in Nat
  BY <1>1, ConstantsAssumption DEF TypeOK, Keys
<1>3. content.recipients \in SUBSET Fprs
  BY DEF Contents
<1>4. /\ WellFormed(new) /\ new.kind = "gitsecret"
      /\ new.key = generated' /\ new.sealed = generated'
      /\ new.wrapped = content.recipients
  BY <1>2, <1>3, SealIsWellFormed
<1>. HIDE DEF new
<1>5. out' \in [Manifests -> SUBSET Fprs] /\ commands' \in 0..MaxCommands
  BY <1>1, ConstantsAssumption DEF TypeOK, Command
<1>6. IInv'
  BY <1>1, <1>2, <1>4, <1>5, SaveStep DEF KeysOf
<1>7. files'[p] = new
  BY <1>1 DEF TypeOK
<1>. QED BY <1>1, <1>4, <1>6, <1>7 DEF new

\* A command seals p anew, from some content.
Resealing(p) ==
    \E content \in Contents, value \in Values :
        /\ Sealable(content, value, content.recipients)
        /\ Reseal(p, content, value)
        /\ values' \in [Manifests -> Values]

LEMMA SealManifestReseals ==
    ASSUME IInv, NEW p \in Manifests, NEW named \in Lists \cup {{}},
           NEW byKeyring \in BOOLEAN, NEW provenance \in BOOLEAN,
           SealManifest(p, named, byKeyring, provenance)
    PROVE  Resealing(p)
<1>. DEFINE recipients == named \cup loadKeyring(byKeyring)
            roles == loadKeyring(byKeyring) \cap Recovery
            stamp == gitProvenance(provenance, values[p])
            content == [NoFile EXCEPT !.recipients = recipients, !.recovery = roles, !.stamp = stamp,
                                      !.guarded = roles # {}]
<1>1. recipients \in SUBSET Fprs /\ roles \in SUBSET Fprs /\ roles \subseteq recipients
  BY ConstantsAssumption DEF loadKeyring
<1>2. stamp \in {0, values[p]} /\ values[p] \in Values /\ 0 \in Values
  BY ConstantsAssumption DEF gitProvenance, IInv, TypeOK, Values
<1>3. /\ content \in Contents /\ content.recipients = recipients /\ content.recovery = roles
      /\ content.stamp = stamp /\ content.guarded = (roles # {})
  <2>. HIDE DEF recipients, roles, stamp
  <2>1. NoFile \in Contents
    BY NothingIsWellFormed DEF WellFormed
  <2>2. stamp \in Values
    BY <1>2
  <2>. QED BY <1>1, <2>1, <2>2 DEF Contents
<1>4. /\ recipients # {}
      /\ Reseal(p, content, values[p])
      /\ values' = values
  BY DEF SealManifest
<1>5. roles \subseteq Recovery /\ values' \in [Manifests -> Values]
  BY <1>4 DEF IInv, TypeOK
<1>6. Sealable(content, values[p], content.recipients)
  <2>. HIDE DEF content, recipients, roles, stamp
  <2>. QED BY <1>1, <1>2, <1>3, <1>4, <1>5 DEF Sealable
<1>. HIDE DEF content, recipients, roles, stamp
<1>. QED BY <1>2, <1>3, <1>4, <1>5, <1>6 DEF Resealing

LEMMA RekeyReseals ==
    ASSUME IInv, NEW p \in Manifests, NEW op \in Fprs, Rekey(p, op)
    PROVE  Resealing(p)
<1>1. /\ readGitSecret(p) /\ files[p].recipients # {}
      /\ Reseal(p, files[p], files[p].value)
      /\ values' = values
  BY DEF Rekey, openForReseal
<1>2. WellFormed(files[p])
  BY DEF IInv, VersionsInv, Versions
<1>3. values' \in [Manifests -> Values]
  BY <1>1 DEF IInv, TypeOK
<1>4. files[p] \in Contents /\ files[p].value \in Values
  BY <1>2 DEF WellFormed, Contents
<1>5. Sealable(files[p], files[p].value, files[p].recipients)
  BY <1>1, <1>2 DEF WellFormed, Sealable, KeepsRecovery
<1>. QED BY <1>1, <1>3, <1>4, <1>5 DEF Resealing

LEMMA SetValueReseals ==
    ASSUME IInv, NEW p \in Manifests, NEW op \in Fprs, NEW provenance \in BOOLEAN,
           SetValue(p, op, provenance)
    PROVE  Resealing(p)
<1>. DEFINE value == values[p] + 1
            stamp == gitProvenance(provenance, value)
            content == [files[p] EXCEPT !.stamp = stamp, !.spliced = @ \ {"stamp"}]
<1>1. /\ readGitSecret(p) /\ files[p].recipients # {}
      /\ values[p] < MaxValues /\ values' = [values EXCEPT ![p] = @ + 1]
      /\ Reseal(p, Restamped(files[p], provenance, values'[p]), values'[p])
  BY DEF SetValue, openForReseal
<1>2. /\ value \in Values /\ values' \in [Manifests -> Values] /\ values'[p] = value
      /\ stamp \in {0, value} /\ stamp \in Values
  BY <1>1, ConstantsAssumption DEF IInv, TypeOK, Values, gitProvenance
<1>3. Reseal(p, content, value)
  BY <1>1, <1>2 DEF Restamped
<1>4. WellFormed(files[p])
  BY DEF IInv, VersionsInv, Versions
<1>5. /\ content \in Contents /\ content.stamp = stamp
      /\ content.recipients = files[p].recipients /\ content.recovery = files[p].recovery
      /\ content.guarded = files[p].guarded
  <2>. HIDE DEF stamp
  <2>. QED BY <1>2, <1>4 DEF WellFormed, Contents
<1>6. Sealable(content, value, content.recipients)
  <2>. HIDE DEF content, stamp, value
  <2>. QED BY <1>1, <1>2, <1>4, <1>5 DEF WellFormed, Sealable, KeepsRecovery
<1>. HIDE DEF content, stamp, value
<1>. QED BY <1>2, <1>3, <1>5, <1>6 DEF Resealing

LEMMA ResealingSaves ==
    ASSUME IInv, NEW p \in Manifests, Resealing(p)
    PROVE  /\ IInv'
           /\ generated' = generated + 1
           /\ files'[p].key = generated + 1 /\ files'[p].sealed = generated + 1
           /\ files' = [files EXCEPT ![p] = files'[p]] /\ pending' = pending
           /\ granted' = granted \cup {<<f, generated + 1>> : f \in files'[p].wrapped}
           /\ out'[p] \subseteq Fprs \ files'[p].wrapped
           /\ \A q \in Manifests \ {p} : out'[q] = out[q]
<1>1. PICK content \in Contents, value \in Values :
        /\ Sealable(content, value, content.recipients)
        /\ Reseal(p, content, value)
        /\ values' \in [Manifests -> Values]
  BY DEF Resealing
<1>2. /\ IInv'
      /\ files'[p].key = generated + 1 /\ files'[p].sealed = generated + 1
      /\ files'[p].wrapped = content.recipients
      /\ files' = [files EXCEPT ![p] = files'[p]]
      /\ Grant({files'[p]})
      /\ out' = [out EXCEPT ![p] = (@ \cup (Fprs \ content.recipients)) \ content.recipients]
  BY <1>1, ResealStep
<1>3. generated' = generated + 1 /\ pending' = pending
  BY <1>1 DEF Reseal, SaveManifest
<1>4. granted' = granted \cup {<<f, generated + 1>> : f \in files'[p].wrapped}
  BY <1>2 DEF Grant
<1>5. /\ out'[p] \subseteq Fprs \ files'[p].wrapped
      /\ \A q \in Manifests \ {p} : out'[q] = out[q]
  BY <1>2 DEF IInv, TypeOK
<1>. QED BY <1>2, <1>3, <1>4, <1>5

LEMMA RewrapSaves ==
    ASSUME IInv, NEW p \in Manifests, NEW recipients \in Lists, NEW op \in Fprs,
           RewrapManifest(p, recipients, op)
    PROVE  /\ IInv'
           /\ WellFormed(files'[p])
           /\ files'[p].key = files[p].key /\ files'[p].sealed = files[p].sealed
           /\ files' = [files EXCEPT ![p] = files'[p]] /\ pending' = pending
           /\ granted' = granted \cup {<<f, files[p].key>> : f \in files'[p].wrapped}
           /\ out' = [out EXCEPT ![p] = @ \ files'[p].wrapped]
           /\ Free
<1>. DEFINE c == files[p]
            base == Rewrap(c, recipients)
            new == [base EXCEPT !.guarded = @ /\ recipients \cap c.recovery # {}]
<1>1. /\ Free /\ readGitSecret(p) /\ recipients # {}
      /\ SaveManifest(p, new, {})
      /\ generated' = generated /\ values' = values
  BY DEF RewrapManifest
<1>2. WellFormed(c) /\ c.kind = "gitsecret" /\ recipients \in SUBSET Fprs
  BY <1>1, ConstantsAssumption DEF IInv, VersionsInv, Versions, readGitSecret
<1>3. /\ Rewrapped(c, base, recipients)
      /\ base.recovery = c.recovery /\ base.guarded = c.guarded
  BY <1>2, RewrapRewraps DEF WellFormed
<1>4. /\ Rewrapped(c, new, recipients) /\ new.recovery = c.recovery
      /\ new.guarded = (c.guarded /\ recipients \cap c.recovery # {})
  <2>. HIDE DEF base, c
  <2>. QED BY <1>3 DEF Rewrapped, Contents
<1>5. WellFormed(new) /\ KeysOf(new) = KeysOf(c)
  <2>1. c.recovery \subseteq Recovery
    BY <1>2 DEF WellFormed
  <2>. HIDE DEF new, c
  <2>. QED BY <1>1, <1>2, <1>4, <2>1, RewrapIsWellFormed
<1>6. new.key = c.key /\ new.sealed = c.sealed /\ new.wrapped = recipients
  BY <1>4 DEF Rewrapped
<1>. HIDE DEF new
<1>7. /\ files' = [files EXCEPT ![p] = new] /\ Grant({new}) /\ Command
      /\ UNCHANGED <<branch, pending, failures>>
      /\ out' = [out EXCEPT ![p] = @ \ new.wrapped]
  BY <1>1 DEF SaveManifest
<1>8. /\ out' \in [Manifests -> SUBSET Fprs] /\ commands' \in 0..MaxCommands
      /\ values' \in [Manifests -> Values] /\ generated' \in Keys
      /\ files'[p] = new
  BY <1>1, <1>7, ConstantsAssumption DEF IInv, TypeOK, Command
<1>9. IInv'
  BY <1>1, <1>5, <1>7, <1>8, SaveStep
<1>10. granted' = granted \cup {<<f, files[p].key>> : f \in new.wrapped}
  BY <1>6, <1>7 DEF Grant
<1>. QED BY <1>1, <1>5, <1>6, <1>7, <1>8, <1>9, <1>10

\* Older manifests, migration and git.
LEMMA MigrateStep ==
    ASSUME IInv, NEW p \in Manifests, NEW completes \in BOOLEAN, Migrate(p, completes)
    PROVE  /\ IInv'
           /\ \E new : /\ files' = [files EXCEPT ![p] = new]
                       /\ \/ new.key = files[p].key /\ new.sealed = files[p].sealed
                          \/ new.key = 0 /\ new.sealed = 0
           /\ UNCHANGED <<pending, granted, out>>
           /\ Free
<1>. USE DEF IInv
<1>. DEFINE done == [files[p] EXCEPT !.group = "current", !.rolesKey = "current"]
            new == IF completes THEN done ELSE Broken
<1>1. /\ Free /\ readGitSecret(p) /\ Command
      /\ files' = [files EXCEPT ![p] = new]
      /\ failures' = IF completes THEN failures ELSE failures + 1
      /\ ~completes => failures < MaxFailures
      /\ UNCHANGED <<branch, pending, generated, granted, out, values>>
  BY DEF Migrate, history
<1>2. WellFormed(files[p])
  BY DEF VersionsInv, Versions
<1>3. WellFormed(done) /\ done.key = files[p].key /\ done.sealed = files[p].sealed
  <2>1. /\ done \in Contents
        /\ done.key = files[p].key /\ done.kind = files[p].kind /\ done.sealed = files[p].sealed
        /\ done.wrapped = files[p].wrapped /\ done.recipients = files[p].recipients
        /\ done.recovery = files[p].recovery
        /\ done.stamp = files[p].stamp /\ done.value = files[p].value
        /\ done.spliced = files[p].spliced /\ done.guarded = files[p].guarded
    BY <1>2 DEF WellFormed, Contents
  <2>. HIDE DEF done
  <2>. QED BY <1>2, <2>1 DEF WellFormed, KeepsRecovery
<1>. HIDE DEF done
<1>4. /\ WellFormed(new)
      /\ \/ new.key = files[p].key /\ new.sealed = files[p].sealed
         \/ new.key = 0 /\ new.sealed = 0
  BY <1>3, NothingIsWellFormed DEF KeysOf
<1>. HIDE DEF new
<1>5. /\ files' \in [Manifests -> Contents]
      /\ \A q \in Manifests : files'[q] = IF q = p THEN new ELSE files[q]
  BY <1>1, <1>4 DEF TypeOK, WellFormed
<1>6. failures' \in 0..MaxFailures /\ commands' \in 0..MaxCommands
  BY <1>1, ConstantsAssumption DEF TypeOK, Command
<1>7. \A q \in Manifests : WellFormed(files'[q])
  BY <1>4, <1>5 DEF VersionsInv, Versions
<1>8. TypeOK'
  <2>1. \A q \in Manifests : files'[q].kind = "gitsecret" => files'[q].wrapped # {}
    BY <1>7 DEF WellFormed
  <2>. QED BY <1>1, <1>5, <1>6, <2>1 DEF TypeOK
<1>9. VersionsInv'
  BY <1>1, <1>7 DEF VersionsInv, Versions
<1>10. \A q \in Manifests : Inherits(q, 0)
  <2>1. KeysOf(new) \subseteq KeysOf(files[p]) \cup {0}
    BY <1>4 DEF KeysOf
  <2>. QED BY <1>1, <1>5, <2>1 DEF Inherits, Versions
<1>11. IInv'
  BY <1>1, <1>8, <1>9, <1>10, KeysStayApart
<1>. QED BY <1>1, <1>4, <1>11

LEMMA AddLegacySaves ==
    ASSUME IInv, NEW p \in Manifests, AddLegacy(p)
    PROVE  /\ IInv'
           /\ generated' = generated + 1
           /\ files'[p].key = generated + 1 /\ files'[p].sealed = generated + 1
           /\ files' = [files EXCEPT ![p] = files'[p]] /\ pending' = pending
           /\ granted' = granted \cup {<<f, generated + 1>> : f \in files'[p].wrapped}
           /\ out' = [out EXCEPT ![p] = Fprs \ files'[p].wrapped]
           /\ Free
<1>. DEFINE base == Seal(NoFile, values[p], Keyring, generated')
            roles == Keyring \cap Recovery
            new == [base EXCEPT !.group = "legacy", !.rolesKey = "legacy", !.recovery = roles,
                                !.guarded = roles # {}]
<1>0. Free /\ Keyring # {} /\ generated < MaxKeys /\ generated' = generated + 1
  BY DEF AddLegacy
<1>1. /\ Free /\ generated' = generated + 1
      /\ files' = [files EXCEPT ![p] = new] /\ Grant({files'[p]})
      /\ out' = [out EXCEPT ![p] = Fprs \ Keyring]
      /\ UNCHANGED <<branch, pending, values, commands, failures>>
  BY DEF AddLegacy
<1>2. generated' \in Keys \ {0} /\ values[p] \in Values /\ Keyring \in SUBSET Fprs
      /\ generated \in Nat
  <2>1. generated \in 0..MaxKeys /\ values[p] \in Values
    BY DEF IInv, TypeOK, Keys
  <2>2. MaxKeys \in Nat /\ Keyring \in SUBSET Fprs
    BY ConstantsAssumption
  <2>. QED BY <1>0, <2>1, <2>2 DEF Keys
<1>3. NoFile \in Contents /\ NoFile.recovery = {} /\ NoFile.stamp = 0 /\ NoFile.guarded = FALSE
  BY NothingIsWellFormed DEF WellFormed, NoFile
<1>4. /\ WellFormed(base) /\ base.kind = "gitsecret" /\ base.key = generated' /\ base.sealed = generated'
      /\ base.wrapped = Keyring /\ base.recipients = Keyring
  <2>1. Sealable(NoFile, values[p], Keyring)
    BY <1>0, <1>3 DEF Sealable
  <2>. QED BY <1>2, <1>3, <2>1, SealIsWellFormed
<1>. HIDE DEF base
<1>5. WellFormed(new) /\ KeysOf(new) = {generated'} /\ new.wrapped = Keyring
      /\ new.key = generated' /\ new.sealed = generated'
  <2>1. roles \in SUBSET Fprs /\ roles \subseteq Recovery /\ roles \subseteq Keyring
    BY <1>2
  <2>2. /\ new \in Contents
        /\ new.key = base.key /\ new.kind = base.kind /\ new.sealed = base.sealed
        /\ new.wrapped = base.wrapped /\ new.recipients = base.recipients /\ new.recovery = roles
        /\ new.stamp = base.stamp /\ new.value = base.value
        /\ new.spliced = base.spliced /\ new.guarded = (roles # {})
    <3>. HIDE DEF roles
    <3>. QED BY <1>4, <2>1 DEF WellFormed, Contents
  <2>. HIDE DEF new, roles
  <2>. QED BY <1>4, <2>1, <2>2 DEF WellFormed, KeepsRecovery, KeysOf
<1>. HIDE DEF new
<1>6. /\ files'[p] = new
      /\ out' \in [Manifests -> SUBSET Fprs] /\ commands' \in 0..MaxCommands
      /\ values' \in [Manifests -> Values] /\ generated' \in Keys
  BY <1>1, <1>2 DEF IInv, TypeOK
<1>7. IInv'
  BY <1>1, <1>5, <1>6, SaveStep
<1>8. granted' = granted \cup {<<f, generated + 1>> : f \in new.wrapped}
  BY <1>1, <1>5, <1>6 DEF Grant
<1>. QED BY <1>1, <1>5, <1>6, <1>7, <1>8

LEMMA ForkStep == ASSUME IInv, Fork PROVE IInv'
<1>. USE DEF IInv
<1>1. /\ branch' = files
      /\ UNCHANGED <<files, pending, generated, granted, out, values, commands, failures>>
  BY DEF Fork, history
<1>2. TypeOK' /\ VersionsInv'
  BY <1>1 DEF TypeOK, VersionsInv, Versions
<1>3. \A p \in Manifests : Inherits(p, 0)
  BY <1>1 DEF Inherits, Versions
<1>. QED BY <1>1, <1>2, <1>3, KeysStayApart

\* Who is not locked out of a version that comes from a branch is who has had a key of it.
LEMMA WhoIsLockedOut ==
    ASSUME NEW p, NEW c, NEW f \in LockedOutOf(p, c)
    PROVE  f \in out[p] /\ <<f, c.key>> \notin granted /\ <<f, c.sealed>> \notin granted
BY DEF LockedOutOf

LEMMA SwitchStep ==
    ASSUME IInv, Switch
    PROVE  /\ IInv'
           /\ files' = branch /\ pending' = pending /\ granted' = granted
           /\ \A p \in Manifests : /\ pending[p] = NoFile
                                   /\ out'[p] = LockedOutOf(p, branch[p])
<1>. USE DEF IInv
<1>1. /\ files' = branch /\ branch' = files /\ Command
      /\ out' = [p \in Manifests |-> LockedOutOf(p, branch[p])]
      /\ UNCHANGED <<pending, generated, granted, values, failures>>
      /\ Idle
  BY DEF Switch
<1>2. commands' \in 0..MaxCommands /\ out' \in [Manifests -> SUBSET Fprs]
  BY <1>1, ConstantsAssumption DEF TypeOK, Command, LockedOutOf
<1>3. VersionsInv'
  BY <1>1 DEF VersionsInv, Versions
<1>4. TypeOK'
  <2>1. \A p \in Manifests : files'[p].kind = "gitsecret" => files'[p].wrapped # {}
    BY <1>3 DEF VersionsInv, Versions, WellFormed
  <2>. QED BY <1>1, <1>2, <2>1 DEF TypeOK
<1>5. \A p \in Manifests : Inherits(p, 0)
  BY <1>1 DEF Inherits, Versions
<1>6. IInv'
  BY <1>1, <1>3, <1>4, <1>5, KeysStayApart
<1>. QED BY <1>1, <1>6 DEF Idle

\* However two well formed versions are merged, the result is well formed: what the merge
\* leaves apart is marked.
LEMMA SpliceIsWellFormed ==
    ASSUME NEW a, WellFormed(a), a.kind = "gitsecret",
           NEW b, WellFormed(b), b.kind = "gitsecret",
           NEW theirs \in SUBSET Parts, NEW list \in SUBSET Fprs
    PROVE  WellFormed(Splice(a, b, theirs, list))
           /\ KeysOf(Splice(a, b, theirs, list)) \subseteq KeysOf(a) \cup KeysOf(b)
<1>. DEFINE from(part) == IF part \in theirs THEN b ELSE a
            group == from("group")
            key == from("key")
            data == from("data")
            roles == from("roles")
            stamp == from("stamp")
            more == IF list \subseteq key.recipients THEN key.spliced \cap {"more"} ELSE {"more"}
            fewer == IF key.recipients \subseteq list THEN key.spliced \cap {"fewer"} ELSE {"fewer"}
            apart == IF data.sealed = key.sealed THEN key.spliced \cap {"values"} ELSE {"values"}
            older == IF stamp.stamp = data.stamp THEN data.spliced \cap {"stamp"} ELSE {"stamp"}
            kept == key.guarded /\ key.recipients \subseteq list /\ key.recovery \subseteq roles.recovery
            new == [kind |-> "gitsecret", group |-> group.group,
                    key |-> key.key, wrapped |-> key.wrapped,
                    sealed |-> data.sealed, value |-> data.value,
                    recipients |-> list,
                    recovery |-> roles.recovery, rolesKey |-> roles.rolesKey,
                    stamp |-> stamp.stamp,
                    spliced |-> more \cup fewer \cup apart \cup older,
                    guarded |-> kept]
<1>1. \A v \in {group, key, data, roles, stamp} : WellFormed(v) /\ v.kind = "gitsecret"
  OBVIOUS
<1>2. new = Splice(a, b, theirs, list)
  BY DEF Splice
<1>3. key \in {a, b} /\ data \in {a, b}
  OBVIOUS
<1>. HIDE DEF group, key, data, roles, stamp
<1>4. /\ new \in Contents
      /\ new.kind = "gitsecret" /\ new.key = key.key /\ new.wrapped = key.wrapped
      /\ new.sealed = data.sealed /\ new.value = data.value
      /\ new.recipients = list /\ new.recovery = roles.recovery /\ new.stamp = stamp.stamp
      /\ new.spliced = more \cup fewer \cup apart \cup older
      /\ new.guarded = kept
  <2>1. kept \in BOOLEAN /\ more \cup fewer \cup apart \cup older \in SUBSET Splits
    BY DEF Splits
  <2>. HIDE DEF kept, more, fewer, apart, older
  <2>. QED BY <1>1, <2>1 DEF WellFormed, Contents
<1>. HIDE DEF new
<1>5. "values" \notin new.spliced => new.sealed = new.key
  BY <1>1, <1>4 DEF WellFormed
<1>6. "fewer" \notin new.spliced => new.wrapped \subseteq new.recipients
  BY <1>1, <1>4 DEF WellFormed
<1>7. "more" \notin new.spliced => new.recipients \subseteq new.wrapped
  BY <1>1, <1>4 DEF WellFormed
<1>8. "stamp" \notin new.spliced => new.stamp \in {0, new.value}
  BY <1>1, <1>4 DEF WellFormed
<1>9. new.guarded = TRUE => KeepsRecovery(new)
  BY <1>1, <1>4 DEF WellFormed, KeepsRecovery
<1>10. WellFormed(new)
  BY <1>1, <1>4, <1>5, <1>6, <1>7, <1>8, <1>9 DEF WellFormed
<1>11. KeysOf(new) \subseteq KeysOf(a) \cup KeysOf(b)
  BY <1>3, <1>4 DEF KeysOf
<1>. QED BY <1>2, <1>10, <1>11

LEMMA MergesAreWellFormed ==
    ASSUME NEW a, WellFormed(a), NEW b, WellFormed(b), NEW new \in Merges(a, b)
    PROVE  WellFormed(new) /\ KeysOf(new) \subseteq KeysOf(a) \cup KeysOf(b)
<1>1. CASE a.kind = "gitsecret" /\ b.kind = "gitsecret"
  <2>1. PICK theirs \in SUBSET Parts, others \in SUBSET (a.recipients \cup b.recipients) :
            new = Splice(a, b, theirs, (a.recipients \cap b.recipients) \cup others)
    BY <1>1 DEF Merges
  <2>2. (a.recipients \cap b.recipients) \cup others \in SUBSET Fprs
    BY DEF WellFormed, Contents
  <2>. QED BY <1>1, <2>1, <2>2, SpliceIsWellFormed
<1>2. CASE ~(a.kind = "gitsecret" /\ b.kind = "gitsecret")
  BY <1>2 DEF Merges
<1>. QED BY <1>1, <1>2

LEMMA MergeStep ==
    ASSUME IInv, NEW p \in Manifests, Merge(p)
    PROVE  /\ IInv'
           /\ files' = [files EXCEPT ![p] = files'[p]] /\ pending' = pending /\ granted' = granted
           /\ \A q \in Manifests : pending[q] = NoFile
           /\ out'[p] = LockedOutOf(p, files'[p])
           /\ \A q \in Manifests \ {p} : out'[q] = out[q]
<1>. USE DEF IInv
<1>1. PICK new \in Merges(files[p], branch[p]) :
         /\ files' = [files EXCEPT ![p] = new]
         /\ out' = [out EXCEPT ![p] = LockedOutOf(p, new)]
  BY DEF Merge
<1>2. Idle /\ Command /\ UNCHANGED <<branch, pending, generated, granted, values, failures>>
  BY DEF Merge
<1>3. WellFormed(new) /\ KeysOf(new) \subseteq KeysOf(files[p]) \cup KeysOf(branch[p])
  BY MergesAreWellFormed DEF VersionsInv, Versions
<1>4. /\ files' \in [Manifests -> Contents]
      /\ \A q \in Manifests : files'[q] = IF q = p THEN new ELSE files[q]
  BY <1>1, <1>3 DEF TypeOK, WellFormed
<1>5. commands' \in 0..MaxCommands /\ out' \in [Manifests -> SUBSET Fprs]
  BY <1>1, <1>2, ConstantsAssumption DEF TypeOK, Command, LockedOutOf
<1>6. VersionsInv'
  BY <1>2, <1>3, <1>4 DEF VersionsInv, Versions
<1>7. TypeOK'
  <2>1. \A q \in Manifests : files'[q].kind = "gitsecret" => files'[q].wrapped # {}
    BY <1>6 DEF VersionsInv, Versions, WellFormed
  <2>. QED BY <1>2, <1>4, <1>5, <2>1 DEF TypeOK
<1>8. \A q \in Manifests : Inherits(q, 0)
  BY <1>2, <1>3, <1>4 DEF Inherits, Versions
<1>9. IInv'
  BY <1>2, <1>6, <1>7, <1>8, KeysStayApart
<1>10. out'[p] = LockedOutOf(p, new) /\ \A q \in Manifests \ {p} : out'[q] = out[q]
  BY <1>1 DEF TypeOK
<1>. QED BY <1>1, <1>2, <1>4, <1>9, <1>10 DEF Idle

-----------------------------------------------------------------------------
(* The invariants. *)

\* The steps, by what they do to the manifests.
LEMMA StepKinds ==
    ASSUME IInv, [Next]_vars
    PROVE  \/ UNCHANGED vars
           \/ Bulk
           \/ Abandon \/ Fork \/ Switch
           \/ \E p \in Manifests :
                 \/ Write(p)
                 \/ Free /\ Resealing(p)
                 \/ \E recipients \in Lists, op \in Fprs : RewrapManifest(p, recipients, op)
                 \/ \E completes \in BOOLEAN : Migrate(p, completes)
                 \/ AddLegacy(p)
                 \/ Merge(p)
<1>1. CASE Recipients
  BY <1>1 DEF Recipients, Bulk
<1>2. CASE Single
  <2>1. PICK p \in Manifests :
           \/ \E named \in Lists \cup {{}}, byKeyring, provenance \in BOOLEAN :
                 SealManifest(p, named, byKeyring, provenance)
           \/ \E recipients \in Lists, op \in Fprs : RewrapManifest(p, recipients, op)
           \/ \E op \in Fprs : Rekey(p, op)
           \/ \E op \in Fprs, provenance \in BOOLEAN : SetValue(p, op, provenance)
           \/ \E completes \in BOOLEAN : Migrate(p, completes)
    BY <1>2 DEF Single
  <2>2. ASSUME NEW named \in Lists \cup {{}}, NEW byKeyring \in BOOLEAN, NEW provenance \in BOOLEAN,
               SealManifest(p, named, byKeyring, provenance)
        PROVE  Free /\ Resealing(p)
    BY <2>2, SealManifestReseals, Zenon DEF SealManifest
  <2>3. ASSUME NEW op \in Fprs, Rekey(p, op) PROVE Free /\ Resealing(p)
    BY <2>3, RekeyReseals DEF Rekey
  <2>4. ASSUME NEW op \in Fprs, NEW provenance \in BOOLEAN, SetValue(p, op, provenance)
        PROVE  Free /\ Resealing(p)
    BY <2>4, SetValueReseals, Zenon DEF SetValue
  <2>. QED BY <2>1, <2>2, <2>3, <2>4
<1>3. CASE Around
  BY <1>3 DEF Around
<1>4. CASE UNCHANGED vars
  BY <1>4
<1>. QED BY <1>1, <1>2, <1>3, <1>4 DEF Next

LEMMA InitInv == Init => IInv
<1>. SUFFICES ASSUME Init PROVE IInv
  OBVIOUS
<1>1. \A p \in Manifests : files[p] = NoFile /\ branch[p] = NoFile /\ pending[p] = NoFile
  BY DEF Init
<1>2. VersionsInv /\ KeysInv
  <2>1. generated = 0
    BY DEF Init
  <2>. QED BY <1>1, <2>1, NothingIsWellFormed DEF VersionsInv, KeysInv, Versions
<1>3. TypeOK
  <2>1. NoFile \in Contents /\ 1 \in Values /\ 0 \in Keys
    BY NothingIsWellFormed, ConstantsAssumption DEF WellFormed, Values, Keys
  <2>. QED BY <1>1, <2>1, NothingIsWellFormed, ConstantsAssumption DEF Init, TypeOK
<1>. QED BY <1>2, <1>3 DEF IInv

LEMMA StepInv == IInv /\ [Next]_vars => IInv'
<1>. SUFFICES ASSUME IInv, [Next]_vars PROVE IInv'
  OBVIOUS
<1>1. CASE UNCHANGED vars
  BY <1>1 DEF IInv, TypeOK, VersionsInv, KeysInv, Versions, vars, repository, history
<1>2. CASE Bulk
  BY <1>2, BulkStep
<1>3. CASE Abandon
  BY <1>3, AbandonStep
<1>4. CASE Fork
  BY <1>4, ForkStep
<1>5. CASE Switch
  BY <1>5, SwitchStep
<1>6. ASSUME NEW p \in Manifests, Write(p) PROVE IInv'
  BY <1>6, WriteStep
<1>7. ASSUME NEW p \in Manifests, Resealing(p) PROVE IInv'
  BY <1>7, ResealingSaves
<1>8. ASSUME NEW p \in Manifests, NEW recipients \in Lists, NEW op \in Fprs,
             RewrapManifest(p, recipients, op)
      PROVE  IInv'
  BY <1>8, RewrapSaves
<1>9. ASSUME NEW p \in Manifests, NEW completes \in BOOLEAN, Migrate(p, completes) PROVE IInv'
  BY <1>9, MigrateStep, Zenon
<1>10. ASSUME NEW p \in Manifests, AddLegacy(p) PROVE IInv'
  BY <1>10, AddLegacySaves
<1>11. ASSUME NEW p \in Manifests, Merge(p) PROVE IInv'
  BY <1>11, MergeStep
<1>. QED
  BY <1>1, <1>2, <1>3, <1>4, <1>5, <1>6, <1>7, <1>8, <1>9, <1>10, <1>11, StepKinds, Zenon

\* Every version of every manifest is well formed in every reachable state, whichever
\* commands overlap, and no content key is shared by two manifests.
THEOREM ManifestInvariant == Spec => []IInv
BY InitInv, StepInv, PTL DEF Spec

\* Whoever overlaps, the types are these.
THEOREM ManifestTypes == Spec => []TypeOK
<1>1. IInv => TypeOK
  BY DEF IInv
<1>. QED BY <1>1, ManifestInvariant, PTL

\* List, key and data of a manifest are of one another, but for what a merge has left apart
\* and no command has put together since.
THEOREM EveryoneReads == Spec => []EveryRecipientReads
<1>1. IInv => EveryRecipientReads
  BY DEF IInv, VersionsInv, Versions, WellFormed, EveryRecipientReads
<1>. QED BY <1>1, ManifestInvariant, PTL

\* No series of commands without --force, on whichever branches, takes the last recovery
\* recipient of a manifest away, as long as merges keep whom the version they take the key of
\* has in its list and its roles.
THEOREM RecoveryRemains == Spec => []RecoveryStays
<1>1. IInv => RecoveryStays
  BY DEF IInv, VersionsInv, Versions, WellFormed, RecoveryStays, KeepsRecovery, TypeOK, Contents
<1>. QED BY <1>1, ManifestInvariant, PTL

\* A provenance stamp is never about an earlier value, but for a merge that took the two of
\* different versions.
THEOREM StampsSpeakTrue == Spec => []StampIsTrue
<1>1. IInv => StampIsTrue
  BY DEF IInv, VersionsInv, Versions, WellFormed, StampIsTrue
<1>. QED BY <1>1, ManifestInvariant, PTL

\* Two finite sets of one size, one within the other, are one set.
LEMMA SameCount ==
    ASSUME NEW S, NEW T, IsFiniteSet(T), S \subseteq T, Cardinality(S) = Cardinality(T)
    PROVE  S = T
BY FS_Subset

\* The webhook compares a count, and that is enough as long as no merge took somebody off the
\* list whom the key is wrapped to, nor data of another version.
THEOREM CountIsEnough == Spec => []AdmittedOpensForRequired
<1>1. ASSUME IInv, NEW p \in Manifests, NEW required \in SUBSET Fprs,
             files[p].kind = "gitsecret", files[p].spliced \cap {"fewer", "values"} = {},
             validate(files[p], required), NEW f \in required
      PROVE  Unseals(files[p], f)
  <2>1. /\ files[p].sealed = files[p].key
        /\ files[p].wrapped \subseteq files[p].recipients
        /\ files[p].recipients \subseteq Fprs
    BY <1>1 DEF IInv, VersionsInv, Versions, WellFormed, Contents
  <2>2. f \in files[p].recipients
        /\ Cardinality(files[p].recipients) = Cardinality(files[p].wrapped)
    BY <1>1 DEF validate, VerifyRecipients, CountRecipients
  <2>3. IsFiniteSet(files[p].recipients)
    BY <2>1, FS_Subset, ConstantsAssumption
  <2>4. files[p].wrapped = files[p].recipients
    BY <2>1, <2>2, <2>3, SameCount
  <2>. QED BY <2>1, <2>2, <2>4 DEF Unseals, Decrypt
<1>2. IInv => AdmittedOpensForRequired
  BY <1>1 DEF AdmittedOpensForRequired
<1>. QED BY <1>2, ManifestInvariant, PTL

-----------------------------------------------------------------------------
(* An addition that was interrupted, run again. *)

\* What adding Wanted to the whole directory would write.
Rerun(op) == Computed(Manifests, TRUE, TRUE, Wanted, "none", FALSE, op)

\* For whoever opens every manifest it is those that lack Wanted and no others, each
\* under the key it had, wrapped to Wanted and to everyone listed, who are everyone it was
\* wrapped to but for those whom a merge took off the list.
RerunFinishes ==
    \A op \in Fprs :
        (\A p \in Manifests : readGitSecret(p) => Decrypt(files[p], op)) =>
            \A p \in Manifests :
                IF readGitSecret(p) /\ Wanted \notin files[p].recipients
                THEN /\ Rerun(op)[p].kind = "gitsecret" /\ Rerun(op)[p].key = files[p].key
                     /\ Rerun(op)[p].recipients = files[p].recipients \cup {Wanted}
                     /\ Rerun(op)[p].wrapped = files[p].recipients \cup {Wanted}
                     /\ "fewer" \notin files[p].spliced => files[p].wrapped \subseteq Rerun(op)[p].wrapped
                ELSE Rerun(op)[p] = NoFile

LEMMA AdditionWraps ==
    ASSUME NEW c, WellFormed(c), c.kind = "gitsecret",
           NEW next, next = [applyRecipientChange(c, TRUE, Wanted, "none") EXCEPT
                                !.guarded = @ /\ (TRUE \/ ~FALSE)]
    PROVE  /\ next.kind = "gitsecret" /\ next.key = c.key
           /\ next.recipients = c.recipients \cup {Wanted}
           /\ next.wrapped = c.recipients \cup {Wanted}
<1>. DEFINE base == Rewrap(c, c.recipients \cup {Wanted})
            changed == [base EXCEPT !.recovery = c.recovery, !.rolesKey = "current"]
<1>1. next = [changed EXCEPT !.guarded = @ /\ TRUE]
  BY DEF applyRecipientChange, ParseRecipientRoles
<1>2. c.recipients \cup {Wanted} \in SUBSET Fprs /\ c \in Contents
  BY ConstantsAssumption DEF WellFormed, Contents
<1>3. Rewrapped(c, base, c.recipients \cup {Wanted})
  BY <1>2, RewrapRewraps
<1>. HIDE DEF base
<1>4. /\ base \in Contents /\ base.kind = c.kind /\ base.key = c.key
      /\ base.recipients = c.recipients \cup {Wanted} /\ base.wrapped = c.recipients \cup {Wanted}
  BY <1>3 DEF Rewrapped
<1>5. /\ next.kind = base.kind /\ next.key = base.key
      /\ next.recipients = base.recipients /\ next.wrapped = base.wrapped
  BY <1>1, <1>4 DEF Contents
<1>. QED BY <1>4, <1>5

\* However often an addition failed partway, running it again has what is left of it to
\* do and is refused by nothing, and what it writes is wrapped to whom it lists
\* (recipients.go:377-379).
THEOREM RerunsFinish == Spec => []RerunFinishes
<1>1. ASSUME IInv, NEW op \in Fprs, NEW p \in Manifests,
             \A q \in Manifests : readGitSecret(q) => Decrypt(files[q], op)
      PROVE  IF readGitSecret(p) /\ Wanted \notin files[p].recipients
             THEN /\ Rerun(op)[p].kind = "gitsecret" /\ Rerun(op)[p].key = files[p].key
                  /\ Rerun(op)[p].recipients = files[p].recipients \cup {Wanted}
                  /\ Rerun(op)[p].wrapped = files[p].recipients \cup {Wanted}
                  /\ "fewer" \notin files[p].spliced => files[p].wrapped \subseteq Rerun(op)[p].wrapped
             ELSE Rerun(op)[p] = NoFile
  <2>. DEFINE todo == {q \in Manifests : readGitSecret(q) /\ ~NoChange(files[q], TRUE, Wanted)}
  <2>1. {q \in todo : ~MayApply(files[q], TRUE, Wanted, FALSE, op)} = {}
    BY <1>1 DEF MayApply, NoChange
  <2>2. Rerun(op)[p] = IF p \in todo
                       THEN [applyRecipientChange(files[p], TRUE, Wanted, "none") EXCEPT
                                !.guarded = @ /\ (TRUE \/ ~FALSE)]
                       ELSE NoFile
    BY <2>1 DEF Rerun, Computed, Unreadable
  <2>3. p \in todo <=> readGitSecret(p) /\ Wanted \notin files[p].recipients
    BY DEF NoChange
  <2>. HIDE DEF todo
  <2>4. WellFormed(files[p])
    BY <1>1 DEF IInv, VersionsInv, Versions
  <2>5. ASSUME p \in todo
        PROVE  /\ Rerun(op)[p].kind = "gitsecret" /\ Rerun(op)[p].key = files[p].key
               /\ Rerun(op)[p].recipients = files[p].recipients \cup {Wanted}
               /\ Rerun(op)[p].wrapped = files[p].recipients \cup {Wanted}
    BY <2>2, <2>3, <2>4, <2>5, AdditionWraps DEF readGitSecret
  <2>. QED BY <2>2, <2>3, <2>4, <2>5 DEF WellFormed
<1>2. IInv => RerunFinishes
  BY <1>1 DEF RerunFinishes
<1>. QED BY <1>2, ManifestInvariant, PTL

-----------------------------------------------------------------------------
(* Who is locked out, when nothing overlaps a bulk change. *)

\* A key is wrapped to more people, and no file that locks one of them out is under it.
GrantedTo(to, key) == granted' = granted \cup {<<f, key>> : f \in to}

LEMMA GrantLocksNobodyIn ==
    ASSUME LockedOut, NEW p \in Manifests, NEW key, NEW to,
           GrantedTo(to, key),
           \A q \in Manifests \ {p} : /\ files'[q] = files[q] /\ out'[q] = out[q]
                                      /\ to # {} => key \notin KeysOf(files[q]),
           \A f \in out'[p] : /\ f \notin to
                              /\ \A k \in KeysOf(files'[p]) : <<f, k>> \notin granted
    PROVE  LockedOut'
BY DEF LockedOut, GrantedTo, KeysOf

LEMMA LockStep ==
    ASSUME ~Overlaps, LockInv, [Next]_vars
    PROVE  LockInv'
<1>. USE DEF LockInv
<1>0. IInv'
  BY StepInv
<1>i. Free => \A p \in Manifests : pending[p] = NoFile
  BY DEF Free, Idle
<1>g. /\ \A p \in Manifests : \A k \in KeysOf(files[p]) : k \in Nat /\ k <= generated
      /\ generated \in Nat
      /\ \A f \in Fprs : <<f, 0>> \notin granted /\ <<f, generated + 1>> \notin granted
      /\ \A p \in Manifests : out[p] \subseteq Fprs
  BY ConstantsAssumption DEF IInv, TypeOK, KeysInv, KeysOf, Versions, Contents, Keys
<1>d. \A p \in Manifests : DOMAIN files = Manifests /\ DOMAIN out = Manifests /\ DOMAIN pending = Manifests
  BY DEF IInv, TypeOK
<1>1. CASE UNCHANGED vars
  BY <1>0, <1>1 DEF PendingInv, LockedOut, vars, repository, history
<1>2. CASE Bulk
  <2>1. PendingInv'
    <3>1. files' = files
      BY <1>2 DEF Bulk, Mutate
    <3>. QED BY <1>2, <3>1, BulkComputes DEF PendingInv
  <2>2. LockedOut'
    <3>1. files' = files /\ out' = out /\ granted' = granted
      BY <1>2 DEF Bulk, Mutate, history
    <3>. QED BY <3>1 DEF LockedOut, IInv
  <2>. QED BY <1>0, <2>1, <2>2
<1>3. CASE Abandon \/ Fork
  BY <1>0, <1>3 DEF Abandon, Fork, PendingInv, LockedOut, history
<1>4. CASE Switch
  <2>1. LockedOut'
    BY <1>4, SwitchStep, WhoIsLockedOut DEF LockedOut
  <2>. QED BY <1>0, <1>4, <2>1, SwitchStep DEF PendingInv
<1>5. ASSUME NEW p \in Manifests, Write(p) PROVE LockInv'
  <2>1. /\ files' = [files EXCEPT ![p] = pending[p]]
        /\ pending' = [pending EXCEPT ![p] = NoFile]
        /\ out' = [out EXCEPT ![p] = @ \ pending[p].wrapped]
        /\ granted' = granted \cup {<<f, pending[p].key>> : f \in pending[p].wrapped}
        /\ pending[p].key = files[p].key /\ pending[p].sealed = files[p].sealed
    BY <1>5 DEF Write, Grant, PendingInv
  <2>2. \A q \in Manifests \ {p} : pending[p].wrapped # {} => pending[p].key \notin KeysOf(files[q])
    <3>1. WellFormed(pending[p]) /\ pending[p].key \in KeysOf(pending[p])
      BY DEF IInv, VersionsInv, Versions, KeysOf
    <3>. QED BY <3>1 DEF IInv, KeysInv, Versions, WellFormed
  <2>3. \A f \in out'[p] : /\ f \notin pending[p].wrapped
                           /\ \A k \in KeysOf(files'[p]) : <<f, k>> \notin granted
    BY <1>d, <2>1 DEF LockedOut, KeysOf
  <2>4. LockedOut'
    <3>1. GrantedTo(pending[p].wrapped, pending[p].key)
      BY <2>1 DEF GrantedTo
    <3>2. \A q \in Manifests \ {p} : files'[q] = files[q] /\ out'[q] = out[q]
      BY <1>d, <2>1
    <3>. QED BY <2>2, <2>3, <3>1, <3>2, GrantLocksNobodyIn
  <2>. QED BY <1>0, <1>d, <2>1, <2>4 DEF PendingInv
<1>6. ASSUME NEW p \in Manifests, files' = [files EXCEPT ![p] = files'[p]], pending' = pending,
             granted' = granted \cup {<<f, generated + 1>> : f \in files'[p].wrapped},
             KeysOf(files'[p]) = {generated + 1}, out'[p] \subseteq Fprs \ files'[p].wrapped,
             \A q \in Manifests \ {p} : out'[q] = out[q],
             Free
      PROVE  LockInv'
  <2>1. \A q \in Manifests \ {p} : files'[q] = files[q] /\ generated + 1 \notin KeysOf(files[q])
    BY <1>g, <1>d, <1>6
  <2>2. GrantedTo(files'[p].wrapped, generated + 1)
    BY <1>6 DEF GrantedTo
  <2>3. \A f \in out'[p] : /\ f \notin files'[p].wrapped
                           /\ \A k \in KeysOf(files'[p]) : <<f, k>> \notin granted
    BY <1>6, <1>g
  <2>4. LockedOut'
    BY <1>6, <2>1, <2>2, <2>3, GrantLocksNobodyIn
  <2>5. PendingInv'
    BY <1>6, <1>i DEF PendingInv
  <2>. QED BY <1>0, <2>4, <2>5
<1>7. ASSUME NEW p \in Manifests, Free, Resealing(p) PROVE LockInv'
  <2>1. KeysOf(files'[p]) = {generated + 1}
    BY <1>7, ResealingSaves DEF KeysOf
  <2>. QED BY <1>6, <1>7, <2>1, ResealingSaves
<1>8. ASSUME NEW p \in Manifests, AddLegacy(p) PROVE LockInv'
  <2>1. out'[p] = Fprs \ files'[p].wrapped /\ \A q \in Manifests \ {p} : out'[q] = out[q]
    BY <1>8, <1>d, AddLegacySaves
  <2>2. KeysOf(files'[p]) = {generated + 1}
    BY <1>8, AddLegacySaves DEF KeysOf
  <2>. QED BY <1>6, <1>8, <2>1, <2>2, AddLegacySaves
<1>9. ASSUME NEW p \in Manifests, NEW recipients \in Lists, NEW op \in Fprs,
             RewrapManifest(p, recipients, op)
      PROVE  LockInv'
  <2>1. /\ WellFormed(files'[p])
        /\ files'[p].key = files[p].key /\ files'[p].sealed = files[p].sealed
        /\ files' = [files EXCEPT ![p] = files'[p]] /\ pending' = pending /\ Free
        /\ granted' = granted \cup {<<f, files[p].key>> : f \in files'[p].wrapped}
        /\ out' = [out EXCEPT ![p] = @ \ files'[p].wrapped]
    BY <1>9, RewrapSaves
  <2>2. \A q \in Manifests \ {p} : files'[p].wrapped # {} => files[p].key \notin KeysOf(files[q])
    <3>1. files[p].key \in KeysOf(files[p]) /\ (files[p].key = 0 => files'[p].wrapped = {})
      BY <2>1 DEF WellFormed, KeysOf
    <3>. QED BY <3>1 DEF IInv, KeysInv, Versions
  <2>3. LockedOut'
    <3>1. \A f \in out'[p] : /\ f \notin files'[p].wrapped
                             /\ \A k \in KeysOf(files'[p]) : <<f, k>> \notin granted
      BY <1>d, <2>1 DEF LockedOut, KeysOf
    <3>2. \A q \in Manifests \ {p} : files'[q] = files[q] /\ out'[q] = out[q]
      BY <1>d, <2>1
    <3>3. GrantedTo(files'[p].wrapped, files[p].key)
      BY <2>1 DEF GrantedTo
    <3>. QED BY <2>2, <3>1, <3>2, <3>3, GrantLocksNobodyIn
  <2>. QED BY <1>0, <1>i, <2>1, <2>3 DEF PendingInv
<1>10. ASSUME NEW p \in Manifests, NEW completes \in BOOLEAN, Migrate(p, completes)
       PROVE  LockInv'
  <2>1. PICK new : /\ files' = [files EXCEPT ![p] = new]
                   /\ \/ new.key = files[p].key /\ new.sealed = files[p].sealed
                      \/ new.key = 0 /\ new.sealed = 0
                   /\ Free /\ UNCHANGED <<pending, granted, out>>
    BY <1>10, MigrateStep, Zenon
  <2>2. \A q \in Manifests : files'[q] = IF q = p THEN new ELSE files[q]
    BY <1>d, <2>1
  <2>3. ASSUME NEW q \in Manifests, NEW f \in out'[q]
        PROVE  <<f, files'[q].key>> \notin granted' /\ <<f, files'[q].sealed>> \notin granted'
    <3>1. f \in out[q] /\ f \in Fprs /\ granted' = granted
      BY <1>g, <2>1
    <3>2. /\ files'[q].key \in {0, files[q].key}
          /\ files'[q].sealed \in {0, files[q].sealed}
      BY <2>1, <2>2
    <3>. QED BY <1>g, <3>1, <3>2 DEF LockedOut
  <2>. QED BY <1>0, <1>i, <2>1, <2>3 DEF PendingInv, LockedOut
<1>11. ASSUME NEW p \in Manifests, Merge(p) PROVE LockInv'
  <2>1. /\ files' = [files EXCEPT ![p] = files'[p]] /\ pending' = pending /\ granted' = granted
        /\ \A q \in Manifests : pending[q] = NoFile
        /\ out'[p] = LockedOutOf(p, files'[p])
        /\ \A q \in Manifests \ {p} : out'[q] = out[q]
    BY <1>11, MergeStep
  <2>2. \A q \in Manifests \ {p} : files'[q] = files[q]
    BY <1>d, <2>1
  <2>3. LockedOut'
    BY <2>1, <2>2, WhoIsLockedOut DEF LockedOut
  <2>. QED BY <1>0, <2>1, <2>3 DEF PendingInv
<1>. QED
  BY <1>1, <1>2, <1>3, <1>4, <1>5, <1>7, <1>8, <1>9, <1>10, <1>11, StepKinds, Zenon

\* When nothing overlaps a bulk change: whoever a re-encryption has locked out has, of
\* no version of any file, the key that opens it now.
THEOREM RekeyLocksOut == ASSUME ~Overlaps PROVE Spec => []LockedOut
<1>1. Init => LockInv
  BY InitInv DEF LockInv, Init, PendingInv, LockedOut
<1>2. LockInv /\ [Next]_vars => LockInv'
  BY LockStep
<1>3. LockInv => LockedOut
  BY DEF LockInv
<1>. QED BY <1>1, <1>2, <1>3, PTL DEF Spec

=============================================================================
