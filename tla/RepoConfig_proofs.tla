-------------------------- MODULE RepoConfig_proofs --------------------------
(***************************************************************************)
(* Proofs about RepoConfig.  What a repository loads is a merge of three   *)
(* layers; the proofs rest on what that merge keeps, and on its being a    *)
(* fixed point: a config that a command saved, merged already, loads as it *)
(* is.  What a glob matches is computed by recursion; that it is what a    *)
(* glob means is proved of the equation: the meaning satisfies it, and     *)
(* nothing else does.                                                      *)
(***************************************************************************)
EXTENDS RepoConfig, SequenceTheorems, WellFoundedInduction, TLAPS

-----------------------------------------------------------------------------
(* The merge. *)

Layer(machine) == IF machine = Unset THEN NoContent ELSE machine

Backends == {"file", "gpg"}

LEMMA UnsetIsNothing ==
    /\ Unset \notin Contents /\ Unset \notin Ids /\ Unset \notin KeySources /\ Unset \notin Backends
BY ConstantsAssumption DEF Backends

LEMMA ContentFields ==
    ASSUME NEW c \in Contents
    PROVE  /\ c.patterns \subseteq Globs /\ c.exclude \subseteq Globs
           /\ c.backend \in Backends \cup {Unset} /\ c.key_source \in KeySources \cup {Unset}
           /\ c.repo_id \in Ids \cup {Unset} /\ c.recipients \subseteq Fprs
           /\ c # Unset
BY UnsetIsNothing DEF Contents, Backends

LEMMA NoContentTyped == NoContent \in Contents
BY DEF NoContent, Contents

LEMMA LayerTyped ==
    ASSUME NEW machine \in Contents \cup {Unset} PROVE Layer(machine) \in Contents
BY NoContentTyped DEF Layer

\* The directory a repository's keys are in when no config says.
DefaultSource(isLegacy) == IF isLegacy THEN ".repo-enc/key" ELSE ".keyfold/key"

\* The merge, field by field.
LEMMA Merged ==
    ASSUME NEW isLegacy \in BOOLEAN, NEW repo \in Contents, NEW machine \in Contents \cup {Unset}
    PROVE  LET config == MergeGlobalFor(isLegacy, repo, machine)
               layer == Layer(machine)
           IN  /\ config \in Contents
               /\ config.patterns = layer.patterns \cup repo.patterns
               /\ config.exclude = repo.exclude
               /\ config.backend = Overlaid(Overlaid("file", layer.backend), repo.backend)
               /\ config.key_source =
                     Overlaid(Overlaid(DefaultSource(isLegacy), layer.key_source), repo.key_source)
               /\ config.repo_id = Overlaid(layer.repo_id, repo.repo_id)
               /\ config.recipients = layer.recipients \cup repo.recipients
               /\ config.backend \in Backends /\ config.key_source \in KeySources
<1> DEFINE layer == Layer(machine)
           base == defaults(isLegacy)
           first == mergeInto(base, layer)
           second == mergeInto(first, repo)
<1>1. layer \in Contents
  BY LayerTyped
<1>2. /\ base \in Contents /\ base.patterns = {} /\ base.backend = "file"
      /\ base.key_source = DefaultSource(isLegacy) /\ base.repo_id = Unset /\ base.recipients = {}
      /\ base.key_source \in KeySources
  BY NoContentTyped DEF defaults, NoContent, Contents, DefaultSource, KeySources
<1> HIDE DEF layer, base
<1>3. /\ first \in Contents /\ first.patterns = layer.patterns
      /\ first.backend = Overlaid("file", layer.backend)
      /\ first.key_source = Overlaid(DefaultSource(isLegacy), layer.key_source)
      /\ first.repo_id = layer.repo_id /\ first.recipients = layer.recipients
      /\ first.backend \in Backends /\ first.key_source \in KeySources
  BY <1>1, <1>2, UnsetIsNothing DEF mergeInto, Overlaid, Contents, Backends
<1> HIDE DEF first
<1>4. /\ second \in Contents /\ second.patterns = layer.patterns \cup repo.patterns
      /\ second.backend = Overlaid(Overlaid("file", layer.backend), repo.backend)
      /\ second.key_source =
            Overlaid(Overlaid(DefaultSource(isLegacy), layer.key_source), repo.key_source)
      /\ second.repo_id = Overlaid(layer.repo_id, repo.repo_id)
      /\ second.recipients = layer.recipients \cup repo.recipients
      /\ second.backend \in Backends /\ second.key_source \in KeySources
  BY <1>3, UnsetIsNothing DEF mergeInto, Overlaid, Contents, Backends
<1>5. MergeGlobalFor(isLegacy, repo, machine) = [second EXCEPT !.exclude = repo.exclude]
  BY DEF MergeGlobalFor, Excluded, first, second, base, layer, Layer
<1> HIDE DEF second
<1> QED BY <1>4, <1>5 DEF Contents, layer

LEMMA SameFields ==
    ASSUME NEW c \in Contents, NEW d \in Contents,
           c.patterns = d.patterns, c.exclude = d.exclude, c.backend = d.backend,
           c.key_source = d.key_source, c.repo_id = d.repo_id, c.recipients = d.recipients
    PROVE  c = d
BY DEF Contents

\* A config that was merged and saved, with other recipients, merges to itself: neither
\* the defaults nor the global config find a field they could still fill in.
LEMMA MergedAgain ==
    ASSUME NEW isLegacy \in BOOLEAN, NEW repo \in Contents, NEW machine \in Contents \cup {Unset},
           NEW recipients \in SUBSET Fprs
    PROVE  LET config == MergeGlobalFor(isLegacy, repo, machine)
               saved == [config EXCEPT !.recipients = recipients]
           IN  /\ saved \in Contents
               /\ MergeGlobalFor(isLegacy, saved, machine)
                     = [config EXCEPT !.recipients = Layer(machine).recipients \cup recipients]
<1> DEFINE config == MergeGlobalFor(isLegacy, repo, machine)
           saved == [config EXCEPT !.recipients = recipients]
           again == MergeGlobalFor(isLegacy, saved, machine)
           wanted == [config EXCEPT !.recipients = Layer(machine).recipients \cup recipients]
           layer == Layer(machine)
<1>1. layer \in Contents
  BY LayerTyped
<1>2. /\ config \in Contents
      /\ config.patterns = layer.patterns \cup repo.patterns /\ config.exclude = repo.exclude
      /\ config.repo_id = Overlaid(layer.repo_id, repo.repo_id)
      /\ config.recipients = layer.recipients \cup repo.recipients
      /\ config.backend \in Backends /\ config.key_source \in KeySources
  BY Merged
<1> HIDE DEF config, layer
<1>3. /\ saved \in Contents /\ saved.recipients = recipients
      /\ saved.patterns = config.patterns /\ saved.exclude = config.exclude
      /\ saved.backend = config.backend /\ saved.key_source = config.key_source
      /\ saved.repo_id = config.repo_id
  BY <1>2 DEF Contents
<1> HIDE DEF saved
<1>4. /\ again \in Contents
      /\ again.patterns = layer.patterns \cup saved.patterns /\ again.exclude = saved.exclude
      /\ again.backend = Overlaid(Overlaid("file", layer.backend), saved.backend)
      /\ again.key_source =
            Overlaid(Overlaid(DefaultSource(isLegacy), layer.key_source), saved.key_source)
      /\ again.repo_id = Overlaid(layer.repo_id, saved.repo_id)
      /\ again.recipients = layer.recipients \cup saved.recipients
  BY <1>3, Merged DEF layer
<1> HIDE DEF again
<1>5. wanted \in Contents /\ wanted.recipients = layer.recipients \cup recipients
      /\ wanted.patterns = config.patterns /\ wanted.exclude = config.exclude
      /\ wanted.backend = config.backend /\ wanted.key_source = config.key_source
      /\ wanted.repo_id = config.repo_id
  <2>1. layer.recipients \subseteq Fprs
    BY <1>1, ContentFields
  <2> QED BY <1>2, <2>1 DEF Contents, layer
<1> HIDE DEF wanted
<1>6. again.backend = wanted.backend /\ again.key_source = wanted.key_source
  BY <1>2, <1>3, <1>4, <1>5, UnsetIsNothing DEF Overlaid
<1>7. again.repo_id = wanted.repo_id
  BY <1>2, <1>3, <1>4, <1>5 DEF Overlaid
<1>8. again.patterns = wanted.patterns
  BY <1>2, <1>3, <1>4, <1>5
<1>9. again.exclude = wanted.exclude /\ again.recipients = wanted.recipients
  BY <1>3, <1>4, <1>5
<1>10. again = wanted
  BY <1>4, <1>5, <1>6, <1>7, <1>8, <1>9, SameFields
<1> QED BY <1>3, <1>10 DEF config, saved, again, wanted

-----------------------------------------------------------------------------
(* Loading and saving. *)

\* What is loaded, when anything is.
LEMMA Loaded ==
    ASSUME TypeOK, NEW machine, Load(machine) # Unset
    PROVE  /\ (current = Unset) # (legacy = Unset)
           /\ Repo \in Contents /\ IsLegacy \in BOOLEAN
           /\ Load(machine) = MergeGlobalFor(IsLegacy, Repo, machine)
           /\ Validate(Load(machine))
BY DEF TypeOK, Load, Repo, IsLegacy

\* A save goes where Path finds it, and the other file stays away.
LEMMA Saved ==
    ASSUME TypeOK, NEW machine, Load(machine) # Unset, NEW config \in Contents, Save(config)
    PROVE  /\ (current' = Unset) # (legacy' = Unset)
           /\ IsLegacy' = IsLegacy /\ Repo' = config
           /\ current' \in Contents \cup {Unset} /\ legacy' \in Contents \cup {Unset}
BY Loaded, ContentFields DEF TypeOK, Save, Repo, IsLegacy

\* What the next command loads once one has saved.
LEMMA LoadedAgain ==
    ASSUME TypeOK, global' = global, NEW recipients \in SUBSET Fprs, Load(global) # Unset,
           Load(global).backend = "gpg" => recipients # {},
           Save([Load(global) EXCEPT !.recipients = recipients])
    PROVE  /\ Load(global)' # Unset
           /\ Load(global)' = [Load(global) EXCEPT !.recipients = Load(global)'.recipients]
<1> DEFINE config == Load(global)
           saved == [config EXCEPT !.recipients = recipients]
           all == Layer(global).recipients \cup recipients
           again == [config EXCEPT !.recipients = all]
<1>1. /\ Repo \in Contents /\ IsLegacy \in BOOLEAN /\ global \in Contents \cup {Unset}
      /\ config = MergeGlobalFor(IsLegacy, Repo, global) /\ Validate(config)
  BY Loaded DEF TypeOK
<1>2. saved \in Contents /\ MergeGlobalFor(IsLegacy, saved, global) = again
  BY <1>1, MergedAgain
<1>3. config \in Contents
  BY <1>1, Merged
<1>4. Save(saved)
  OBVIOUS
<1> HIDE DEF config, saved, all
<1>5. /\ again.patterns = config.patterns /\ again.backend = config.backend /\ again.recipients = all
      /\ again = [config EXCEPT !.recipients = again.recipients]
  BY <1>3 DEF Contents
<1>6. (current' = Unset) # (legacy' = Unset) /\ IsLegacy' = IsLegacy /\ Repo' = saved
  BY <1>2, <1>4, Saved DEF config
<1>7. Validate(again)
  BY <1>1, <1>5 DEF Validate, config, all
<1> HIDE DEF again
<1>8. again # Unset
  <2>1. again \in Contents
    BY <1>1, <1>2, Merged
  <2> QED BY <2>1, ContentFields
<1>9. Load(global)' = again
  BY <1>2, <1>6, <1>7 DEF Load, Repo
<1> QED BY <1>5, <1>8, <1>9 DEF config

\* What another machine loads once this one has saved: no less of the files, and what
\* the repository's file said before.
LEMMA LoadedElsewhere ==
    ASSUME TypeOK, NEW recipients \in SUBSET Fprs, Load(global) # Unset,
           Load(global).backend = "gpg" => recipients # {},
           Save([Load(global) EXCEPT !.recipients = recipients]),
           NEW machine \in Contents \cup {Unset}
    PROVE  KeptElsewhere(machine)
<1> SUFFICES ASSUME Load(machine) # Unset PROVE KeptElsewhere(machine)
  BY DEF KeptElsewhere
<1> DEFINE config == Load(global)
           saved == [config EXCEPT !.recipients = recipients]
           before == Load(machine)
           after == MergeGlobalFor(IsLegacy, saved, machine)
           layer == Layer(machine)
<1>1. /\ Repo \in Contents /\ IsLegacy \in BOOLEAN /\ global \in Contents \cup {Unset}
      /\ config = MergeGlobalFor(IsLegacy, Repo, global)
      /\ before = MergeGlobalFor(IsLegacy, Repo, machine) /\ Validate(before)
  BY Loaded DEF TypeOK
<1>2. /\ config \in Contents
      /\ config.patterns = Layer(global).patterns \cup Repo.patterns
      /\ config.exclude = Repo.exclude
      /\ config.backend = Overlaid(Overlaid("file", Layer(global).backend), Repo.backend)
      /\ config.key_source =
            Overlaid(Overlaid(DefaultSource(IsLegacy), Layer(global).key_source), Repo.key_source)
      /\ config.repo_id = Overlaid(Layer(global).repo_id, Repo.repo_id)
      /\ config.backend \in Backends /\ config.key_source \in KeySources
  BY <1>1, Merged
<1>3. /\ before.patterns = layer.patterns \cup Repo.patterns /\ before.exclude = Repo.exclude
      /\ before.backend = Overlaid(Overlaid("file", layer.backend), Repo.backend)
      /\ before.key_source =
            Overlaid(Overlaid(DefaultSource(IsLegacy), layer.key_source), Repo.key_source)
      /\ before.repo_id = Overlaid(layer.repo_id, Repo.repo_id)
  BY <1>1, Merged
<1>4. /\ saved \in Contents /\ saved.recipients = recipients
      /\ saved.patterns = config.patterns /\ saved.exclude = config.exclude
      /\ saved.backend = config.backend /\ saved.key_source = config.key_source
      /\ saved.repo_id = config.repo_id
  BY <1>2 DEF Contents
<1>5. /\ (current' = Unset) # (legacy' = Unset) /\ IsLegacy' = IsLegacy /\ Repo' = saved
  BY <1>4, Saved DEF config
<1> HIDE DEF config, saved, before, layer
<1>6. /\ after \in Contents
      /\ after.patterns = layer.patterns \cup saved.patterns /\ after.exclude = saved.exclude
      /\ after.backend = Overlaid(Overlaid("file", layer.backend), saved.backend)
      /\ after.key_source =
            Overlaid(Overlaid(DefaultSource(IsLegacy), layer.key_source), saved.key_source)
      /\ after.repo_id = Overlaid(layer.repo_id, saved.repo_id)
      /\ after.recipients = layer.recipients \cup saved.recipients
  BY <1>1, <1>4, Merged DEF layer
<1>7. Load(machine)' = (IF Validate(after) THEN after ELSE Unset)
  BY <1>5 DEF Load
<1> HIDE DEF after
<1>8. after.backend = config.backend /\ after.key_source = config.key_source
  BY <1>2, <1>4, <1>6, UnsetIsNothing DEF Overlaid
<1>9. before.patterns \subseteq after.patterns /\ after.exclude = before.exclude
  BY <1>2, <1>3, <1>4, <1>6
<1>10. Validate(after)
  <2>1. before.patterns # {}
    BY <1>1 DEF Validate
  <2>2. after.backend = "gpg" => recipients # {}
    BY <1>8 DEF config
  <2> QED BY <2>1, <2>2, <1>4, <1>6, <1>9 DEF Validate
<1>11. Load(machine)' = after /\ after # Unset
  BY <1>6, <1>7, <1>10, ContentFields
<1>12. \A p \in Files : Protects(Load(machine), p) => Protects(Load(machine), p)'
  BY <1>9, <1>11 DEF Protects, Matches, before
<1>13. Repo["backend"] # Unset => after.backend = before.backend
  BY <1>2, <1>3, <1>8, UnsetIsNothing DEF Overlaid
<1>14. Repo["key_source"] # Unset => after.key_source = before.key_source
  BY <1>2, <1>3, <1>8, UnsetIsNothing DEF Overlaid
<1>15. Repo["repo_id"] # Unset => after.repo_id = before.repo_id
  BY <1>2, <1>3, <1>4, <1>6 DEF Overlaid
<1> QED BY <1>11, <1>12, <1>13, <1>14, <1>15 DEF KeptElsewhere, before

-----------------------------------------------------------------------------
(* Types. *)

LEMMA LoadTyped ==
    ASSUME TypeOK, NEW machine \in Contents \cup {Unset}, Load(machine) # Unset
    PROVE  /\ Load(machine) \in Contents
           /\ Load(machine).backend \in Backends /\ Load(machine).key_source \in KeySources
BY Loaded, Merged

LEMMA NextTypes == ASSUME TypeOK, [Next]_vars PROVE TypeOK'
<1>1. CASE UNCHANGED vars
  BY <1>1 DEF vars, TypeOK
<1>2. ASSUME NEW glob \in Globs, NEW backend \in Backends, NEW recipients \in SUBSET Fprs,
             NEW id \in Ids, InitNew({glob}, backend, recipients, id)
      PROVE  TypeOK'
  <2> DEFINE written == WriteConfig({glob}, backend, recipients, id)
             merged == MergeGlobalFor(FALSE, written, global)
  <2>1. written \in Contents
    BY DEF WriteConfig, NoContent, Contents, Backends, KeySources
  <2>2. merged \in Contents /\ merged.key_source \in KeySources
    BY <2>1, Merged DEF TypeOK
  <2>3. /\ current' \in {merged, written} /\ keys' \in {keys, keys \cup {merged.key_source}}
        /\ UNCHANGED <<legacy, global, edits>> /\ legacy = Unset
    BY <1>2 DEF InitNew
  <2> HIDE DEF written, merged
  <2> QED BY <2>1, <2>2, <2>3 DEF TypeOK
<1>3. ASSUME NEW config \in Contents, Load(global) # Unset,
             Save(config) \/ UNCHANGED <<current, legacy>>,
             UNCHANGED <<global, edits>>, keys' \subseteq KeySources
      PROVE  TypeOK'
  <2>1. CASE Save(config)
    BY <1>3, <2>1, Saved DEF TypeOK
  <2> QED BY <1>3, <2>1 DEF TypeOK
<1>4. CASE InitAgain
  <2>1. Load(global) \in Contents /\ Load(global).key_source \in KeySources
    BY <1>4, LoadTyped DEF InitAgain, TypeOK
  <2> QED BY <1>3, <1>4, <2>1 DEF InitAgain, TypeOK
<1>5. ASSUME NEW recipients \in SUBSET Fprs, Granting(recipients) PROVE TypeOK'
  <2>1. Load(global) \in Contents
    BY <1>5, LoadTyped DEF Granting, TypeOK
  <2>2. [Load(global) EXCEPT !.recipients = recipients] \in Contents
    BY <2>1 DEF Contents
  <2> QED BY <1>3, <1>5, <2>2 DEF Granting, TypeOK
<1>6. Edit => edits' \in 0..MaxEdits /\ edits' # 0
  BY ConstantsAssumption DEF Edit, TypeOK
<1>7. CASE Users
  BY <1>6, <1>7, ConstantsAssumption DEF Users, EditConfig, EditGlobal, Rename, TypeOK
<1> QED BY <1>1, <1>2, <1>4, <1>5, <1>7 DEF Next, Commands, Backends

LEMMA InitTyped == ASSUME Init PROVE TypeOK
<1>1. /\ current \in Contents \cup {Unset} /\ legacy \in Contents \cup {Unset}
      /\ global \in Contents \cup {Unset} /\ edits = 0 /\ current = Unset
  BY ConstantsAssumption DEF Init
<1>2. Load(global) # Unset => Load(global).key_source \in KeySources
  BY <1>1, Merged DEF Load, IsLegacy, Repo
<1> QED BY <1>1, <1>2, ConstantsAssumption DEF Init, TypeOK

\* Whatever users write and commands save, the config files hold configs, and an untouched
\* repository has one at most (config.go).
THEOREM ConfigTypes == Spec => []TypeOK
<1>1. Init => TypeOK
  BY InitTyped
<1>2. TypeOK /\ [Next]_vars => TypeOK'
  BY NextTypes
<1> QED BY <1>1, <1>2, PTL DEF Spec

-----------------------------------------------------------------------------
(* Policy. *)

\* Whatever globs and paths there are and however a glob matches: the global config
\* takes no file out of what the repository's own config protects, whichever commands
\* have saved the two merged (config.go: MergeGlobalFor leaves exclude alone).
THEOREM GlobalNeverUnprotects == Spec => []GlobalOnlyProtectsMore
<1>1. ASSUME TypeOK, Load(global) # Unset, NEW p \in Files, Protects(Load(Unset), p)
      PROVE  Protects(Load(global), p)
  <2>1. Load(Unset) # Unset /\ Matches(Load(Unset), p)
    BY <1>1 DEF Protects
  <2>2. /\ Repo \in Contents /\ IsLegacy \in BOOLEAN /\ global \in Contents \cup {Unset}
        /\ Load(global) = MergeGlobalFor(IsLegacy, Repo, global)
        /\ Load(Unset) = MergeGlobalFor(IsLegacy, Repo, Unset)
    BY <1>1, <2>1, Loaded DEF TypeOK
  <2>3. /\ Load(global).patterns = Layer(global).patterns \cup Repo.patterns
        /\ Load(global).exclude = Repo.exclude
    BY <2>2, Merged
  <2>4. /\ Load(Unset).patterns = NoContent.patterns \cup Repo.patterns
        /\ Load(Unset).exclude = Repo.exclude
    BY <2>2, Merged DEF Layer
  <2>5. NoContent.patterns = {}
    BY DEF NoContent
  <2> QED BY <1>1, <2>1, <2>3, <2>4, <2>5 DEF Protects, Matches
<1>2. TypeOK => GlobalOnlyProtectsMore
  BY <1>1 DEF GlobalOnlyProtectsMore
<1> QED BY <1>2, ConfigTypes, PTL

\* init, adduser, removeuser and rotate-keys save a merged config.  For any configs, global
\* or not, and whatever fields they leave out: what this machine loads from it afterwards
\* differs in the recipients at most, and what any other machine loads protects no fewer
\* files and differs in nothing else that the repository's own file had said (config.go:
\* Load, Save; adduser.go, removeuser.go).
THEOREM CommandsNeverChangePolicy == Spec => CommandsKeepPolicy
<1> DEFINE Kept == KeptHere /\ \A machine \in Globals \cup {Unset} : KeptElsewhere(machine)
<1>1. Globals \cup {Unset} \subseteq Contents \cup {Unset}
  BY ConstantsAssumption
<1>2. ASSUME TypeOK, UNCHANGED <<current, legacy, global>> PROVE Kept
  <2>1. ASSUME NEW machine PROVE Load(machine)' = Load(machine)
    BY <1>2 DEF Load, IsLegacy, Repo
  <2>2. KeptHere
    <3> SUFFICES ASSUME Load(global) # Unset PROVE KeptHere
      BY DEF KeptHere
    <3>1. Load(global)' = Load(global)
      BY <1>2 DEF Load, IsLegacy, Repo
    <3>2. Load(global) \in Contents
      BY <1>2, LoadTyped DEF TypeOK
    <3>3. Load(global) = [Load(global) EXCEPT !.recipients = Load(global).recipients]
      BY <3>2 DEF Contents
    <3> QED BY <3>1, <3>3 DEF KeptHere
  <2>3. ASSUME NEW machine \in Globals \cup {Unset} PROVE KeptElsewhere(machine)
    BY <2>1 DEF KeptElsewhere, Protects
  <2> QED BY <2>2, <2>3
<1>3. ASSUME TypeOK, UNCHANGED global, NEW recipients \in SUBSET Fprs, Load(global) # Unset,
             Load(global).backend = "gpg" => recipients # {},
             Save([Load(global) EXCEPT !.recipients = recipients])
      PROVE  Kept
  BY <1>1, <1>3, LoadedAgain, LoadedElsewhere DEF KeptHere
<1>4. ASSUME TypeOK, NEW patterns, NEW backend, NEW recipients, NEW id,
             InitNew(patterns, backend, recipients, id)
      PROVE  Kept
  <2>1. current = Unset /\ legacy = Unset
    BY <1>4 DEF InitNew
  <2>2. ASSUME NEW machine PROVE Load(machine) = Unset
    BY <2>1 DEF Load
  <2> QED BY <2>2 DEF KeptHere, KeptElsewhere
<1>5. ASSUME TypeOK, InitAgain PROVE Kept
  <2>1. /\ Load(global) # Unset /\ Load(global) \in Contents /\ Validate(Load(global))
        /\ global' = global
    BY <1>5, Loaded, LoadTyped DEF TypeOK, InitAgain
  <2>2. CASE Load(global).backend = "gpg"
    <3>1. /\ Load(global).recipients \in SUBSET Fprs /\ Load(global).recipients # {}
          /\ Load(global) = [Load(global) EXCEPT !.recipients = Load(global).recipients]
      BY <2>1, <2>2 DEF Contents, Validate
    <3>2. Save(Load(global))
      BY <1>5, <2>2 DEF InitAgain
    <3> HIDE DEF Kept
    <3> QED BY <1>3, <1>5, <2>1, <3>1, <3>2
  <2>3. CASE Load(global).backend # "gpg"
    BY <1>2, <1>5, <2>1, <2>3 DEF InitAgain
  <2> QED BY <2>2, <2>3
<1>6. ASSUME TypeOK, NEW recipients \in SUBSET Fprs, Granting(recipients) PROVE Kept
  BY <1>3, <1>6 DEF Granting
<1>7. ASSUME TypeOK, Users PROVE edits' # edits
  BY <1>7, ConstantsAssumption DEF TypeOK, Users, EditConfig, EditGlobal, Rename, Edit
<1> HIDE DEF Kept
<1>8. ASSUME TypeOK, [Next]_vars, edits' = edits PROVE Kept
  BY <1>2, <1>4, <1>5, <1>6, <1>7, <1>8 DEF Next, Commands, vars
<1>9. TypeOK /\ [Next]_vars => [edits' = edits => Kept]_vars
  BY <1>8
<1>10. TypeOK /\ [Next]_vars =>
          [edits' = edits => /\ KeptHere
                             /\ \A machine \in Globals \cup {Unset} : KeptElsewhere(machine)]_vars
  BY <1>9 DEF Kept
<1> QED BY <1>10, ConfigTypes, PTL DEF CommandsKeepPolicy, Spec

-----------------------------------------------------------------------------
(* Globs. *)

Segments == Seq(STRING)

LEMMA LenAndEmpty ==
    ASSUME NEW s \in Segments PROVE Len(s) \in Nat /\ (s = <<>> <=> Len(s) = 0)
BY EmptySeq, LenProperties DEF Segments

\* Where an induction would run over the length of a glob, or along a cut, the proofs take
\* the least counterexample.
LEMMA LeastOf ==
    ASSUME NEW T \in SUBSET Nat, T # {} PROVE \E x \in T : \A y \in T : x <= y
<1> DEFINE Less == OpToRel(<, Nat)
<1>1. IsWellFoundedOn(Less, Nat)
  BY NatLessThanWellFounded
<1>2. \A x, y \in Nat : y < x => <<y, x>> \in Less
  BY DEF OpToRel
<1> HIDE DEF Less
<1>3. PICK x \in T : \A y \in T : <<y, x>> \notin Less
  BY <1>1, WFMin
<1>4. ASSUME NEW y \in T PROVE x <= y
  <2>1. x \in Nat /\ y \in Nat /\ ~(y < x)
    BY <1>2, <1>3
  <2> QED BY <2>1
<1> QED BY <1>4

\* A path without its first k segments.
Rest(path, k) == SubSeq(path, k + 1, Len(path))

LEMMA RestProperties ==
    ASSUME NEW path \in Segments, NEW k \in 0..Len(path)
    PROVE  /\ Rest(path, k) \in Segments
           /\ Len(Rest(path, k)) = Len(path) - k
           /\ \A i \in 1..Len(path) - k : Rest(path, k)[i] = path[i + k]
<1>1. Len(path) \in Nat /\ k \in Nat /\ \A i \in 1..Len(path) : path[i] \in STRING
  BY LenProperties, ElementOfSeq DEF Segments
<1>2. \A i \in k + 1..Len(path) : path[i] \in STRING
  BY <1>1
<1>3. /\ Rest(path, k) \in Segments
      /\ Len(Rest(path, k)) = IF k + 1 <= Len(path) THEN Len(path) - (k + 1) + 1 ELSE 0
      /\ \A i \in 1..Len(path) - (k + 1) + 1 : Rest(path, k)[i] = path[k + 1 + i - 1]
  BY <1>1, <1>2, SubSeqProperties DEF Rest, Segments
<1> QED BY <1>1, <1>3

LEMMA TailProperties ==
    ASSUME NEW s \in Segments, s # <<>>
    PROVE  /\ Head(s) = s[1] /\ Tail(s) \in Segments
           /\ Len(s) \in Nat \ {0} /\ Len(Tail(s)) = Len(s) - 1
           /\ \A i \in 1..Len(s) - 1 : Tail(s)[i] = s[i + 1]
           /\ Tail(s) = Rest(s, 1)
BY HeadTailProperties, EmptySeq, TailIsSubSeq DEF Segments, Rest

\* The reference definition, of a glob without its leading "/".
Piece(segment, path, from, to) ==
    IF segment = "**" THEN to >= from ELSE to = from + 1 /\ filepathMatch(segment, path[to])

IsCut(glob, path, cut) ==
    /\ cut[0] = 0 /\ cut[Len(glob)] = Len(path)
    /\ \A i \in 1..Len(glob) : Piece(glob[i], path, cut[i - 1], cut[i])

CanCut(glob, path) == \E cut \in [0..Len(glob) -> 0..Len(path)] : IsCut(glob, path, cut)

\* A cut never goes back.
LEMMA CutForward ==
    ASSUME NEW glob \in Segments, NEW path \in Segments,
           NEW cut \in [0..Len(glob) -> 0..Len(path)], IsCut(glob, path, cut)
    PROVE  \A i \in 1..Len(glob) : cut[1] <= cut[i]
<1> DEFINE Short == {i \in 1..Len(glob) : cut[i] < cut[1]}
<1>1. Len(glob) \in Nat /\ Len(path) \in Nat /\ \A i \in 0..Len(glob) : cut[i] \in Nat
  BY LenAndEmpty
<1>2. \A i \in 1..Len(glob) : cut[i - 1] <= cut[i]
  <2>1. \A i \in 1..Len(glob) : i - 1 \in 0..Len(glob) /\ i \in 0..Len(glob)
    BY <1>1
  <2> QED BY <1>1, <2>1 DEF IsCut, Piece
<1>3. ASSUME Short # {} PROVE FALSE
  <2>1. Short \in SUBSET Nat
    BY <1>1
  <2>2. PICK x \in Short : \A y \in Short : x <= y
    <3> HIDE DEF Short
    <3> QED BY <1>3, <2>1, LeastOf
  <2>3. x - 1 \in 1..Len(glob) /\ x - 1 \notin Short
    BY <1>1, <2>2
  <2> QED BY <1>1, <1>2, <2>2, <2>3
<1> QED BY <1>1, <1>3

\* What is left of a cut once its first piece is taken away cuts what is left of the path.
LEMMA CutFirst ==
    ASSUME NEW glob \in Segments, NEW path \in Segments, glob # <<>>,
           NEW cut \in [0..Len(glob) -> 0..Len(path)], IsCut(glob, path, cut)
    PROVE  /\ cut[1] \in 0..Len(path) /\ Piece(Head(glob), path, 0, cut[1])
           /\ CanCut(Tail(glob), Rest(path, cut[1]))
<1> DEFINE n == Len(glob)
           k == cut[1]
           path2 == Rest(path, k)
           cut2 == [i \in 0..n - 1 |-> cut[i + 1] - k]
<1>1. /\ n \in Nat \ {0} /\ Len(path) \in Nat /\ Tail(glob) \in Segments /\ Len(Tail(glob)) = n - 1
      /\ Head(glob) = glob[1] /\ \A i \in 1..n - 1 : Tail(glob)[i] = glob[i + 1]
  BY TailProperties, LenAndEmpty
<1>2. k \in 0..Len(path) /\ \A i \in 0..n : cut[i] \in 0..Len(path)
  BY <1>1
<1>3. /\ path2 \in Segments /\ Len(path2) = Len(path) - k
      /\ \A i \in 1..Len(path) - k : path2[i] = path[i + k]
  BY <1>2, RestProperties
<1>4. \A i \in 1..n : k <= cut[i]
  BY CutForward
<1>5. cut2 \in [0..Len(Tail(glob)) -> 0..Len(path2)]
  <2>1. \A i \in 0..n - 1 : cut[i + 1] - k \in 0..Len(path) - k
    BY <1>1, <1>2, <1>4
  <2> QED BY <1>1, <1>3, <2>1
<1>6. cut2[0] = 0 /\ cut2[n - 1] = Len(path2)
  BY <1>1, <1>2, <1>3 DEF IsCut
<1>7. ASSUME NEW i \in 1..n - 1 PROVE Piece(Tail(glob)[i], path2, cut2[i - 1], cut2[i])
  <2>1. i + 1 \in 1..n /\ Piece(glob[i + 1], path, cut[i], cut[i + 1])
    BY <1>1 DEF IsCut
  <2>2. cut2[i - 1] = cut[i] - k /\ cut2[i] = cut[i + 1] - k /\ Tail(glob)[i] = glob[i + 1]
    BY <1>1
  <2>3. cut[i] \in Nat /\ cut[i + 1] \in 0..Len(path) /\ k <= cut[i] /\ k \in Nat
    BY <1>1, <1>2, <1>4
  <2>4. CASE glob[i + 1] = "**"
    BY <2>1, <2>2, <2>3, <2>4 DEF Piece
  <2>5. CASE glob[i + 1] # "**"
    <3>1. cut[i + 1] = cut[i] + 1 /\ filepathMatch(glob[i + 1], path[cut[i + 1]])
      BY <2>1, <2>5 DEF Piece
    <3>2. cut[i + 1] - k \in 1..Len(path) - k
      BY <1>1, <2>3, <3>1
    <3>3. path2[cut[i + 1] - k] = path[cut[i + 1]]
      <4>1. path2[cut[i + 1] - k] = path[(cut[i + 1] - k) + k]
        BY <1>3, <3>2
      <4> QED BY <2>3, <4>1
    <3> QED BY <2>2, <2>3, <2>5, <3>1, <3>3 DEF Piece
  <2> QED BY <2>4, <2>5
<1>8. Piece(Head(glob), path, 0, k)
  <2>1. 1 \in 1..n
    BY <1>1
  <2>2. Piece(glob[1], path, cut[1 - 1], cut[1])
    BY <2>1 DEF IsCut
  <2> QED BY <1>1, <2>2 DEF IsCut
<1> HIDE DEF cut2, path2
<1> QED BY <1>1, <1>2, <1>5, <1>6, <1>7, <1>8 DEF CanCut, IsCut, path2

\* And a piece put before a cut gives a cut.
LEMMA CutMore ==
    ASSUME NEW glob \in Segments, NEW path \in Segments, glob # <<>>, NEW k \in 0..Len(path),
           Piece(Head(glob), path, 0, k), CanCut(Tail(glob), Rest(path, k))
    PROVE  CanCut(glob, path)
<1> DEFINE n == Len(glob)
           path2 == Rest(path, k)
<1>1. /\ n \in Nat \ {0} /\ Len(path) \in Nat /\ Tail(glob) \in Segments /\ Len(Tail(glob)) = n - 1
      /\ Head(glob) = glob[1] /\ \A i \in 1..n - 1 : Tail(glob)[i] = glob[i + 1]
  BY TailProperties, LenAndEmpty
<1>2. /\ path2 \in Segments /\ Len(path2) = Len(path) - k
      /\ \A i \in 1..Len(path) - k : path2[i] = path[i + k]
  BY RestProperties
<1>3. PICK cut2 \in [0..n - 1 -> 0..Len(path) - k] : IsCut(Tail(glob), path2, cut2)
  BY <1>1, <1>2 DEF CanCut
<1> DEFINE cut == [i \in 0..n |-> IF i = 0 THEN 0 ELSE cut2[i - 1] + k]
<1>4. /\ cut2[0] = 0 /\ cut2[n - 1] = Len(path) - k
      /\ \A i \in 1..n - 1 : Piece(Tail(glob)[i], path2, cut2[i - 1], cut2[i])
      /\ \A i \in 0..n - 1 : cut2[i] \in 0..Len(path) - k
  BY <1>1, <1>2, <1>3 DEF IsCut
<1>5. cut \in [0..n -> 0..Len(path)]
  <2>1. \A i \in 1..n : i - 1 \in 0..n - 1
    BY <1>1
  <2>2. \A i \in 1..n : cut2[i - 1] + k \in 0..Len(path)
    BY <1>1, <1>4, <2>1
  <2> QED BY <1>1, <2>2
<1>6. cut[0] = 0 /\ cut[1] = k /\ cut[n] = Len(path)
  BY <1>1, <1>4
<1>7. ASSUME NEW i \in 1..n PROVE Piece(glob[i], path, cut[i - 1], cut[i])
  <2>1. CASE i = 1
    BY <1>1, <1>6, <2>1
  <2>2. CASE i # 1
    <3> DEFINE j == i - 1
    <3>1. /\ j \in 1..n - 1 /\ i = j + 1 /\ glob[i] = Tail(glob)[j]
          /\ cut[j] = cut2[j - 1] + k /\ cut[i] = cut2[j] + k
      BY <1>1, <2>2
    <3>2. Piece(Tail(glob)[j], path2, cut2[j - 1], cut2[j])
      BY <1>4, <3>1
    <3>3. cut2[j - 1] \in Nat /\ cut2[j] \in 0..Len(path) - k
      <4>1. j - 1 \in 0..n - 1 /\ j \in 0..n - 1
        BY <1>1, <3>1
      <4> QED BY <1>1, <1>4, <4>1
    <3> HIDE DEF j, cut
    <3>4. CASE glob[i] = "**"
      BY <1>1, <3>1, <3>2, <3>3, <3>4 DEF Piece
    <3>5. CASE glob[i] # "**"
      <4>1. cut2[j] = cut2[j - 1] + 1 /\ filepathMatch(glob[i], path2[cut2[j]])
        BY <3>1, <3>2, <3>5 DEF Piece
      <4>2. path2[cut2[j]] = path[cut2[j] + k]
        <5>1. cut2[j] \in 1..Len(path) - k
          BY <1>1, <3>3, <4>1
        <5> HIDE DEF path2
        <5> QED BY <1>2, <5>1
      <4> QED BY <1>1, <3>1, <3>3, <3>5, <4>1, <4>2 DEF Piece
    <3>6. cut[j] = cut[i - 1]
      BY DEF j
    <3> QED BY <3>4, <3>5, <3>6
  <2> QED BY <2>1, <2>2
<1> HIDE DEF cut
<1> QED BY <1>5, <1>6, <1>7 DEF CanCut, IsCut

LEMMA CutOfNothing ==
    ASSUME NEW path \in Segments PROVE CanCut(<<>>, path) <=> path = <<>>
<1>1. Len(<<>>) = 0 /\ <<>> \in Segments
  BY EmptySeq DEF Segments
<1>2. ASSUME CanCut(<<>>, path) PROVE path = <<>>
  BY <1>1, <1>2, LenAndEmpty DEF CanCut, IsCut
<1>3. ASSUME path = <<>> PROVE CanCut(<<>>, path)
  <2> DEFINE cut == [i \in 0..0 |-> 0]
  <2>1. cut \in [0..0 -> 0..0] /\ cut[0] = 0
    OBVIOUS
  <2> HIDE DEF cut
  <2> QED BY <1>1, <1>3, <2>1 DEF CanCut, IsCut
<1> QED BY <1>2, <1>3

\* The recursive definition: one unfolding of it, with f for what it calls.
Step(f, glob, path) ==
    IF glob = <<>> THEN path = <<>>
    ELSE IF Head(glob) = "**"
    THEN \/ Len(glob) = 1
         \/ StarStar(path, [i \in 0..Len(path) |-> f[Tail(glob)][SubSeq(path, i + 1, Len(path))]])
    ELSE /\ path # <<>>
         /\ filepathMatch(Head(glob), Head(path))
         /\ f[Tail(glob)][Tail(path)]

Unfolded(f) == [glob \in Seq(STRING) |-> [path \in Seq(STRING) |-> Step(f, glob, path)]]


Cuts == [glob \in Seq(STRING) |-> [path \in Seq(STRING) |-> CanCut(glob, path)]]

\* The reference definition satisfies the recursive equation.
LEMMA CutsUnfold ==
    ASSUME NEW glob \in Segments, NEW path \in Segments
    PROVE  CanCut(glob, path) = Step(Cuts, glob, path)
<1>0. \A g, p \in Segments : Cuts[g][p] = CanCut(g, p)
  BY DEF Cuts, Segments
<1> HIDE DEF Cuts
<1>1. CASE glob = <<>>
  <2>1. CanCut(<<>>, path) = (path = <<>>)
    BY CutOfNothing DEF CanCut
  <2> QED BY <1>1, <2>1, Zenon DEF Step
<1>2. CASE glob # <<>>
  <2>1. /\ Tail(glob) \in Segments /\ Len(path) \in Nat
        /\ Len(glob) \in Nat \ {0} /\ Len(Tail(glob)) = Len(glob) - 1
    BY <1>2, TailProperties, LenAndEmpty
  <2>2. CanCut(glob, path) <=>
           \E k \in 0..Len(path) : Piece(Head(glob), path, 0, k) /\ CanCut(Tail(glob), Rest(path, k))
    BY <1>2, CutFirst, CutMore DEF CanCut
  <2>3. \A k \in 0..Len(path) : Cuts[Tail(glob)][Rest(path, k)] = CanCut(Tail(glob), Rest(path, k))
    BY <1>0, <2>1, RestProperties
  <2>4. CASE Head(glob) = "**"
    <3> DEFINE rests == [i \in 0..Len(path) |-> Cuts[Tail(glob)][SubSeq(path, i + 1, Len(path))]]
    <3>1. \A k \in 0..Len(path) : Piece(Head(glob), path, 0, k)
      BY <2>4 DEF Piece
    <3>2. \A k \in 0..Len(path) : rests[k] = CanCut(Tail(glob), Rest(path, k))
      BY <2>3 DEF Rest
    <3>3. CanCut(glob, path) <=> StarStar(path, rests)
      BY <2>2, <3>1, <3>2 DEF StarStar
    <3>4. ASSUME Len(glob) = 1 PROVE CanCut(glob, path)
      <4>1. Tail(glob) = <<>>
        <5>1. Tail(glob) \in Segments /\ Len(Tail(glob)) = 0
          BY <2>1, <3>4
        <5> QED BY <5>1, LenAndEmpty
      <4>2. Rest(path, Len(path)) = <<>>
        <5>1. Rest(path, Len(path)) \in Segments /\ Len(Rest(path, Len(path))) = 0
          BY <2>1, RestProperties
        <5> QED BY <5>1, LenAndEmpty
      <4>3. <<>> \in Segments
        BY EmptySeq DEF Segments
      <4>4. CanCut(Tail(glob), Rest(path, Len(path)))
        <5>1. CanCut(<<>>, <<>>)
          BY <4>3, CutOfNothing
        <5> QED BY <4>1, <4>2, <5>1
      <4>5. Len(path) \in 0..Len(path)
        BY <2>1
      <4> QED BY <2>2, <3>1, <4>4, <4>5
    <3> HIDE DEF rests
    <3>5. Step(Cuts, glob, path) <=> Len(glob) = 1 \/ StarStar(path, rests)
      BY <1>2, <2>4 DEF Step, rests
    <3>6. Step(Cuts, glob, path) \in BOOLEAN
      BY <1>2, <2>4 DEF Step
    <3> QED BY <3>3, <3>4, <3>5, <3>6 DEF CanCut
  <2>5. CASE Head(glob) # "**"
    <3>1. \A k \in 0..Len(path) :
             Piece(Head(glob), path, 0, k) <=> k = 1 /\ filepathMatch(Head(glob), path[1])
      BY <2>5 DEF Piece
    <3>2. CanCut(glob, path) <=> /\ 1 \in 0..Len(path) /\ filepathMatch(Head(glob), path[1])
                                 /\ CanCut(Tail(glob), Rest(path, 1))
      BY <2>2, <3>1
    <3>3. 1 \in 0..Len(path) <=> path # <<>>
      BY LenAndEmpty
    <3>4. ASSUME path # <<>>
          PROVE  /\ Head(path) = path[1] /\ Tail(path) = Rest(path, 1)
                 /\ Cuts[Tail(glob)][Tail(path)] = CanCut(Tail(glob), Tail(path))
      BY <1>0, <2>1, <3>4, TailProperties
    <3>5. CanCut(glob, path) <=> /\ path # <<>> /\ filepathMatch(Head(glob), Head(path))
                                 /\ CanCut(Tail(glob), Tail(path))
      BY <3>2, <3>3, <3>4
    <3>6. Step(Cuts, glob, path) <=> /\ path # <<>> /\ filepathMatch(Head(glob), Head(path))
                                     /\ CanCut(Tail(glob), Tail(path))
      BY <1>2, <2>5, <3>4, Zenon DEF Step
    <3>7. Step(Cuts, glob, path) \in BOOLEAN
      BY <1>2, <2>5, Zenon DEF Step
    <3> QED BY <3>5, <3>6, <3>7 DEF CanCut
  <2> QED BY <2>4, <2>5
<1> QED BY <1>1, <1>2

LEMMA SameStep ==
    ASSUME NEW f, NEW h, NEW glob \in Segments, NEW path \in Segments,
           glob # <<>> => \A p \in Segments : f[Tail(glob)][p] = h[Tail(glob)][p]
    PROVE  Step(f, glob, path) = Step(h, glob, path)
<1>1. CASE glob = <<>>
  BY <1>1 DEF Step
<1>2. CASE glob # <<>>
  <2>1. \A i \in 0..Len(path) : SubSeq(path, i + 1, Len(path)) \in Segments
    BY RestProperties DEF Rest
  <2>2. [i \in 0..Len(path) |-> f[Tail(glob)][SubSeq(path, i + 1, Len(path))]]
           = [i \in 0..Len(path) |-> h[Tail(glob)][SubSeq(path, i + 1, Len(path))]]
    BY <1>2, <2>1
  <2>3. path # <<>> => f[Tail(glob)][Tail(path)] = h[Tail(glob)][Tail(path)]
    BY <1>2, TailProperties
  <2> QED BY <1>2, <2>2, <2>3, Zenon DEF Step
<1> QED BY <1>1, <1>2

\* Nothing else does: of two solutions that differ, take a shortest glob they differ on.
LEMMA OneSolution ==
    ASSUME NEW f, NEW h, f = Unfolded(f), h = Unfolded(h)
    PROVE  f = h
<1> DEFINE Differs(glob) == \E path \in Segments : f[glob][path] # h[glob][path]
           Lengths == {n \in Nat : \E glob \in Segments : Len(glob) = n /\ Differs(glob)}
<1>1. \A glob, path \in Segments :
         f[glob][path] = Step(f, glob, path) /\ h[glob][path] = Step(h, glob, path)
  <2>1. \A g : \A glob, path \in Segments : Unfolded(g)[glob][path] = Step(g, glob, path)
    BY DEF Unfolded, Segments
  <2> QED BY <2>1, Zenon
<1>2. ASSUME NEW glob \in Segments, Differs(glob) PROVE FALSE
  <2>1. Len(glob) \in Lengths
    BY <1>2, LenAndEmpty
  <2>2. PICK n \in Lengths : \A m \in Lengths : n <= m
    BY <2>1, LeastOf
  <2>3. PICK least \in Segments : Len(least) = n /\ Differs(least)
    BY <2>2
  <2>4. ASSUME least # <<>>, NEW p \in Segments PROVE f[Tail(least)][p] = h[Tail(least)][p]
    <3>1. Tail(least) \in Segments /\ Len(Tail(least)) \in Nat /\ Len(Tail(least)) < n
      BY <2>3, <2>4, TailProperties
    <3>2. ASSUME f[Tail(least)][p] # h[Tail(least)][p] PROVE FALSE
      <4>1. Differs(Tail(least))
        BY <3>1, <3>2
      <4>2. Len(Tail(least)) \in Lengths
        BY <3>1, <4>1
      <4>3. n \in Nat
        OBVIOUS
      <4> HIDE DEF Lengths
      <4>4. n <= Len(Tail(least))
        BY <2>2, <4>2
      <4> QED BY <3>1, <4>3, <4>4
    <3> QED BY <3>2
  <2>5. \A p \in Segments : Step(f, least, p) = Step(h, least, p)
    <3>1. least # <<>> => \A p \in Segments : f[Tail(least)][p] = h[Tail(least)][p]
      BY <2>4
    <3> HIDE DEF Lengths
    <3>2. ASSUME NEW p \in Segments PROVE Step(f, least, p) = Step(h, least, p)
      BY <3>1, SameStep
    <3> QED BY <3>2
  <2> QED BY <1>1, <2>3, <2>5
<1>3. \A glob \in Segments :
         [path \in Segments |-> Step(f, glob, path)] = [path \in Segments |-> Step(h, glob, path)]
  BY <1>1, <1>2
<1>4. Unfolded(f) = Unfolded(h)
  BY <1>3, Zenon DEF Unfolded, Segments
<1> QED BY <1>4

\* So the recursive function is the reference definition, for every glob and every path.
LEMMA MatchSegmentsCuts ==
    ASSUME NEW glob \in Segments, NEW path \in Segments
    PROVE  matchSegments[glob][path] = CanCut(glob, path)
<1>1. Cuts = Unfolded(Cuts)
  <2>1. \A g \in Segments : [p \in Segments |-> CanCut(g, p)] = [p \in Segments |-> Step(Cuts, g, p)]
    BY CutsUnfold
  <2>2. [g \in Segments |-> [p \in Segments |-> CanCut(g, p)]]
           = [g \in Segments |-> [p \in Segments |-> Step(Cuts, g, p)]]
    BY <2>1, Zenon
  <2> QED BY <2>2, Zenon DEF Unfolded, Segments, Cuts
<1>2. matchSegments = CHOOSE f : f = Unfolded(f)
  BY DEF matchSegments, Unfolded, Step
<1>3. matchSegments = Unfolded(matchSegments)
  <2> HIDE DEF Unfolded
  <2> QED BY <1>1, <1>2
<1>4. matchSegments = Cuts
  BY <1>1, <1>3, OneSolution
<1> QED BY <1>4 DEF Cuts, Segments

Unrooted(glob) == IF glob # <<>> /\ Head(glob) = "" THEN Tail(glob) ELSE glob

LEMMA MatchGlobSelects ==
    ASSUME NEW glob \in Segments, NEW path \in Segments
    PROVE  matchGlob(glob, path) <=> Selects(glob, path)
<1>1. Unrooted(glob) \in Segments
  BY TailProperties DEF Unrooted
<1>2. matchGlob(glob, path) = matchSegments[Unrooted(glob)][path]
  BY Zenon DEF matchGlob, Unrooted
<1>3. Selects(glob, path) <=> CanCut(Unrooted(glob), path)
  BY DEF Selects, CanCut, IsCut, Piece, Unrooted
<1> QED BY <1>1, <1>2, <1>3, MatchSegmentsCuts

\* For any globs and paths, of any length: what a loaded config protects is what its globs
\* select by the definition that cuts the path in pieces, and never more or less for where
\* a "**" stands (config.go: matchGlob, matchSegments, Matches).
THEOREM GlobsSelectExactly == Spec => []GlobsSelect
<1>1. ASSUME TypeOK, Load(global) # Unset, NEW p \in Files
      PROVE  Protects(Load(global), p) <=>
                /\ \E glob \in Load(global).patterns : Selects(glob, p)
                /\ \A glob \in Load(global).exclude : ~Selects(glob, p)
  <2>1. Load(global).patterns \subseteq Globs /\ Load(global).exclude \subseteq Globs
    BY <1>1, LoadTyped, ContentFields DEF TypeOK
  <2>2. \A glob \in Globs : matchGlob(glob, p) <=> Selects(glob, p)
    BY ConstantsAssumption, MatchGlobSelects DEF Segments
  <2>3. Protects(Load(global), p) <=>
           /\ \E glob \in Load(global).patterns : matchGlob(glob, p)
           /\ ~ \E glob \in Load(global).exclude : matchGlob(glob, p)
    BY <1>1 DEF Protects, Matches
  <2> QED BY <2>1, <2>2, <2>3
<1>2. TypeOK => GlobsSelect
  BY <1>1 DEF GlobsSelect
<1> QED BY <1>2, ConfigTypes, PTL

=============================================================================
