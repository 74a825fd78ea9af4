------------------------------ MODULE RepoConfig ------------------------------
(***************************************************************************)
(* internal/config: which files a repository protects and where its key    *)
(* is, as said by the committed config file, under its current name or the *)
(* one before the rename, and by the machine's global one; the globs; and  *)
(* the commands that write the committed file back (init, adduser,         *)
(* removeuser, rotate-keys), which save what they loaded, merged.          *)
(*                                                                         *)
(* A path and a glob are sequences of segments; a glob that begins with    *)
(* "/" begins with the segment "".  A save is one step, and none when it   *)
(* fails.  The key, its wrapping and the files are KeyRotation's.          *)
(***************************************************************************)
EXTENDS Naturals, Sequences, FiniteSets

CONSTANTS
    Files,       \* repo-relative paths
    Globs,
    Fprs,        \* full fingerprints
    Ids,         \* repo ids
    RepoConfigs, \* what users write into the committed file
    Globals,     \* what they write into the global one
    Unset,       \* a field that is not there; no file
    MaxEdits     \* bound: changes made by users

\* keySourceFor, of the two directories.
KeySources == {".keyfold/key", ".keyfold/key.gpg", ".repo-enc/key", ".repo-enc/key.gpg"}

Contents == [patterns : SUBSET Globs, exclude : SUBSET Globs,
             backend : {"file", "gpg", Unset}, key_source : KeySources \cup {Unset},
             repo_id : Ids \cup {Unset}, recipients : SUBSET Fprs]

ASSUME ConstantsAssumption ==
    /\ RepoConfigs \subseteq Contents /\ Globals \subseteq Contents
    /\ Unset \notin Contents \cup Ids \cup KeySources \cup {"file", "gpg"}
    /\ \A glob \in Globs : glob \in Seq(STRING)
    /\ \A p \in Files : p \in Seq(STRING)
    /\ MaxEdits \in Nat

VARIABLES
    current,  \* .keyfold.yml
    legacy,   \* .repo-enc.yml
    global,   \* the machine's config.yml
    keys,     \* key_sources at which there is a key
    edits

vars == <<current, legacy, global, keys, edits>>

TypeOK ==
    /\ current \in Contents \cup {Unset}
    /\ legacy \in Contents \cup {Unset}
    /\ global \in Contents \cup {Unset}
    /\ keys \subseteq KeySources
    /\ edits \in 0..MaxEdits
    /\ edits = 0 => current = Unset \/ legacy = Unset

-----------------------------------------------------------------------------
(* Globs. *)

\* filepath.Match, of one segment.
filepathMatch(glob, segment) == glob = "*" \/ glob = segment

\* Mutant of StarStar: it stands for one segment at least.
StarStarPlus(path, matches) == \E i \in 1..Len(path) : matches[i]

\* "**" stands for any number of segments; matches says what comes after it does of the
\* path without its first i.
StarStar(path, matches) == \E i \in 0..Len(path) : matches[i]

matchSegments[glob \in Seq(STRING)] ==
    [path \in Seq(STRING) |->
        IF glob = <<>> THEN path = <<>>
        ELSE IF Head(glob) = "**"
        THEN \/ Len(glob) = 1
             \/ StarStar(path, [i \in 0..Len(path) |->
                                    matchSegments[Tail(glob)][SubSeq(path, i + 1, Len(path))]])
        ELSE /\ path # <<>>
             /\ filepathMatch(Head(glob), Head(path))
             /\ matchSegments[Tail(glob)][Tail(path)]]

matchGlob(glob, path) ==
    matchSegments[IF glob # <<>> /\ Head(glob) = "" THEN Tail(glob) ELSE glob][path]

Matches(config, p) ==
    /\ \E glob \in config.patterns : matchGlob(glob, p)
    /\ ~ \E glob \in config.exclude : matchGlob(glob, p)

-----------------------------------------------------------------------------
(* Load and Save. *)

NoContent == [patterns |-> {}, exclude |-> {}, backend |-> Unset, key_source |-> Unset,
              repo_id |-> Unset, recipients |-> {}]

\* An older repository has its keys in another directory.
defaults(isLegacy) ==
    [NoContent EXCEPT !.backend = "file",
                      !.key_source = IF isLegacy THEN ".repo-enc/key" ELSE ".keyfold/key"]

Overlaid(base, overlay) == IF overlay = Unset THEN base ELSE overlay

\* exclude is none of it.
mergeInto(base, overlay) ==
    [base EXCEPT !.backend = Overlaid(@, overlay.backend),
                 !.key_source = Overlaid(@, overlay.key_source),
                 !.repo_id = Overlaid(@, overlay.repo_id),
                 !.patterns = @ \cup overlay.patterns,
                 !.recipients = @ \cup overlay.recipients]

\* Mutant of Excluded: the global exclude is merged like the other lists.
ExcludedByBoth(repo, machine) == repo.exclude \cup machine.exclude

\* exclude is the repository's alone.
Excluded(repo, machine) == repo.exclude

\* Mutant of MergeGlobalFor: the machine's layer goes over the repository's.
MergeGlobalOver(isLegacy, repo, machine) ==
    LET layer == IF machine = Unset THEN NoContent ELSE machine
    IN [mergeInto(mergeInto(defaults(isLegacy), repo), layer) EXCEPT
           !.exclude = Excluded(repo, layer)]

MergeGlobalFor(isLegacy, repo, machine) ==
    LET layer == IF machine = Unset THEN NoContent ELSE machine
    IN [mergeInto(mergeInto(defaults(isLegacy), layer), repo) EXCEPT
           !.exclude = Excluded(repo, layer)]

Validate(config) ==
    config.patterns # {} /\ (config.backend = "gpg" => config.recipients # {})

\* Path, and Load of what is there: Unset when there is no config, there are two, or
\* it is not valid.
IsLegacy == legacy # Unset
Repo == IF IsLegacy THEN legacy ELSE current
Load(machine) ==
    IF (current = Unset) = (legacy = Unset) THEN Unset
    ELSE LET config == MergeGlobalFor(IsLegacy, Repo, machine)
         IN IF Validate(config) THEN config ELSE Unset

\* Mutant of Save: to the current name, whatever there is.
SaveCurrent(config) == current' = config /\ UNCHANGED legacy

\* To the file that Path names.
Save(config) ==
    IF IsLegacy THEN legacy' = config /\ UNCHANGED current
                ELSE current' = config /\ UNCHANGED legacy

-----------------------------------------------------------------------------
(* The commands. *)

\* WriteDefault, WriteConfig: unless there is a config.
WriteConfig(patterns, backend, recipients, id) ==
    [NoContent EXCEPT !.patterns = patterns, !.backend = backend, !.recipients = recipients,
                      !.repo_id = id,
                      !.key_source = IF backend = "gpg" THEN ".keyfold/key.gpg" ELSE ".keyfold/key"]

\* init where there is no config yet; the first of two saves is all that is left when
\* the merged one is not valid.
InitNew(patterns, backend, recipients, id) ==
    LET written == WriteConfig(patterns, backend, recipients, id)
        merged == MergeGlobalFor(FALSE, written, global)
        generate == Validate(merged) /\ merged.key_source \notin keys
    IN /\ current = Unset /\ legacy = Unset
       /\ backend = "file" => recipients = {}
       /\ current' = IF generate /\ merged.backend = "gpg" THEN merged ELSE written
       /\ keys' = IF generate THEN keys \cup {merged.key_source} ELSE keys
       /\ UNCHANGED <<legacy, global, edits>>

\* init in a repository that has a config: at most the key is new.
InitAgain ==
    LET config == Load(global)
    IN /\ config # Unset /\ config.key_source \notin keys
       /\ IF config.backend = "gpg" THEN Save(config) ELSE UNCHANGED <<current, legacy>>
       /\ keys' = keys \cup {config.key_source}
       /\ UNCHANGED <<global, edits>>

\* adduser, removeuser and rotate-keys, which need the key and save what they loaded
\* with another list of recipients, or the same.
Granting(recipients) ==
    LET config == Load(global)
    IN /\ config # Unset /\ config.backend = "gpg" /\ config.key_source \in keys
       /\ recipients # {}
       /\ \E f \in Fprs : recipients \in {config.recipients \cup {f}, config.recipients \ {f}}
       /\ Save([config EXCEPT !.recipients = recipients])
       /\ UNCHANGED <<global, keys, edits>>

-----------------------------------------------------------------------------
(* The users. *)

Edit == edits < MaxEdits /\ edits' = edits + 1

EditConfig(config) ==
    /\ Edit
    /\ \/ current \notin {Unset, config} /\ current' = config /\ UNCHANGED legacy
       \/ legacy \notin {Unset, config} /\ legacy' = config /\ UNCHANGED current
    /\ UNCHANGED <<global, keys>>

EditGlobal(config) ==
    /\ Edit
    /\ global # config /\ global' = config
    /\ UNCHANGED <<current, legacy, keys>>

\* git mv .repo-enc.yml .keyfold.yml, or a copy, which leaves both.
Rename(copy) ==
    /\ Edit
    /\ legacy # Unset /\ current = Unset
    /\ current' = legacy /\ legacy' = IF copy THEN legacy ELSE Unset
    /\ UNCHANGED <<global, keys>>

\* A new repository, or one that is older, with its key.
Init ==
    /\ current = Unset
    /\ legacy \in RepoConfigs \cup {Unset}
    /\ global \in Globals \cup {Unset}
    /\ keys = IF Load(global) = Unset THEN {} ELSE {Load(global).key_source}
    /\ edits = 0

Commands ==
    \/ \E glob \in Globs, backend \in {"file", "gpg"}, recipients \in SUBSET Fprs, id \in Ids :
          InitNew({glob}, backend, recipients, id)
    \/ InitAgain
    \/ \E recipients \in SUBSET Fprs : Granting(recipients)

Users ==
    \/ \E config \in RepoConfigs : EditConfig(config)
    \/ \E config \in Globals \cup {Unset} : EditGlobal(config)
    \/ \E copy \in BOOLEAN : Rename(copy)

Next == Commands \/ Users

Spec == Init /\ [][Next]_vars

-----------------------------------------------------------------------------
(* Properties. *)

Protects(config, p) == config # Unset /\ Matches(config, p)

\* What a glob means, without the recursion of matchSegments: the path can be cut so
\* that every "**" gets a piece of any length and every other segment one that it
\* matches (git-keyfold.md:86).
Selects(glob, path) ==
    LET segments == IF glob # <<>> /\ Head(glob) = "" THEN Tail(glob) ELSE glob
        n == Len(segments)
    IN \E cut \in [0..n -> 0..Len(path)] :
          /\ cut[0] = 0 /\ cut[n] = Len(path)
          /\ \A i \in 1..n : IF segments[i] = "**" THEN cut[i] >= cut[i - 1]
                             ELSE /\ cut[i] = cut[i - 1] + 1
                                  /\ filepathMatch(segments[i], path[cut[i]])

\* What a loaded config protects is what its globs select: no "**" at an end, at the
\* start or twice in a row, and no leading "/", makes a file fall through.
GlobsSelect ==
    LET config == Load(global)
    IN config # Unset => \A p \in Files :
          Protects(config, p) <=> /\ \E glob \in config.patterns : Selects(glob, p)
                                  /\ \A glob \in config.exclude : ~Selects(glob, p)

\* Whatever a machine's global config says, and whichever commands have saved what it
\* was merged into: the repository's own config loses none of its files to it, unless
\* nothing can be loaded at all (config.go:234-246).
GlobalOnlyProtectsMore ==
    Load(global) # Unset => \A p \in Files : Protects(Load(Unset), p) => Protects(Load(global), p)

\* A command that saves the config leaves all but the recipients as it was loaded on
\* this machine.
KeptHere ==
    Load(global) # Unset =>
        /\ Load(global)' # Unset
        /\ Load(global)' = [Load(global) EXCEPT !.recipients = Load(global)'.recipients]

\* On a machine with another global config, or with none, it takes no file out of
\* protection, and changes no more than what the repository's own file left open.
KeptElsewhere(machine) ==
    Load(machine) # Unset =>
        /\ Load(machine)' # Unset
        /\ \A p \in Files : Protects(Load(machine), p) => Protects(Load(machine), p)'
        /\ \A field \in {"backend", "key_source", "repo_id"} :
              Repo[field] # Unset => Load(machine)'[field] = Load(machine)[field]

\* A save writes back what was loaded, merged, and every clone gets it: whatever this
\* machine's global config says, no machine loses a file's protection, the id that its
\* envelopes are bound to or the place of its key, as far as the repository's own file
\* said them, and this one loses nothing (config.go:234-246, 274).
CommandsKeepPolicy ==
    [][ edits' = edits => /\ KeptHere
                          /\ \A machine \in Globals \cup {Unset} : KeptElsewhere(machine) ]_vars

-----------------------------------------------------------------------------
(* What the repository says of the program and the code does not do. *)

\* "a global override never contributes a repo id" (config.go:299): mergeInto takes any,
\* and the next save commits it.
GlobalIdStaysHome ==
    Load(Unset) # Unset /\ Load(global) # Unset => Load(global).repo_id = Load(Unset).repo_id

=============================================================================
