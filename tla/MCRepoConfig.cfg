\* Two recipients, six globs, four files, three changes by users.
CONSTANTS
    alice = alice
    bob = bob
    id1 = id1
    id2 = id2
    Unset = Unset
    Files <- MCFiles
    Globs <- MCGlobs
    Fprs = {alice, bob}
    Ids = {id1, id2}
    RepoConfigs <- MCRepoConfigs
    Globals <- MCGlobals
    MaxEdits = 3
SPECIFICATION Spec
INVARIANTS TypeOK GlobsSelect GlobalOnlyProtectsMore
PROPERTIES CommandsKeepPolicy
CHECK_DEADLOCK FALSE
