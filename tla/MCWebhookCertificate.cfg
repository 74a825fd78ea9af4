\* Rollouts, crashes, conflicts and late Updates.
CONSTANTS
    v = v
    w = w
    Webhooks = {v, w}
    Orderly = TRUE
    MaxStarts = 10
    MaxDisruptions = 4
SPECIFICATION FairSpec
INVARIANTS TypeOK SettledIsTrusted
PROPERTIES NeverAnEarlierCA EventuallyTrusted
CHECK_DEADLOCK FALSE
