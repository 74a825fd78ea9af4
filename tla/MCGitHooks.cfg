SPECIFICATION Spec
CONSTANTS
    f = f
    m = m
    k = k
    t = t
    u = u
    main = main
    topic = topic
    Files = {f, m}
    KeyFile = k
    Existing = {}
    Texts = {t}
    Branches = {main}
    Main = main
    Configs <- FileThenBoth
    GlobalPatterns = {}
    NoConfig = NoConfig
    None = None
    MaxCommits = 3
    MaxEdits = 2
    MaxSlips = 1
    MaxKeys = 1
    MaxNonces = 2
CHECK_DEADLOCK FALSE
INVARIANT TypeOK
INVARIANT NothingLeaks
PROPERTY PushedHeadOpens
