SPECIFICATION Spec
CONSTANTS
    f = f
    m = m
    k = k
    t = t
    u = u
    main = main
    topic = topic
    Files = {f}
    KeyFile = k
    Existing = {}
    Texts = {t}
    Branches = {main, topic}
    Main = main
    Configs <- JustFile
    GlobalPatterns = {}
    NoConfig = NoConfig
    None = None
    MaxCommits = 3
    MaxEdits = 2
    MaxSlips = 1
    MaxKeys = 2
    MaxNonces = 2
CHECK_DEADLOCK FALSE
INVARIANT NothingLeaks
INVARIANT KeyStaysHome
