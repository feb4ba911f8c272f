SPECIFICATION EitherSpec
CONSTANTS
    Txs = {t1, t2, t3}
    Ops = {"request_verification", "request_recovery", "verify", "recover", "login", "change", "issue", "sign_out", "end_others", "end_all"}
    Before = Before
    Grantable <- MCGrantable
    DefaultRules <- MCDefaultRules
    Joinable <- MCJoinable
    Taintable <- MCTaintable
    MaxActs = 2
    MaxOids = 7
    MaxOthers = 2
    Workspaces = {w1, w2}
    Unbound = Unbound
    MaxSessions = 3
    MaxEvents = 3
SYMMETRY Symmetry
CONSTRAINT TwoGestures
INVARIANTS SessionsAreCurrent WritersNeverWaitInACircle AdmittedReachNothing NothingIsLeftSilently ScreenTellsTheTruth
PROPERTIES TokensActWhileLive AnAdvanceEndsWhatCameBefore WiringIsExact MigrationsGrantNothing OnlyOursIsDisposed LiveSessionIsKept
CHECK_DEADLOCK FALSE
