CONSTANTS
    load = load
    t1 = t1
    t2 = t2
    Callers <- MCTwoTogglers
    LoadCaller = load
    MaxGen <- MCMaxGen
    MaxLogins <- MCMaxLogins
INIT DashInit
NEXT DashNext
INVARIANT ShownMatchesServer
\* The page may sit idle once the configuration is shown.
CHECK_DEADLOCK FALSE
