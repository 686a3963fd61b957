CONSTANTS
    load = load
    d1 = d1
    d2 = d2
    p1 = p1
    p2 = p2
    r1 = r1
    r2 = r2
    Callers <- MCCallers
    Principals <- MCPrincipals
    LoadCaller = load
    Realms <- MCRealmsSwitch
    Home <- MCHomeSwitch
    MaxGen <- MCMaxGen
    MaxLogins <- MCMaxLogins
INIT ListInit
NEXT RealmNext
INVARIANT NoHiddenPrincipal
\* The page may sit idle once the table is empty and the token is fresh.
CHECK_DEADLOCK FALSE
