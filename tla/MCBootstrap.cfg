\* A development build: React runs every mount effect twice.  Two page
\* handlers call getAccessToken once the console renders.
CONSTANTS
    c1 = c1
    c2 = c2
    Callers <- MCCallers
    MaxGen = 2
    MaxLogins = 1
    DevMode = TRUE
SPECIFICATION BootSpec
INVARIANT ErrorPageMeansLoginFailed
PROPERTY ConsoleStarts
\* The error page and the console with no handler left to start are final:
\* nothing of start-up follows them.
CHECK_DEADLOCK FALSE
