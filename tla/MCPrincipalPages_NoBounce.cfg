CONSTANTS
    submit = submit
    detailLoad = detailLoad
    i1 = i1
    i2 = i2
    Callers <- MCCallers
    SubmitCaller = submit
    DetailCaller = detailLoad
    Ids <- MCIds
    MaxGen <- MCMaxGen
    MaxLogins <- MCMaxLogins
SPECIFICATION PagesSpec
INVARIANT NoBounceOfExisting
\* The error page, a page with nothing left to click, or a location no
\* agency route matches (the console's own page-not-found, outside this
\* repository) may sit idle.
CHECK_DEADLOCK FALSE
