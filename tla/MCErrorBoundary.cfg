INIT EBInit
NEXT EBNext
INVARIANT SignOutOnForbidden
\* Once the page has rendered its answer nothing else happens.
CHECK_DEADLOCK FALSE
