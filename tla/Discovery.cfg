CONSTANTS
    Callers = {t1, t2}
    Preloaders = {t2}
    Refreshers = {r1}
    Issuers = {a, aSlash}
    BadIssuers = {bad}
    Slashed = {aSlash}
    Bare <- MCBare
    Requests <- MCRequests
    Misserved <- MCMisserved
    MaxAsked = 1
    MaxVersion = 2
    MaxFaults = 1
SPECIFICATION Spec
INVARIANTS TypeOK DocumentsTrusted NeverOlder 
PROPERTIES CacheCatchesUp
