SPECIFICATION Spec
CONSTANTS
    Urls = {h, r}
    Hub = h
    NoUrl = NoUrl
    MaxRedirects = 2
    MaxConnects = 2
    MaxReopens = 2
CHECK_DEADLOCK FALSE
INVARIANTS
    LatestToken
    RequestsBounded
    SameConnection
PROPERTIES
    ServerTokenFinal
