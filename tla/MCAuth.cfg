SPECIFICATION Spec
CONSTANTS
    Requests = {r1, r2, r3}
    Kids = {k1}
    Forged = forged
    Identities = {ann, ann2, bob}
    Nobody = nobody
    Addresses = {shared, own}
    Email <- MCEmail
    bob = bob
    own = own
    shared = shared
    Dev = dev
    Tokens <- MCTokens
    NoToken = none
    Ttl = 1
    FetchTicks = 1
    LastTick = 3
INVARIANT AccountInv
PROPERTY
    RevokedKeyExpires
SYMMETRY Symmetry
CHECK_DEADLOCK FALSE
