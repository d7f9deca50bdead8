SPECIFICATION SdkSpec
CONSTANTS
    Callers = {c1, c2}
    Methods <- MCMethods
    Vault = vault
    NoVault = noVault
    NoExpiry = noExpiry
    Expiries = {noExpiry, soon}
    MaxTime = 2
    MaxCalls = 3
SYMMETRY CallerSymmetry
INVARIANTS
    NonceIsFresh
    SignatureCoversPayload
    NoErrorMeansAccepted
    DecodeRestores
    SignedAsPosted
PROPERTY ImplementsNonceSource
