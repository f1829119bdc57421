SPECIFICATION FairSpec
CONSTANTS
    Key = {k1, k2, k3}
    Login = {l1, l2}
    Ttl = 2
PROPERTIES
    OnlyWithdrawnKeysAreRefused
    WithdrawnKeysAgeOut
