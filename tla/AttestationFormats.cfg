SPECIFICATION Spec
CONSTANTS
  Sources = {"sgx", "sevsnp", "openenclave", "aci", "other"}
  NumCerts = 3
  PemSize = 3
  DerSize = 2
  ClaimSize = 3
  HeaderSize = 2
  MaxSteps = 7
INVARIANTS TypeOK VerifiesOriginal CacheIsCurrent
CHECK_DEADLOCK FALSE
