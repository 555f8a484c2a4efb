SPECIFICATION Spec
CONSTANTS
  MaxCAs = 3
  MaxKeys = 5
INVARIANTS ChainVerifies DefaultTokensVerify LostOnlyToRelatives InputsBreakTheirRule
CHECK_DEADLOCK FALSE
