SPECIFICATION Spec
CONSTANTS
  Senders = {s1, s2, s3}
  Verifiers = {v1}
  Codes = {c1, c2}
  COOLDOWN = 1
  OTP_EXPIRY = 2
  MAX_ATTEMPTS = 2
  OTP_HASH_EXPIRY = 4
  MaxTime = 5
  NoHash = NoHash
PROPERTY ValidCodeNotReplaced
SYMMETRY MCSymmetry
CHECK_DEADLOCK FALSE
