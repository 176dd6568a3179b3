SPECIFICATION MCSpec
CONSTANTS
  Bytes = {"0", "1", "NUL", "LF"}
  NUL = "NUL"
  LF = "LF"
  Queries <- MCQueries
  Texts <- MCStrings
  Objects <- MCObjects
  Results <- MCResults
  Absent = Absent
  NoArray = NoArray
  Times = {1, 10}
  Decimal <- MCDecimal
  Payloads = {"p1", "p2"}
  Digest <- MCDigest
  Id <- MCId
  MaxSigned = 2
  Tokens <- MCTokens
  DecimalChar <- MCDecimalChar
  HexChar <- MCHexChar
INVARIANTS TypeOK Verifies Binds GossipBinds DecodedOnce
CHECK_DEADLOCK FALSE
