SPECIFICATION MaskSpec
CONSTANTS
  Mask <- MCMask
  UserHost <- MCUserHost
  NoRegexp = NoRegexp
INVARIANT
  MatchIsOr
