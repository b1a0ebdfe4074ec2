SPECIFICATION Spec
CONSTANTS
  s1 = s1
  s2 = s2
  Sessions = {s1, s2}
  Names = {"good", "bad"}
  IPs = {"1", "10", "66"}
  AllowLines <- MCAllow
  BlockLines <- MCBlock
  AllowIPLines <- MCAllowIP
  BlockIPLines <- MCBlockIP
  Schedules <- MCNight
  Days = 2
  Minutes = 3
  AliasesLimit = 8
  None = None
  Answers <- MCAnswers
SYMMETRY MCSymmetry
INVARIANTS BlockedNeverServed BlockedNowNotServed
