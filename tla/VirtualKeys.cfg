SPECIFICATION Spec
CONSTANTS
  k1 = k1
  k2 = k2
  k3 = k3
  a1 = a1
  a2 = a2
  old = old
  new = new
  gpt = gpt
  claude = claude
  c1 = c1
  c2 = c2
  s1 = s1
  s2 = s2
  p1 = p1
  p2 = p2
  Failed = Failed
  Unset = Unset
  NoRow = NoRow
  Free = Free
  NoModel = NoModel
  Keep = Keep
  Keys = {k1, k2, k3}
  Calls = {c1, c2}
  Models = {gpt}
  Allowlists <- MCAllowlists
  Rotations <- MCRotations
  Environments <- MCEnvironments
  LegacyKeys = {k1}
  Accounts = {a1, a2}
  Sources = {s1, s2}
  Plaintexts = {p1, p2}
  MaxOverlap = 2
  Forever = 5
  MaxTime = 1
  MaxSealed = 2
ACTION_CONSTRAINT KeysOrAccounts
SYMMETRY Symmetry

    
PROPERTIES
    KeepsKeyValidity
