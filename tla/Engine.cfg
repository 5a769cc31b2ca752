SPECIFICATION FairSpec
CONSTANTS
  Workers = {w1, w2}
  Writers = {v1, v2}
  n1 = n1
  raw = raw
  plain = plain
  Names <- MCNames
  NoName = NoName
  Inputs <- MCInputs
  NoInput = NoInput
  Decode <- MCDecode
  Fires <- MCFires
  MaxVersion = 2
INVARIANTS EngineInvariant NothingSlipsBy
PROPERTIES EveryCallReturns
