SPECIFICATION Spec
CONSTANTS
  Caller = {c1, c2, c3}
  Supporting = {yes}
  Denying = {no}
  Garbled = {junk}
  NoAnswer = NoAnswer
  Torn = Torn
SYMMETRY AnyCaller
INVARIANTS
  RetrySaysTheSame
  EntryIsWhole
  NothingIsInvented
