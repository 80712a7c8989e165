SPECIFICATION Spec
CONSTANTS
  s1 = s1
  s2 = s2
  c1 = c1
  c2 = c2
  Student <- TwoStudents
  RunId = run
  Request = {r1, r2, r3}
  AtOnce = 2
  Value = {"A"}
  RunLog <- OneLog
SYMMETRY AnyRequest
INVARIANT EditsReplace
