SPECIFICATION Spec
CONSTANTS
  R = R
  A = A
  B = B
  D = D
  M = M
  Out = Out
  X = X
  Y = Y
  N1 = N1
  N2 = N2
  L = L
  None_ = None_
  None = None_
  Dir = {R, A, B, D, M, Out}
  File = {X, Y, N1, N2}
  Link = {L}
  Mount = {M}
  RootDir = R
  Elsewhere = Out
  Name <- Names
  Spot <- Spots
  Tree <- Entries
  Call <- Calls
  MaxCalls = 2
  MaxMoves = 3
PROPERTIES
  OnlyItsOwn
  AtThePath
  ProbeIsOfTheRecorded
CHECK_DEADLOCK FALSE
