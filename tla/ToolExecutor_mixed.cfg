\* Two reads and two writes compete for one place in the shared queue while
\* sessions come and go.
CONSTANTS
  r1 = r1
  r2 = r2
  w1 = w1
  w2 = w2
  w3 = w3
  noValue = noValue
  None = noValue
  ReadCall <- TwoReads
  WriteCall <- TwoWrites
  ReadConcurrency = 1
  WriteConcurrency = 1
  QueueLimit = 1
  MaxGeneration = 2
SPECIFICATION Spec
SYMMETRY MixedSymmetry
INVARIANTS
  LimitsAreExact
  SessionEndRevokes
  WriteErrorsAreHonest
