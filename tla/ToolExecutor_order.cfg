\* Three writes, two of them in the queue, under fair timers with handlers that may
\* hang: in which order do they start, and is each answered?
CONSTANTS
  r1 = r1
  r2 = r2
  w1 = w1
  w2 = w2
  w3 = w3
  noValue = noValue
  None = noValue
  ReadCall = {}
  WriteCall <- ThreeWrites
  ReadConcurrency = 1
  WriteConcurrency = 1
  QueueLimit = 2
  MaxGeneration = 2
SPECIFICATION FairSpec
PROPERTIES
  FirstComeFirstServed
  EveryCallAnswered
