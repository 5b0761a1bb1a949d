\* A test and its repetition, with every kind of test and server.
SPECIFICATION FairSpec
CONSTANT
  MaxTests = 2
\* After the last test nothing is left to do; TestEnds says that each one ends.
CHECK_DEADLOCK FALSE
INVARIANTS
  AcceptedAccounted
  EncryptedAsAsked
PROPERTY
  TestEnds
