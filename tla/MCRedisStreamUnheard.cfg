SPECIFICATION Spec

CONSTANTS
  c1 = c1
  c2 = c2
  Other = Other
  None = None
  Consumers = {c1, c2}
  id1 = id1  id2 = id2  id3 = id3
  ConsumerIds = {id1, id2, id3}
  IdOf <- ShortNames
  MaxEntries = 2
  BatchSize = 2
  Mail <- MCMail

INVARIANT
  RemovedAfterProcessing

CHECK_DEADLOCK FALSE
