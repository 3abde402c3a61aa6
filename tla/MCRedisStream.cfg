SPECIFICATION Spec

CONSTANTS
  c1 = c1
  c2 = c2
  Other = Other
  None = None
  Consumers = {c1, c2}
  id1 = id1  id2 = id2  id3 = id3
  ConsumerIds = {id1, id2, id3}
  IdOf <- LongNames
  MaxEntries = 2
  BatchSize = 2
  Mail <- MCMail

INVARIANTS
  TypeOK
  DeliveredOnceInOrder
  NothingForgotten

PROPERTIES
  ImplementsGroupDelivery
  EveryEntrySettled

CHECK_DEADLOCK FALSE
