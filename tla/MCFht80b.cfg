SPECIFICATION Spec
CONSTANTS
  FHTBUF_SIZE = 14
  Fht <- Thermostats
  Zentrale <- Paired
  HouseCode = {0, 7}
  Message <- Commands
  Report <- Reports
  Waiting = 1
INVARIANTS TypeOK RepeatsLastSent ConversationIsTimed
PROPERTIES BufferIsQueue DeletedIsDelivered ConversationEnds
VIEW Readable
