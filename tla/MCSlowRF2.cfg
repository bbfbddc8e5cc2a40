SPECIFICATION Spec
CONSTANTS
  RCV_BUCKETS = 2
  MaxBits = 3
  MinBits = 2
  SyncMin = 2
  SyncESA = 3
  SyncHMS = 3
  SyncMod = 4
  Protocols <- OneOfEach
  Router = TRUE
  a = a
  b = b
  Telegram <- Telegrams
  NoTelegram = NoTelegram
INVARIANTS TypeOK CountIsUnprocessed QueuedIsComplete SilenceIsWatched
PROPERTIES IsAFifo QueuedIsTaken
