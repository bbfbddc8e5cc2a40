SPECIFICATION Spec
CONSTANTS
  RCV_BUCKETS = 4
  MaxBits = 3
  MinBits = 2
  SyncMin = 2
  SyncESA = 3
  SyncHMS = 3
  SyncMod = 4
  Protocols <- Band868
  Router = TRUE
  a = a
  b = b
  Telegram <- Telegrams
  NoTelegram = NoTelegram
INVARIANT CountIsUnprocessed
