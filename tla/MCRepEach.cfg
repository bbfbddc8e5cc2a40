SPECIFICATION BoardSpec
CONSTANTS
  Size = 3
  Byte = {0, 1, 2}
  Nul = 0
  IsrOps <- BoardTxIsr

  sensorA = sensorA
  sensorB = sensorB
  TfNum = 2
  TfSensor = {sensorA, sensorB}
  TfNobody = nobody
  TfWindow = {open}
  TfSync = sync
  TfPeriod <- BoardPeriod

  Hz = 2
  TickMod = 3
  SumMod = 16
  CreditMod = 32
  MAX_CREDIT = 4
  AirMessage <- BoardAirMessages
  Wide = FALSE
  AirWindow = 9
  V8Num = 2
  V8Count = 6
  V8Syncs = {1, 4}
  V8Byte = 3
  V8Period = 6
  V8Message <- BoardValveMessage
  V8Gift = 1
  V8Rich = 2

  fs20 = fs20
  switchOn = switchOn
  switchOff = switchOff
  fhtAck = fhtAck
  RepData = {fs20, switchOn, switchOff, fhtAck}
  RepLength <- BoardLengths
  RepType <- BoardTypes
  REPTIME = 2
  RepNone = none
  RepReports <- BoardReports
  RepRouted = FALSE

  older = older
  syslog = syslog
  QfsInodes = 4
  QfsPages = 2
  QfsBlock = 2
  QfsHostName = {settings}
  QfsLog <- BoardLogs
  QfsEmpty = empty
  QfsMagic = magic
  QfsData = {data}
  QfsLine = line
  QfsErased = erased
  QfsUploads = {0, 3}
  QfsRotate = 2
  QfsWear = 4
  QfsNone = noFile

  ConLetters = 2
  ConLines = 3
  ConBank = 3
  ConRoom = 2
  ConHeader = 1
  ConOutput = {0, 2}
  ConReport = 2
  ConPackets = 1

  OwWidth = 3
  OwFamily = 1
  OwMax = 3
  OwDevice <- BoardCodes

  FfRoom = 2

  StSize = 2
  StLengths = {1, 3}

  HmRoom = 3
  HmHigh = 8
  HmSom = 13
  HmEsc = 12
  HmMessages <- BoardWired
  HmCount = 2

  fhtA = fhtA
  fhtB = fhtB
  other = other
  RfrCode = {fhtA, fhtB}
  RfrCommand = {1}
  RfrWindow = {fhtA}
  RfrOther = other
  RfrFhtLength = 4
  RfrMoreLength = 3
  RfrTfLength = 3
  RfrElseLength = 4
  RfrRoom = 12
  RfrDelay = 2
  RfrWait = 1
  RfrTicks = 3

  ks300 = ks300

  Builds = {"repeat"}
PROPERTY RepEachReported
