SPECIFICATION FairSpec
CONSTANTS
  A = A
  B = B
  C = C
  b1 = b1
  b2 = b2
  x = x
  y = y
  Geraet <- Devices
  NoDevice = NoDevice
  Board <- BoardOf
  Pg <- Pages
  Doppelt = {}
  NoBoard = NoBoard
  FRAG = 2
  SEITE_MAX = 4
  LISTE_MAX = 1
  MaxSeq = 3
  SELECT_ANLAEUFE = 2
  RUNDEN = 2
  Bild <- Images
  Klienten <- Quiet
PROPERTIES CommandsEnd FallsBack ArmedIsAnswered
