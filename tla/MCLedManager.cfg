CONSTANTS
  Slots = {s1, s2, s3}
  Kinds = {red, green}
  NULL = NULL
  Off = Off
  Duration = 3
  Margin = 1
  MaxLag = 1
  Modulus = 12
SPECIFICATION FairSpec
INVARIANTS TypeOK RotationIsConsistent TurnsEndInTime
PROPERTIES TurnsAreLongEnough EveryNotificationIsDisplayed ImplementsRotation
