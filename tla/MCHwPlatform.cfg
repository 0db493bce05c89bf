CONSTANTS
  Sensors = {"sht31", "bh1750"}
  MaxNumOps = 3
  NoOp = NoOp
  SHT31Period = 4
  BH1750Period = 8
  BMP280Period = 8
  SHT31Delay = 1
  BH1750Delay = 2
  BMP280Delay = 1
  MaxI2cSteps = 3
  MaxSpiSteps = 2
  MaxLate = 1
  NumAlerts = 2
  MaxTimers = 12
  AdvertisingMayFail = FALSE
SPECIFICATION Spec
INVARIANTS TypeOK BusIsConsistent NoAssertFails InitIsOneChain ReadoutsInTime
PROPERTIES BusSpec InitEnds AdvertisingResumes
CHECK_DEADLOCK FALSE
