SPECIFICATION UnitsSpec
CONSTANTS
  Value <- TwoValues
  Subscriber = {s1, s2}
  MP_MAX_SUBSCRIBERS = 2
  CountMod = 3
  SeqMod = 3
  Sample <- SmallSamples
  Order = 5
  Taps <- SmallTaps
  Coeffs <- SmallCoeffs
  FpCoeffs <- SmallFpCoeffs
  ScaleNum = 1
  ScaleDenum = 0
  FpBits = 4
  MaxSamples = 7
  Data <- SmallData
  Short <- SureLengths
  MaxErrors <- ErrorsByLength
  TIMER_TICK_MAX = 5
  Pin <- TwoPins
  OwnerOf <- Owners
  PinConfig <- TwoConfigs
  PortIndex = {0}
  uart = uart
  timer = timer
  Irq = {uart, timer}
  IRQ_ALL = IRQ_ALL
  Numbers <- SomeInterrupts
  Nesting = 4
  Input <- SmallInput
  Gains <- SmallGains
  Limits <- SmallLimits
  Filtered <- BeyondLimits
INVARIANTS
  WithinLimits
  ChangesAreSeen
  FiltersFollowSamples
  ErrorsAreDetected
  PinsAreKept
  CommandsAreTaken
  DelaysAreKept
  SectionsExclude
PROPERTY
  SectionsRestore
CHECK_DEADLOCK FALSE
