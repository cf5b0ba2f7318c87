\* Two slots; a ring of 3 places; 3 bytes on each peripheral; three dividers.
CONSTANTS
  s1 = s1
  s2 = s2
  Slots = {s1, s2}
  Uarts = {"u2", "u3", "u4"}
  I2cs = {"i2c1"}
  Spis = {"spi3"}
  Adcs = {"adc0", "adc1"}
  Gpios = {"btn", "cs", "u1tx"}
  PinsOf <- MCPinsOf
  HostHard = {"PA9"}
  NoDev = NoDev
  Ring = 3
  PeriphOf <- MCPeriphOf
  LooksUp = {"USART2"}
  MaxBytes = 3
  Divs = {2, 3, 8}
  PClk = 24
  SpiDefault = 3
  Speeds = {1, 5, 11, 30}
  Vref = "vref"
  Catalogs <- MCCatalogs
  Default = "default"
SYMMETRY MCSymmetry
SPECIFICATION DevSpec
INVARIANTS ReceivedInOrder OnlyAClaimCanStick WireIsNeverGarbled SpiIsAsItsOwnerSetIt OnlyAnOverlapMixesReadings DevicesFollowTheClaims
