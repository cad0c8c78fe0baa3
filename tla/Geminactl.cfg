\* A window of three over five identities (the ring wraps, evicts and
\* re-admits), probe runs of up to eight datagrams, four interfaces that change
\* once while they are read, two targets with three pings each; a replay window
\* of three two-bit words that slides over eleven numbers.
SPECIFICATION MCSpec
CONSTANTS
  Commands = {"serve", "probe", "preflight", "darwin-evidence", "benchmark",
              "replay"}
  Capacity = 3
  Ids = {1, 2, 3, 4, 5}
  Paths = {"wi-fi", "android-usb-tether"}
  NoId = 0
  MaxCopies = 3
  ProbeConfigs <- MCProbeConfigs
  Nics <- MCNics
  Hardware <- MCHardware
  LinkStates <- MCLinkStates
  UsbFunctions <- MCUsbFunctions
  Versions <- MCVersions
  MaxChanges = 1
  Targets <- MCTargets
  Pings = 3
  Timeout = 2
  MaxDup = 1
  WordBits = 2
  Requested = 5
  MaxNumber = 11
CHECK_DEADLOCK FALSE
INVARIANTS
  RemembersExactlyCapacity
  ProbeRunAddsUp
  ReportIsTrue
  BenchmarkExact
  BitmapExact
  AtMostOnce
PROPERTIES
  ImplementsFifoMemory
  ImplementsAntiReplay
