\* Four datagrams; the metrics are rendered once, at any moment.
SPECIFICATION ServerSpec
CONSTANTS
  Capacity = 1
  Ids = {1, 2}
  Paths = {"wi-fi", "android-usb-tether", "unknown"}
  NoId = 0
  MaxCopies = 2
  Datagrams <- MCDatagrams
  MaxDatagrams = 4
  SummaryEvery = 2
  MaxScrapes = 1
INVARIANTS
  CountersConserve
  ScrapeHonest
PROPERTY ServeStops
