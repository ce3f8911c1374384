SPECIFICATION GattSpec
CONSTANTS
  MaxLife <- Lives
  Builds <- BuildsChecked
  MaxGen = 2
  MaxLinks = 2
  MaxReports = 2
  MaxHeard = 3
  ScanQueue = 1
  NoticeQueue = 1
  DataQueue = 2
INVARIANTS LinkAgreed NothingCrosses BusyIsOwed
PROPERTY InOrder
