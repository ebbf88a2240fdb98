SPECIFICATION Spec
CONSTANTS
  NPages = 4
  MaxRef = 2
  MaxHolds = 2
  MaxStray = 1
INVARIANTS FreeListOK RefsExact PagesClean ScanIsFirstFit
PROPERTIES ImplementsPromise
