SPECIFICATION FairSpec
CONSTANTS
  Handlers = {h1}
  Watcher = w
  LastVersion = 2
INVARIANTS OnlyGoodTables
PROPERTIES SighupInstalls
