SPECIFICATION ServiceSpec
CONSTANTS
  RosterSets <- MCRosterSets
  Hours = 4
  MaxHour <- MCMaxHour
  DayOf <- MCDayOf
  Outcomes = {"inside", "above"}
  Prices = {2}
  Windows <- MCWindows
  Positions <- MCPositions
  Dollar = 2
  Cap = 3
  Threshold <- MCThreshold
  MaxTrades <- MCMaxTrades
  MaxFaults <- MCMaxFaults
CHECK_DEADLOCK FALSE
INVARIANTS TrippedDayStops BooksNoHope JournalKept BackfilledOnce LedgerTruthOrFlag ArmedOnlyFlat LeggedDayStops
PROPERTIES LatchMeansLost
