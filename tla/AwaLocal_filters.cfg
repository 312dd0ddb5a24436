CONSTANTS
  Tables = {"t"}
  DocLists <- MCDocLists
  FilterLists <- MCFilterLists
  MaxAdds = 2
  MaxCrashes = 0
SPECIFICATION LocalSpec
INVARIANT BothBoundsAreSent
CHECK_DEADLOCK FALSE
