SPECIFICATION Spec
CONSTANTS
  Listed = {"a", "b"}
  DocOrder <- MCDocOrder
  Histories <- MCHistories
  Requests = {r1, r2}
  Nothing = Nothing
  Items = {"a", "b"}
  Contents <- MCContents
  Gets = {g1, g2}
  MaxBound = 2
  NoItem = NoItem
INVARIANTS TypeOK OpenRow RowsShowAnswer UpdatingEnds ItemOpen ImagesOnce
PROPERTIES StatusCurrent ContentsCurrent
CHECK_DEADLOCK FALSE
