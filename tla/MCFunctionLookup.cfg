SPECIFICATION Spec
CONSTANTS
  Programs <- LinkedPrograms
  Requests <- ListRequests
  Queries <- LookupQueries
  HalfRange = 8
  NoValue = NoValue
INVARIANTS TypeOK OnePlacePerUri FiltersAreAnded PagesAreTheList
CHECK_DEADLOCK FALSE
