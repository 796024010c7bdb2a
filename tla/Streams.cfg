SPECIFICATION StreamSpec
CONSTANTS
  Pages = {p1}
  MaxStreams = 1
  FetchesFail = TRUE
  MaxChanges = 2
INVARIANTS TypeOK NoNotificationMissed
PROPERTIES StreamsCatchUp PagesCatchUp
