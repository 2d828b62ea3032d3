SPECIFICATION FairSpec
CONSTANTS
  Pages = {p1}
  Ids = {a, r}
  Restores = {r}
  MaxConnects = 2
  MaxRepeats = 1
INVARIANTS VersionExists CommittedBeforeHeard HeardSinceJoin
 
CHECK_DEADLOCK FALSE
