SPECIFICATION FairSpec
CONSTANTS
  a1 = a1
  a2 = a2
  Actors = {a1, a2}
  NoActor = NoActor
  Unparsed = Unparsed
INVARIANTS FreshRecord OneMiner NoClientLeak
PROPERTY RoundsRepeat
CHECK_DEADLOCK FALSE
