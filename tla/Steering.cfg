SPECIFICATION FairSpec
CONSTANTS
  t1 = t1
  t2 = t2
  r1 = r1
  plug = plug
  m1 = m1
  m2 = m2
  Nobody = Nobody
  Typed <- TwoTyped
  Reports <- OneReport
  Plugins <- OnePlugin
  From <- TwoSpoken
  Cap = 1
CHECK_DEADLOCK FALSE
INVARIANTS
  TextsAccounted
  LostOnlyUnread
  RuleOneIsExact
  OriginStartedTurn
PROPERTIES
  EveryTextArrives
