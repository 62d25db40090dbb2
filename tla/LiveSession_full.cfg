SPECIFICATION FairSpec
CONSTANTS
  s1 = s1
  s2 = s2
  None = None
  Sessions <- TwoSessions
  MaxTabs = 2
  MaxIncidents = 1
INVARIANTS
  TypeOK
  NothingIsLost
  JournalMatchesQueue
  EndedIsClean
  ExitOnlyAlone
PROPERTIES
  TerminalStays
  EveryEventIsAnswered
