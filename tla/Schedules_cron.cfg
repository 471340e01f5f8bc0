SPECIFICATION FairSpec
CONSTANTS
  s1 = s1
  j1 = j1
  j2 = j2
  Schedules = {s1}
  Jobs = {j1, j2}
  Parent <- OneSchedule
  Crons <- MinuteAndSunday
  Calendar <- Midnight
  Never = Never
  MaxEvents = 5
PROPERTIES OncePerOccurrence NoCatchUp StampsStandardMinutes HoldsAreMadeUp
CHECK_DEADLOCK FALSE
