\* Two schedulers and a direct caller over three intervals.
CONSTANTS
    s1 = s1
    s2 = s2
    o1 = o1
    o2 = o2
    Scheduler = {s1, s2}
    Direct = Direct
    Operator = {o1, o2}
    Interval = 2
    MaxTime = 5
    MaxSetBack = 1
    MaxKills = 1
    MaxDirect = 1
    MaxLetters = 1
    MaxVerdicts = 2
SPECIFICATION MCSpec
SYMMETRY Symmetry
CHECK_DEADLOCK FALSE
INVARIANTS
    BeatsKeepTheInterval
    DeliveryIsTold
    CountsAreHonest
    RefusedOnlyIfOvertaken
PROPERTIES
    ReplayedOnceWhileApplicable
