SPECIFICATION FairSpec
CONSTANT Lidars = {"a", "b"}
INVARIANT TypeOK
PROPERTIES
    SleepersWake
    SettlesWhenCalm
