SPECIFICATION Spec
CONSTANTS
    None = None
    Container = {a, b}
    Default = a
    s1 = s1
    s2 = s2
    Shard = {s1, s2}
    Budget = 2
    Arriving <- MCHalfCopied
    MaxEvents = 0
    MaxClicks = 2
PROPERTY RefusesHalfCopied
CHECK_DEADLOCK FALSE
