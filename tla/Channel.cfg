\* One tab that reconnects once and gets slow, one topic, two events; a panel opens or
\* closes, access is withdrawn or a lookup fails.
SPECIFICATION FairSpec
CONSTANTS
    Topics = {case1}
    CaseTopic = case1
    NoTopic = NoTopic
    Publishers = 2
    InboxSize = 1
    QueueSize = 1
    WireSize = 1
    MaxPerUser = 1
    Ttl = 1
    MaxConnections = 2
    MaxEvents = 2
    MaxTurns = 1
INVARIANTS GapIsReported IndexAgrees
PROPERTIES DeliveredWithinTtl OwedArrives
