SPECIFICATION MqttSpec
CONSTANTS
    Topics = {t1, t2}
    Commands = {c1, c2}
    MaxId = 5
    PublishBound = 2
    WireBound = 3
    NoTail = NoTail
INVARIANTS
    MqttConsistent
    FramingIsKept
PROPERTIES
    TriesAgain
    CommandsAnsweredOnce
