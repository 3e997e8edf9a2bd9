SPECIFICATION LiveSpec
INVARIANTS
    LifecycleTypeOK
    TicksUseALiveProducer
    LeftoversHaveACause
PROPERTIES
    ComesToServe
    ShutdownEnds
CHECK_DEADLOCK FALSE
