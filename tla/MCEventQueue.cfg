CONSTANTS
    TIM1 = TIM1
    TIM2 = TIM2
    Main = Main
    Reader = Main
    Writers <- MCWriters
    Disciplines <- MCDisciplines
    Size = 4
    Wraps = 2
    MaxCalls = 7
    CallsOf <- MCCallsOf
SPECIFICATION FairSpec
INVARIANTS
    TypeOK
    DeliveredInOrder
    SlotsExclusive
    NeverAborts
PROPERTIES
    NestedRefusalsJustified
    ImplementsBoundedQueue
    QueueDrains
CHECK_DEADLOCK FALSE
