\* One comment; of requests, the lifecycle manager and its connection to
\* RabbitMQ three may fail.
SPECIFICATION Spec
CONSTANTS
    m1 = m1
    Message = {m1}
    MaxFaults = 3
INVARIANTS
    TypeOK
    DeliveredIsSomewhere
    AtMostOnce
    SteadyWorkIsSpared
    IInv
PROPERTIES
    KeepsAccount
    DeliveredIsReceived
