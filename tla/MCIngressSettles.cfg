\* One troubled request and two faults: liveness.
SPECIFICATION IngressSpec
CONSTANTS
    Requests = {r1}
    Troubled = {r1}
    MaxActive = 1
    MaxFaults = 2
PROPERTY
    IngressSettles
\* A torn sentinel keeps the service down for good.
CHECK_DEADLOCK FALSE
