CONSTANTS
    Size <- MCSize
    Consumers <- MCConsumers
    MaxEvents <- MCMaxEvents
SPECIFICATION Spec
INVARIANT EventsPoppedOnceInOrder
CHECK_DEADLOCK FALSE
