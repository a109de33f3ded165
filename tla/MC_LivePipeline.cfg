\* Two workers, a one-slot channel, a chain of five blocks, a two-block window, two errors.
CONSTANTS
    Workers = {w1, w2}
    Capacity <- MCCapacity
    Window = 2
    MaxHead = 5
    MaxErrors = 2
SPECIFICATION Spec
INVARIANTS
    TypeOK
PROPERTIES
    GapsEventuallyFilled
    SubscriptionEventuallyRestored
