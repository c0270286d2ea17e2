\* One call at a time, and nothing fails of itself.
SPECIFICATION ImageSpec
CONSTANTS
    Files = {f1, f2}
    Updates = {c1}
    Faults = FALSE
    None = None
INVARIANT
    RemovedIsPrevious
