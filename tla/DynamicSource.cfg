\* Four describes of a catalog that changes twice and announces changes once.
SPECIFICATION CacheSpec
CONSTANTS
    Caller = {d1, d2, d3, d4}
    None = None
    MaxChanges = 2
    MaxBumps = 1
SYMMETRY CallerSymmetry
INVARIANTS FreshListing FailureHidesOlder
PROPERTY HitsMoveForward
