\* One static tool, two source ids, up to four registrations, listings of up to
\* two of three names.
SPECIFICATION Spec
CONSTANTS
    Id = {s1, s2}
    n1 = n1  n2 = n2  n3 = n3
    Name <- Names
    StaticTools <- OneStatic
    MaxRegistrations = 4
    MaxListing = 2
INVARIANTS OneMoment NamesRoute
