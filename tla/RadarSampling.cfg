CONSTANTS
    Players = {q1}
    Pawns = {p1, p2}
    Accounts = {s1, s2}
    Maps = {m1, m2}
    Spots = {origin, x}
    Zero = origin
    None = None
    MaxAge = 1
    MaxFailures = 2
SPECIFICATION Spec
SYMMETRY Interchangeable
INVARIANTS SnapshotIsTrue
PROPERTIES FrozenStays
