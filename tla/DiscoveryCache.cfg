SPECIFICATION Spec
CONSTANTS
    Host = {h1, h2}
    Port = {p1, p2}
    Len = 3
    Half = 7
    MaxAdds = 7
INVARIANTS
    TreesMatchRing
PROPERTIES
    ImplementsRecent
