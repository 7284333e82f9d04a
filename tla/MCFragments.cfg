SPECIFICATION Spec
CONSTANTS
    First = 1
    Rest = 2
    IdStep = 1
    IdMod = 3
    MaxIds = 2
    Ttl = 1
    MaxSize = 5
    LengthOf <- MCLengthOf
    MaxSets = 3
INVARIANTS
    TypeOK
    Intact
    Complete
