SPECIFICATION Spec
CONSTANTS
    Devices = {1}
    Procs = {p1, p2, p3}
    Home <- Shared
    MaxWrites = 2
SYMMETRY Symmetry
INVARIANTS
    TypeOK
    OnePassword
PROPERTIES
    OpensAgree
