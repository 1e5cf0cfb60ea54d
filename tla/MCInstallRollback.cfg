SPECIFICATION Spec
CHECK_DEADLOCK FALSE
CONSTANTS
    s1 = s1
    s2 = s2
    p1 = p1
    holy = holy
    catalog = catalog
    u = u
    Absent = Absent
    NoRec = NoRec
    Selections = {s1, s2}
    Providers = {p1}
    ProvidersOf <- Choices
    Holy = holy
    Catalog = catalog
    UserValues = {u}
    Before <- Users
    Budget <- Bounds
INVARIANTS
    RollbackRestores
