CONSTANTS
    Request = {"r1", "r2"}
    Key = {"k1", "k2"}
    KeyOf <- MCKeyOf
    Node = {"n1"}
    OnDisk = {"k1", "k2"}
    Mortal = {"r1"}
    UseStale = {"r2"}
    MaxSize = 1
    Manager = "manager"
    None = None
SPECIFICATION FairSpec
INVARIANTS HoldersAreCounted UpdatingHasUpdater
PROPERTIES RequestsEnd
CHECK_DEADLOCK FALSE
