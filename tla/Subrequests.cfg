CONSTANTS
    Main = "m"
    Sub = {"a", "b", "c", "d", "g"}
    Script <- MCScript
    Part = {"m1", "m2", "m3", "a1", "a2", "b1", "c1", "d1"}
    Background = {"g"}
    Waited = {"b"}
    MayBlock = {"a", "b", "g"}
SPECIFICATION FairSpec
INVARIANTS OutputInOrder ReferencesAreCounted NothingOutlives
PROPERTIES RequestIsFreed
CHECK_DEADLOCK FALSE
