CONSTANTS
    V4 = {1, 2, 3, 4}
    V6 = {1, 4, 101, 102}
    Database = {"Country", "City"}
    Var = {"code", "name", "city"}
    Of <- MCOf
    Known <- MCKnown
    Has <- MCHas
    Bad = {4}
    Tree6 <- MCBothTrees
SPECIFICATION GeoSpec
INVARIANTS CacheIsTransparent
