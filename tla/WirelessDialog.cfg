SPECIFICATION WlanSpec
CONSTANTS
    Essids = {"e1", "e2"}
    Objs = {o1, o2, o3}
    Nil = Nil
    Absent = Absent
    Programs = {"manager", "properties"}
    Favourites <- MCFavourites
    Air <- MCAir
    MaxEdits = 5
    MaxAdmin = 1
    MaxQueue = 2
INVARIANTS
    FavouritesConverge
PROPERTIES
    ConnectsAsShown
    StoresTypedKeys
CHECK_DEADLOCK FALSE
