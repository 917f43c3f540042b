SPECIFICATION Spec
CONSTANTS
    mask = mask
    a = a
    b = b
    w = w
    Categories = {mask}
    Coordinates <- MCCoordinates
    Relies <- MCRelies
    Wickets = {w}
    CategoryOf <- MCCategoryOf
    MaxLines = 1
    None = None
    Absent = Absent
    Foreign = Foreign
    Bare = Bare
INVARIANT UsedIsKept
