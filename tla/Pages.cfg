SPECIFICATION PagesSpec
CONSTANTS
    None = None
    Archives = {"deep", "flat", "bare"}
    Subdirs <- MCSubdirs
    MaxFailures = 1
    Tabs <- MCTabs
    ReadTab = "confread"
    MainTab = "main"
    Files <- MCFiles
    User <- MCUser
    Password <- MCPassword
    Typed <- MCTyped
    Nothing = Nothing
    MaxChanges = 3
CHECK_DEADLOCK FALSE
INVARIANTS ListingShowsTheArchive SectionsAgree RightPasswordIsEnough
PROPERTIES DefaultsComplete
