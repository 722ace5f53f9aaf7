CONSTANTS
    page = page
    Chain <- OnePage
    Partial = partial
    Dirs = {d, e}
    Tabs = {t1, t2}
    Browsers = {t1}
    Fires = {g1}
    Cap = 2
    MaxChanges = 3
    None = None
SPECIFICATION Spec
INVARIANT NewDirsWatched
CHECK_DEADLOCK FALSE
