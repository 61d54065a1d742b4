SPECIFICATION Spec
CONSTANTS
    t1 = t1
    t2 = t2
    t3 = t3
    b1 = b1
    b2 = b2
    v1 = v1
    v2 = v2
    Tasks = {t1, t2, t3}
    NoTask = NoTask
    LastGroup = 2
    MaxChanges = 2
    Kinds = {"status", "assignee"}
    Browsers = {b1, b2}
    ViewIds = {v1, v2}
    NoView = NoView
    Filters = {1, 2}
    Plain = 1
    Menus = {0, 1}
    NoMenu = 0
    Densities = {1, 2}
    MaxEdits = 3
INVARIANT TypeOK
INVARIANT SelectedIsShown
INVARIANT UrlOwnsOpenTask
INVARIANT ActiveViewIsApplied
PROPERTY FocusStaysOnTask
PROPERTY LockedViewsStay
SYMMETRY Alike
