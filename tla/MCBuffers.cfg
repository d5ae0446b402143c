SPECIFICATION Spec
CONSTANTS
    dumb = dumb
    imported = imported
    f1 = f1
    f2 = f2
    c1 = c1
    c2 = c2
    Objects <- MCObjects
    Imports <- MCImports
    NoObj = NoObj
    Fbs <- MCFbs
    NoFb = NoFb
    Compositor = Compositor
    Clients <- MCClients
    NoClient = NoClient
    MaxBusy = 2
    Users <- MCUsers
    MaxMaps = 2
INVARIANTS
    TypeOK
    ObjectRefsExact
    FbRefsExact
    NothingLeftBehind
    ReadsAreMapped
SYMMETRY Symmetry
CHECK_DEADLOCK FALSE
