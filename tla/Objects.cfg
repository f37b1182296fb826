SPECIFICATION MCSpec
CONSTANTS
    Editors <- MCOne
    Sids <- MCSids
    UnknownAlias = UnknownAlias
    Rights <- MCRights
    NoMask <- MCNoMask
    ParsedRights <- MCParsed
    Plans <- MCPlans
    InitDacls <- MCDacls
    ParentAces <- MCParents
    MaxEdits = 2
    e1 = e1
    u = u
    v = v
    x = x
    r = r
    w = w
    g = g
    none = none
    Texts <- MCTexts
    Lists <- MCLists
    Foreign <- MCForeign
    Words = {0, 7}
    StringBuffer = 4
    ListBuffer = 6
    Subkeys = {1, 2, 3}
    Long = {3}
    MaxChanges = 2
    None = None
    Depth = 3
    Content = 3
    MaxSwaps = 3
    Layouts <- MCLayouts
    Cluster = 2
    Capacity = 2
    Images <- MCImages
    Width = 4
    MaxWalk = 4
    Servers <- MCServers
    MaxSettings = 2
    NoValue = NoValue
INVARIANT EditSound RegistryFaithful FilesFaithful EnabledHasServer
PROPERTY GuardedCreate
CHECK_DEADLOCK FALSE
