SPECIFICATION Spec
CONSTANTS
    Editors <- MCOne
    Sids <- MCSids
    UnknownAlias = UnknownAlias
    Rights <- MCRights
    NoMask <- MCNoMask
    ParsedRights <- MCParsed
    Plans <- MCFewPlans
    InitDacls <- MCOneDacl
    ParentAces <- MCParents
    MaxEdits = 2
    e1 = e1
    u = u
    v = v
    x = x
    r = r
    w = w
    g = g
    none = none
INVARIANT InheritedKept
