SPECIFICATION Spec
CONSTANTS
    Callers = {c1, c2, c3}
    None = None
    Scopes = {None, tenantA, tenantB}
    Others = {"disconnect", "early"}
    MaxMoved = 1
INVARIANTS HandedInScope
PROPERTIES ScopesStayApart
CHECK_DEADLOCK FALSE
