SPECIFICATION Spec
CONSTANTS
    None = None
    globex = globex
    f1 = f1
    f2 = f2
    platformOp = platformOp
    tenantOp = tenantOp
    Operators = {platformOp, tenantOp}
    Findings = {f1, f2}
    Tenants = {globex}
    MaxCalls = 2
    MaxClicks = 4
    TenantOf <- MCTenantOf
    SeverityOf <- MCSeverityOf
    ScopeOf <- MCScopeOf
    Uses <- MCUses
    FilterInputs <- MCFilterInputs
    AutoHealed = {}
INVARIANTS HealedOnce NoticeMatchesList AckedMeansAll
PROPERTIES AcceptedStaysAccepted BusyEnds
CHECK_DEADLOCK FALSE
