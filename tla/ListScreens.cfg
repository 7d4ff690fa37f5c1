SPECIFICATION Spec
CHECK_DEADLOCK FALSE
CONSTANTS
    None = None
    NoValue = NoValue
    Tabs = {"t1", "t2"}
    RunTenants = {"a", "b"}
    RunSeeds <- MCRunSeeds
    LiveScripts <- MCLiveScripts
    ScopeOf <- MCScopeOf
    DefaultLimit = 2
    PlatformRuns = 318
    TenantRuns <- MCTenantRuns
    RunLinks <- MCRunLinks
    Pills <- MCPills
    MaxRunClicks = 3
    MaxLost = 1
    AuditTabs = {"t1", "t2"}
    AuditTenants = {"a", "b"}
    AuditScope <- MCAuditScope
    AuditEvents <- MCAuditEvents
    AUDIT_PAGE_SIZE = 2
    AuditLinks <- MCAuditLinks
    AuditPills <- MCAuditPills
    MaxAuditClicks = 3
    MaxAuditLost = 1
INVARIANTS LiveMarksAgree SettledIsFinal NoRowSkipped PagesArePrefix NoNewerLeftOut
