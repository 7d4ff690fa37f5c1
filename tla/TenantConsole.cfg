SPECIFICATION Spec
CONSTANTS
    None = None
    Operators = {"ann", "bob"}
    Pages <- MCPages
    NextInputs = {"/tenants", "//elsewhere", "/api/tenants"}
    Deployments = {"mock", "oidc"}
    Fixtures <- MCFixtures
    PhaseOf <- MCPhaseOf
    Slugs = {"globex", "vertex", "no"}
    Sources = {"blank", "copy"}
    ValidSlugs = {"globex", "vertex"}
    Names = {"Vertex", "Globex"}
    deriveSlug <- MCDerive
    Queries = {"x"}
    Matches <- MCMatches
    PhasePills = {"Ready"}
    PageSize = 2
    Uses <- MCUses
    MaxClicks = 5
    StartsAt <- MCStartsAt
    MaxRestarts = 1
INVARIANTS NoRedirectLoop OneTenantPerSlug NoTenantSkipped SubmittedWasChecked
CHECK_DEADLOCK FALSE
