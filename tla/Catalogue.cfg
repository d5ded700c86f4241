\* Two calls about three plugins, pages of one, a licence for two plugins, one retry.
SPECIFICATION Spec
CONSTANTS
    c1 = c1  c2 = c2
    Calls = {c1, c2}
    Plugins = {1, 2, 3}
    Limit = 2
    PageSize = 1
    MaxRetries = 1
    None = None
SYMMETRY Symmetry
INVARIANTS
    LimitOvershoot
    ListingSound
    AnswersTrue
    OwnEffectOnlyAfterLoss
