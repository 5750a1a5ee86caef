CONSTANTS
    Req = {p1, p2}
    Slug = {s1}
    MockId = {a, b}
    Ip = {ip1}
    NoSlug = NoSlug
    NoToken = NoToken
    MaxMocks = 1
    DefaultTTL = 1
    MaxTTL = 2
    MaxTime = 3
SPECIFICATION Spec
INVARIANTS TypeOK NoForeignLogs HorizonBounded
PROPERTIES NoResurrection ExtendWithinLifetime ClearNeedsToken ImplementsRegistry
SYMMETRY Symmetry
