CONSTANTS
    Req = {p1, p2}
    Slug = {s1, s2, s3}
    MockId = {a, b, c}
    Ip = {ip1}
    NoSlug = NoSlug
    NoToken = NoToken
    MaxMocks = 1
    DefaultTTL = 1
    MaxTTL = 1
    MaxTime = 1
SPECIFICATION OwnerSpec
INVARIANTS CapOvershootBounded
PROPERTIES ExpiredEventuallyDeleted
