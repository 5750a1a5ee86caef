CONSTANTS
    Req = {p1, p2}
    Slug = {s1}
    MockId = {a}
    Ip = {ip1}
    NoSlug = NoSlug
    NoToken = NoToken
    MaxMocks = 1
    DefaultTTL = 1
    MaxTTL = 2
    MaxTime = 2
SPECIFICATION Spec
PROPERTY ExtendPushesExpiry
