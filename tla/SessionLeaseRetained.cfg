SPECIFICATION LeaseSpec
CONSTANTS
    c1 = c1
    c2 = c2
    k1 = k1
    k2 = k2
    Conns = {c1, c2}
    Cores = {k1, k2}
    Tokens = {t1}
    Ips = {i1}
    None = None
    Sites <- MCQuietGateway
PROPERTIES RetainedLeaseAges
