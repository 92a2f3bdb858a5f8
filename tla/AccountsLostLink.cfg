SPECIFICATION Spec
CONSTANTS
    Users = {u1, u2}
    EarlyUsers = {u1}
    Customers = {c1, c2}
    Sessions = {s1, s2}
    Workers = {w1, w2}
    Prices = {p1, p2}
    AllowedPriceIDs = {p1}
    None = None
    MaxFaults = 0
CHECK_DEADLOCK FALSE
PROPERTIES
    LinkIsNeverReplaced
