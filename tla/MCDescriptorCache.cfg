CONSTANTS
    c1 = c1  c2 = c2  s1 = s1  m1 = m1  m2 = m2  None = None
    Lookups <- TwoLookups
    Symbols = {s1}
    Methods = {m1, m2}
    ServiceOf <- OneService
    SymbolTTL = 1
    Timeout = 1
SPECIFICATION DFairSpec
INVARIANTS DTypeOK Backed
PROPERTIES AbsenceIsRecent OneDescriptor AbsenceExpires
