CONSTANTS
    c1 = c1  c2 = c2  k1 = k1  k2 = k2  a1 = a1  g1 = g1  g2 = g2  l1 = l1  s1 = s1  s2 = s2  None = None
    Callers = {c1}
    Capabilities = {k1}
    Arguments = {a1}
    Bindings = {g1, g2}
    Preference <- TwoMethods
    Protocol <- MCProtocol
    Configured = {"grpc"}
    TTL = 1
    Budget = 1
    Horizon = 5
    Symbols = {s1, s2}
    ServiceOf <- TwoServices
    SymbolTTL = 1
    Timeout = 1
SPECIFICATION Spec
PROPERTY NoFallbackOnFailure
