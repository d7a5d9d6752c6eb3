CONSTANTS
    c1 = c1  c2 = c2  k1 = k1  a1 = a1  a2 = a2  g1 = g1  l1 = l1  r1 = r1  None = None
    Callers <- TwoCallers
    Capabilities = {k1}
    Arguments = {a1}
    Bindings = {g1, l1}
    Preference <- GRPCThenLCD
    Protocol <- MCProtocol
    Configured = {"grpc", "lcd"}
    TTL = 1
    Budget = 1
    Horizon = 3
SYMMETRY Sym
SPECIFICATION Spec
INVARIANTS TypeOK Evidence
PROPERTIES DenialIsRecent ForgottenWasMissing FallbackHasReason KeepsPromise
