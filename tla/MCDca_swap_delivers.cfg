SPECIFICATION Spec
CONSTANTS
    s1 = s1  s2 = s2  d1 = d1  d2 = d2  m1 = m1  m2 = m2  p1 = p1  p2 = p2
    Senders = {s1, s2}
    DcaAccounts = {d1}
    Mints = {m1}
    Plans = {p1}
    Wsol = Wsol
    NoPlan = NoPlan
    NoKey = NoKey
    Absent = Absent
    Amounts = {0, 1}
    MaxU64 = 7
    DcaRent = 1
    VaultRent = 1
    AtaRent = 1
    SolSupply = 5
    TokenSupply = 1

PROPERTY SwapDelivers
