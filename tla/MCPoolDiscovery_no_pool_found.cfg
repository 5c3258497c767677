SPECIFICATION Spec
CONSTANTS
    p1 = p1
    p2 = p2
    p3 = p3
    Pools = {p1, p2, p3}
    PairOf <- PairsOfPools
    TheMarket = p1
    Null = Null
CHECK_DEADLOCK FALSE
INVARIANTS NotFoundIsTrue
