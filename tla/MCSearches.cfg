\* Three requests for one search side by side, and markets of two items.
CONSTANTS
    None = None
    Key = {k1}
    Goods = {g1, g2}
    Request = {r1, r2, r3}
    SearchTtl = 2
    CallMax = 2
    MaxTime = 7
SPECIFICATION Spec
SYMMETRY Symmetry
INVARIANT ReplyAge
INVARIANT StepsBackLittle
CHECK_DEADLOCK FALSE
