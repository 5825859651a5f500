CONSTANTS
    Numbers = 5
    Inputs <- MCInputs
    Up = {u1, u2}
    Down = {d1}
    Nobody = Nobody
    Rounds = 3
    Amount <- MCAmount
    Adders = {u1}
    Takers = {d1}
    Word = 8
    Wrap = 4
    Lines <- MCLines
    StrLen = 4
    Searchers = {u1, u2}
    Limit = 4
SPECIFICATION SuiteFairSpec
INVARIANTS HandedOver Counts CountsOfLine
PROPERTIES NeverFurtherBack ThreadsEnd
CHECK_DEADLOCK FALSE
