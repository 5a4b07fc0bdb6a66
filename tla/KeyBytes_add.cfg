CHECK_DEADLOCK FALSE
SPECIFICATION Spec
CONSTANTS
    Base = 4
    Size = 5
    Bits = 4
    Ids <- MCIds
INVARIANTS IntervalsAgree OnlyCarriesGoWrong
