SPECIFICATION PriceSpec
CONSTANTS
    Events = {e1, e2}
    Instants <- OneDay
    Unparsed = Unparsed
    Widths = {4}
    DefaultWidth = 4
    Hour = 2
    Zones <- Utc
    Counts <- SomeCounts
    Null = Null
    MaxInt = 100
    MaxCount = 100
    Models = {flat, tiered, unknown}
    Priced = {flat, tiered}
    Tiered = {tiered}
    Threshold = 3
    Recorded <- SomeCosts
    Dimensions = {"model"}
    Day = 8
SYMMETRY EventSymmetry
CHECK_DEADLOCK FALSE
INVARIANT RollupPricesAgree
