SPECIFICATION Spec
CONSTANTS
    Script <- OneSession
    Harnesses = {"cherrystudio", "zed"}
    Given <- GivenTo
    Files <- TwoFiles
    MaxOdd <- OddUpTo
INVARIANTS
    UnreadableIsSkipped
