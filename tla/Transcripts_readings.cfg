SPECIFICATION Spec
CONSTANTS
    Script <- OneSession
    Harnesses = {"claude", "qwen", "gemini", "pi", "openclaw", "commandcode", "opencodereview", "trae", "cherrystudio", "junie", "kimi", "amp", "codebuff", "augment", "kilo", "kiro", "goose", "zed", "mux", "droid", "fx-sidecar", "fx", "deepseek", "copilot"}
    Given <- GivenTo
    Files <- TwoFiles
    MaxOdd <- OddUpTo
INVARIANTS
    CountedOnce
    NoSilentLoss
    FinalUsage
    OneTurnAPrompt
    FirstCallStarts
