SPECIFICATION Spec
CONSTANTS
    s1 = s1
    s2 = s2
    f1 = f1
    f2 = f2
    Script <- TwoSessions
    File <- FileOf
    NoTitle = NoTitle
    Harnesses = {"opencode", "zcode", "cline", "devin", "copilot", "deepseek", "grok", "reasonix", "hermes", "jcode"}
    Given <- GivenTo
    Titles = {t1}
    MaxBad = 1
INVARIANTS
    CountedOnce
    NoSilentLoss
    OneTurnAPrompt
