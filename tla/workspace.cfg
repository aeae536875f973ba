SPECIFICATION WorkSpec
SYMMETRY SessionSymmetry
CONSTANTS
    None = None
    s1 = s1  s2 = s2  s3 = s3
    Sessions = {s1, s2, s3}
    Specs <- UserSpecs
    Drafts <- Teams
    Configs <- OtherConfigs
    DefaultConfig <- Usual
    AgentModel = "opus"
    Values <- Strings
    UserBudget = 4
CHECK_DEADLOCK FALSE
INVARIANTS WorkTypeOK RestoredAsItWas
PROPERTIES KnowledgeIsKept ConfigIsDurable
