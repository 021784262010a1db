SPECIFICATION Spec
CONSTANTS
    a1 = a1
    a2 = a2
    Agents <- MCAgents
    Lead = a1
    PromptLen <- LongerPrompt
    MaxAnswers <- MCMaxAnswers
    MaxAttempts = 2
    FaultSets <- NoFaults
CHECK_DEADLOCK FALSE
INVARIANT SeparateConversationsSeparateRecords
