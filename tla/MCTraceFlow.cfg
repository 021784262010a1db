SPECIFICATION Spec
CONSTANTS
    a1 = a1
    a2 = a2
    Agents <- MCAgents
    Lead = a1
    PromptLen <- MCPromptLen
    MaxAnswers <- MCMaxAnswers
    MaxAttempts = 2
    FaultSets <- MCFaultSets
INVARIANTS
    TypeOK
    ExportIsFaithful
    ExportWasSeen
    TasksDoNotMix
\* Nothing happens after the export.
CHECK_DEADLOCK FALSE
