SPECIFICATION Spec
CONSTANTS
    MaxFree = 4
    Submissions <- MCSubmissions
INVARIANTS
    RefundTypeOK
    CasesAreSound
    PassMeansPolicy
    SafeAgentKeepsPolicy
    EvidenceExplainsWorld
CHECK_DEADLOCK FALSE
