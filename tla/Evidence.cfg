SPECIFICATION Spec
CONSTANTS
    Sources <- ShortTexts
    Items <- AnyItem
    Fields = 3
INVARIANTS
    EvidenceIsInTheSource
    NoEvidenceIsMissed
    PageIsTheSource
    EveryMarkIsEvidence
CHECK_DEADLOCK FALSE
