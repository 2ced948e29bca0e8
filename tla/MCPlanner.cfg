SPECIFICATION Spec
CONSTANTS
  None = None
  Everything = Everything
  Studies <- MCStudies
CHECK_DEADLOCK FALSE
INVARIANT EvidenceStillHolds
INVARIANT ExemptionsHold
INVARIANT DoubtsAreAnswered
PROPERTY SignalsOnlyEscalate
PROPERTY EscalationsForetell
PROPERTY StricterNeverWeaker
