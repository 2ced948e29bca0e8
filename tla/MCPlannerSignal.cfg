SPECIFICATION Spec
CONSTANTS
  None = None
  Everything = Everything
  Studies <- MCStudies
CHECK_DEADLOCK FALSE
PROPERTY NoRequirementDropped
