CONSTANTS
  FieldRefs <- MCFieldRefs
  Schema <- MCSchema
  Sources <- MCSources
  Agents <- MCAgents
  Inputs <- MCInputs
SPECIFICATION Spec
CHECK_DEADLOCK FALSE
INVARIANT TypeOK
INVARIANT HighestLevelReported
INVARIANT CheckedHasCertificate
