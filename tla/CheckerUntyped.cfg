CONSTANTS
  FieldRefs <- MCFieldRefs
  Schema <- MCSchema
  Sources <- MCSources
  Agents <- MCAgents
  Inputs <- MCInputs
SPECIFICATION Spec
CHECK_DEADLOCK FALSE
INVARIANT TypeErrorsAreClashes
