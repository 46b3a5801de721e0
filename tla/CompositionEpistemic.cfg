CONSTANTS
  FieldRefs <- MCFieldRefs
  Schema <- MCSchema
  Sources <- MCSources
  Agents <- MCAgents
  Parts <- MCParts
SPECIFICATION Spec
INVARIANT AllLevelsPreserved
