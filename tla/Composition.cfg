CONSTANTS
  FieldRefs <- MCFieldRefs
  Schema <- MCSchema
  Sources <- MCSources
  Agents <- MCAgents
  Parts <- MCParts
SPECIFICATION Spec
INVARIANT TypeOK
INVARIANT ChecksPreserved
INVARIANT CertificatesPreserved
INVARIANT BoundsTighten
INVARIANT ClausesCombine
INVARIANT CirclesSpanParts
