CONSTANTS
  b1 = b1
  b2 = b2
  p1 = p1
  p2 = p2
  p3 = p3
  Envs <- MCEnvs
  Types <- MCTypes
  Batches <- MCBatches
  Sent <- MCSent
  Failed <- MCFailed
  Patches <- MCPatches
  Ask <- MCAsk
  Omit = Omit
  None = None
  MaxErrors = 1
SPECIFICATION Spec
INVARIANTS TypeOK OutcomeFollows ReportFollows FlagsAsMeant
