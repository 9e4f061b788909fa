SPECIFICATION TurnsSpec
CONSTANTS
  g1 = g1  g2 = g2  g3 = g3  s1 = s1  s2 = s2  s3 = s3
  Loops = {l1}
  Groups = {g1}
  Sources = {s1, s2}
  Watermark <- Watermarks
  FirstGroups <- OneGroup
  FirstSources <- TwoSources
  Ops <- NestedOps
  MaxDepth = 4
INVARIANTS AttemptsWithinWatermark SourcesTakeTurns
PROPERTY RequestStands
