SPECIFICATION TurnsSpec
CONSTANTS
  g1 = g1  g2 = g2  g3 = g3  s1 = s1  s2 = s2  s3 = s3
  Loops = {l1}
  Groups = {g1, g2, g3}
  Sources = {s1, s2, s3}
  Watermark <- Watermarks
  FirstGroups <- ThreeGroups
  FirstSources <- ThreeSources
  Ops <- QueueOps
  MaxDepth = 1
INVARIANTS SourcesTakeTurns GroupsTakeTurns
