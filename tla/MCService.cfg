SPECIFICATION FairSpec
CONSTANTS
  g1 = g1  g2 = g2  s1 = s1  s2 = s2  s3 = s3
  Loops = {l1}
  Groups = {g1, g2}
  Sources = {s1, s2, s3}
  Watermark <- TwoWatermarks
  FirstGroups <- AllInLoop
  FirstSources <- TwoAndOne
  Ops <- ServiceOps
  MaxDepth = 1
PROPERTIES NoStarvation TimeoutIsHandled
