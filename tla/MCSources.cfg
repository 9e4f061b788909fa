SPECIFICATION SourcesFairSpec
CONSTANTS
  g1 = g1  s1 = s1  s2 = s2  s3 = s3
  Loops = {l1}
  Groups = {g1}
  Sources = {s1, s2, s3}
  Watermark <- Watermarks
  FirstGroups <- OneGroup
  FirstSources <- TwoSources
  Ops <- LoopOps
  MaxDepth = 1
  NSIG = 1
  Acquirer = s1
  Adjusted = {s3}
  Designs <- SignalAndAny
INVARIANTS SourcesTypeOK CallbacksAreCurrent OneHandlerPerDelivery
PROPERTIES ReleasedIsLeftAlone SignalIsHandled
