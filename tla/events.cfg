SPECIFICATION FairSpec
CONSTANTS
  Handler = {h1, h2, h3, h4}
  Context = {thread, interrupt}
INVARIANTS InRegistrationOrder NobodyIsLeftOut
PROPERTY EmissionEnds
