SPECIFICATION FairSpec
CONSTANTS
  Openers = {o1}
  Sources <- MCPlain
  Addresses = {a1, a2}
  Faults = {"reset"}
PROPERTIES ResetResolves
