SPECIFICATION Spec
CONSTANTS
  Openers = {o1}
  Sources <- MCPlain
  Addresses = {a1, a2}
  Faults = {"refused"}
INVARIANTS RefusedRetried
