CONSTANTS
  Contents = {first, second}
  NoSnapshot = NoSnapshot
  Torn = Torn
  NoFile = NoFile
SPECIFICATION Spec
INVARIANTS TypeOK NeverTorn ReadersSeeWhole
PROPERTIES OutcomesAreTruthful
