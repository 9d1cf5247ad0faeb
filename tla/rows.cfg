CONSTANTS
  c1 = c1  c2 = c2  c3 = c3
  NoRow = NoRow  Null = Null  None = None
  Id = {1}
  Caller = {c1, c2}
  FirstVersion = 0
  By = {1, 2}
  MaxVersion = 3
  MaxLife = 2
SPECIFICATION Spec
INVARIANTS
  OneWinner
  NothingCreatedMeanwhile
PROPERTIES
  NoLostUpdate
  ImplementsCompareAndSet
