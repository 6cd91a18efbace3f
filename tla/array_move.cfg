CONSTANTS
  Arrays <- MCArrays
  MaxWrites = 3
  Behind = Behind
  Neighbour = Neighbour
SPECIFICATION Spec
INVARIANTS ElementsWhole OverrunBounded OnlyLateWritesLost
