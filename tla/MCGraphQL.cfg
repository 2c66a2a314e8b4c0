SPECIFICATION Spec
CONSTANTS
  Clients = {c1, c2}
  Capacity = 1
  Inputs <- MCInputs
INVARIANT AnswersItsQueries
PROPERTY Answers
