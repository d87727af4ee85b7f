CONSTANTS
  loop = loop
  genre = genre
  seeds = seeds
  stars = stars
  t1 = t1
  t2 = t2
  Empty = Empty
  Ideas = {idea}
  Edits = {edit}
  Suggests = {suggest, again}
  Threads <- mcThreads
  Fields <- mcFields
  Asked <- mcAsked
  Words <- mcWords
  Texts <- mcTexts
  MaxRevision = 4
  MaxRequests = 4
  MaxFaults = 1
SPECIFICATION Spec
SYMMETRY mcSymmetry
INVARIANT BuildsOnLast
INVARIANT HumanChoicesKept
INVARIANT OneInference
INVARIANT AnswersAreTrue
CHECK_DEADLOCK FALSE
