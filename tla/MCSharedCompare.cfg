SPECIFICATION Spec
CONSTANTS
  Goroutine = {g1, g2}
  OneZeros = OneZeros
  OneOne = OneOne
  Long = Long
  Version = {OneZeros, OneOne, Long}
  MaxLen = 3
  Torn = {9}
  Release <- MCRelease
  Length <- MCLength
  KeyLen <- MCKeyLen
INVARIANTS AnswersAreOrder
PROPERTIES SharedIntact
