\* What is compiled after an error, too.
CONSTANTS
  Source = {"EOF", "atom", "ident", "(", ")", "{", "}", ",", ";", "=", "var", "return", "for", "if", "else", "fun", "class"}
  MaxDepth = 2
  MaxBodies = 1
  MaxAfter = 1
  MaxLoops = 1
  MaxArgs = 1
  MaxMembers = 1
  Quirks = {}
  Recover = TRUE
SPECIFICATION Spec
PROPERTY EndsOutsideBraces
