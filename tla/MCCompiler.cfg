\* Sources nested three deep, up to the first error.
CONSTANTS
  Source = {"EOF", "atom", "ident", "(", ")", "{", "}", "[", "]", ",", ".", ";", "=", "-", "==", "or", "const", "var", "return", "for", "while", "if", "else", "fun", "class", "other"}
  MaxDepth = 2
  MaxBodies = 3
  MaxAfter = 1
  MaxLoops = 1
  MaxArgs = 2
  MaxMembers = 2
  Quirks = {}
  Recover = FALSE
SPECIFICATION Spec
INVARIANT TypeOK OperandsSuffice PathsAgree ReturnsOne StatementsBalanced
