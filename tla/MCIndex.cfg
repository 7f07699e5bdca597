SPECIFICATION IndexSpec
CONSTANTS
  Ids = {1, 2}
  Texts <- SomeTexts
INVARIANT SearchAndMatchesAll
