\* JSON of up to four values, digits of base three, integers of two; and
\* documents of every kind with one change, the small ones with two.
SPECIFICATION Spec
CONSTANTS
  Base = 3
  Largest = 5
  Width = 2
  MaxNumberDigits = 2
  MaxInputBytes = 14
  MaxDepth = 1
  MaxStringLength = 2
  MaxArrayElements = 2
  MaxObjectMembers = 2
  MaxTotalNodes = 3
  Texts <- MCTexts
  KeyTexts <- MCKeyTexts
  Numbers <- MCNumbers
  Fillers <- MCFillers
  Parts = 4
  Bytes <- MCBytes
  MaxEdits = 1
  Samples <- MCSamples
  MaxChanges <- MCMaxChanges
  Replacements <- MCReplacements
  Spellings <- MCSpellings
INVARIANTS
  RewritingChangesNothing
  EntitiesAreTheirKeys
  NamesAgreeWithCatalog
  ParserAndEncoderAgree
  ConversionIsExact
CHECK_DEADLOCK FALSE
