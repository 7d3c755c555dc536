SPECIFICATION TreeSpec
CONSTANTS
  MaxLen = 6
  Quantities = {0, 1, 3}
PROPERTY ImplementsArray
