CONSTANTS
  MaxOrder <- MCMaxOrder
  Points <- MCPoints
  Elems <- MCElems
SPECIFICATION Spec
INVARIANT CloughSlopeShapesNonzero
