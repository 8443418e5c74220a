CONSTANTS
  MaxOrder <- MCMaxOrder
  Points <- MCPoints
  Elems <- MCElems
SPECIFICATION Spec
INVARIANT HierarchicIsReference
INVARIANT HermiteIsReference
INVARIANT CloughValueShapesAreReference
