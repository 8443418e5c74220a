CONSTANTS
  ShapeTypes <- MCShapeTypes
  ShapeOrders = {1, 2, 3, 4, 5, 6}
  DofTypes <- MCDofTypes
  DofOrders = {1, 2, 3, 4}
SPECIFICATION Spec
INVARIANT EdgeTracesAreCanonical
INVARIANT PartitionOfUnity
INVARIANT DerivativesDifferentiateShapes
INVARIANT NodeDofsAddUp
