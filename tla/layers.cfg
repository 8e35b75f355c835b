SPECIFICATION SpecLayers
INVARIANTS LayerReadBack NeighboursAreSpatial CabacReadBack SlicesReadBack GroupsAsDefined UnitsReadBack MotionReadBack
CHECK_DEADLOCK FALSE
