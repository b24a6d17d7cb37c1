SPECIFICATION HierarchySpec
CONSTANT MaxEntities = 5
INVARIANTS
    WellLinked
    EveryEntityDrawn
PROPERTY ForestPromise
