CONSTANTS
  view = view
  depth = depth
  grid = grid
  lines = lines
  final = final
  Handles = {h1, h2, h3, h4, h5, h6}
  Textures = {view, depth}
  ViewTextures = {view}
  Descs = {grid, lines, final}
  Colour <- ColourOf
  Depth <- DepthOf
  Screen = {final}
  Clear <- ClearOf
  Kept = {grid}
  Pointers = {p1, p2}
  ChainLen = 2
  BufferCount = 2
  LifeTime = 1
  KeyDeleteSize = 1
  None = None
SPECIFICATION Spec
SYMMETRY Symmetry
CONSTRAINT NoAlias
INVARIANTS LiveTargets CachesMatch KeptAreCached
PROPERTY KeysFit
