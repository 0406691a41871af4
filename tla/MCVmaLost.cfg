CONSTANTS
  AreaStart = 1
  AreaEnd = 5
  Top = 6
  Lengths = {1, 2, 3}
SPECIFICATION Spec
VIEW ListOnly
PROPERTY MmapMapsRegion
