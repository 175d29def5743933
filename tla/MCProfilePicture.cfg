SPECIFICATION Spec
CONSTANTS
  Pictures = {cat, dog}
  Initials = Initials
  None = None
  Torn = Torn
  Jobs = {j1, j2}
  MaxLoads = 1
SYMMETRY PictureSymmetry
INVARIANTS
  LonePictureLands
  ButtonFollowsFile
  ScreenKeepsPicture
