\* Every caller in the tree uses alloc_page(), i.e. alloc_pages(1).
CONSTANTS
  TotalPages = 5
  ReqSizes = {1}
SPECIFICATION Spec
INVARIANTS
  TypeOK
  BitmapReflectsOwnership
PROPERTIES
  AllocIsCircularFirstFit
