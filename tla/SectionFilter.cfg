SPECIFICATION Spec
CONSTANTS
  NScn = 6
  Removable = {3, 4}
  Handled = {2, 3, 4, 5}
  relocScn = 1
  dynScn = 2
  bssScn = 5
  shstrndx = 6
  symScns = {1, 5}
  Word = 32
  Half = 16
INVARIANTS TypeOK FilterExact LinksPreserved HeaderExact HandlersFollow
