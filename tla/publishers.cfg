SPECIFICATION Spec
CONSTANTS
  header = header
  footer = footer
  plain = plain
  None = None
  Plain = plain
  Workers = {w1, w2}
  Names = {header}
  Theme <- OneThemed
  Styles = {plain}
  Widgets = {menu}
  Kinds <- AllKinds
  Cookies <- AllRevisions
  Exclusive <- Nothing
  Fragile <- AllKinds
  MaxRevisions = 4
INVARIANTS TypeOK OneOfEach
PROPERTIES MovesForward
SYMMETRY Processes
CHECK_DEADLOCK FALSE
