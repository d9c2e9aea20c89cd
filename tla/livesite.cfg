SPECIFICATION Spec
CONSTANTS
  header = header
  footer = footer
  plain = plain
  None = None
  Plain = plain
  Workers = {w1, w2}
  Names = {header, footer}
  Theme <- OneThemed
  Styles = {plain}
  Widgets = {menu}
  Kinds <- Building
  Cookies <- Nothing
  Exclusive <- Publication
  Fragile <- Changes
  MaxRevisions = 4
INVARIANTS LiveComplete
PROPERTIES SiteSpec
SYMMETRY Processes
CHECK_DEADLOCK FALSE
