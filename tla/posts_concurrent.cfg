SPECIFICATION Spec
CONSTANTS
  Posts = {p1, p2}
  Slugs = {s1, s2}
  Texts = {x1, x2}
  Editors = {e1, e2}
  Readers = {v1}
  NULL = NULL
  MaxTime = 1
  Outcomes = {"ok", "refused", "lostAck"}
  Crashes = TRUE
SYMMETRY Symmetry
INVARIANTS TypeOK RowsHaveObjects DatedIffPublished
