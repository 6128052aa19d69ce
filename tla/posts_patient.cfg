SPECIFICATION PatientSpec
CONSTANTS
  Posts = {p1, p2}
  Slugs = {s1, s2}
  Texts = {x1, x2}
  Editors = {e1, e2}
  Readers = {v1}
  NULL = NULL
  MaxTime = 2
  Outcomes = {"ok"}
  Crashes = FALSE
SYMMETRY Symmetry
INVARIANTS ObjectsAgree
PROPERTIES PublishedStaysPublished PublishedAtStable
