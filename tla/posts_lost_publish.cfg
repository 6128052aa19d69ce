SPECIFICATION Spec
CONSTANTS
  Posts = {p1}
  Slugs = {s1}
  Texts = {x1}
  Editors = {e1, e2}
  Readers = {}
  NULL = NULL
  MaxTime = 1
  Outcomes = {"ok"}
  Crashes = FALSE
PROPERTY PublishedStaysPublished
