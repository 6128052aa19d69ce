SPECIFICATION LiveContentSpec
CONSTANTS
  NULL = NULL
  Posts = {p1, p2}
  Editors = {e1, e2}
  Filters = {"", "draft", "published"}
  Asked = {NULL, 2, 3}
  DefaultLimit = 1
  MaxLimit = 2
  MaxInt = 7
  Overhead = 1
  Kinds = {"jpeg", "other", "none"}
  Sizes = {0, 2, 3}
  DefaultUploadMax = 3
  Environments <- MCEnvironments
INVARIANTS ContentTypeOK WalkComplete UploadsJudgedRight
PROPERTY ShutdownEnds
