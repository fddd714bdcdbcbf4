CONSTANTS
  Ann = Ann
  Ben = Ben
  h1 = h1
  h2 = h2
  Handlers = {h1, h2}
  Askers = {Ann}
  Operations = {"love", "open"}
  Blockers = {Ben}
  MayFail = TRUE
SPECIFICATION FairSpec
PROPERTIES BlockEventuallyHides ExpiresCleanly
