SPECIFICATION Spec
CONSTANTS
  Null = Null
  Junk = Junk
  Corrupted = Corrupted
  AllocMayFail = TRUE
  Modulus = 16
  Missing = Missing
  NotArray = NotArray
  Addresses = {"a", "b"}
  Ids = {"x", "y"}
  Colors = {"red"}
  Zero = "zero"
  Mantissa = 3
  Replies <- MCReplies
  Nonsense = Nonsense
  Empty = Empty
  Torn <- MCTorn
  Required = {1, 6, 11}
  MaxEdits = 2
INVARIANTS ApiTypeOK UrlWhole CrashNeedsOom NoLeak IdMeansApplied SyncedIsReported ReplyTaken NothingInvented KeysUnique SumsAgree RequiredSound
PROPERTIES CallReturns
CHECK_DEADLOCK FALSE
