CONSTANTS
  r1 = r1
  r2 = r2
  Nobody = Nobody
  Recordings <- MCRecordings
  Identities = {"service", "user"}
  IoMayFail = TRUE
  PollMayFail = TRUE
SPECIFICATION FairSpec
INVARIANTS OneRecorder StatusHonest
PROPERTIES RecordingReturns
