SPECIFICATION Spec
CONSTANTS
  c1 = c1
  c2 = c2
  Jobs       <- MCJobs
  Inline     <- MCInline
  Payload    <- MCPayload
  Cancellers <- MCCancellers
  MaxSubmitted = 1
SYMMETRY MCSymmetry
INVARIANTS TypeOK SucceededIsAudited CancelledLeavesNothing NoEventBehind
PROPERTIES ShelvedForGood RequestSticks KeepsPromise
