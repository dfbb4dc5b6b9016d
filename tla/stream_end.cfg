SPECIFICATION StreamSpec
CONSTANTS
  c1 = c1
  s1 = s1
  Jobs       <- MCJobs
  Inline     <- MCInline
  Payload    <- MCPayload
  Cancellers <- MCCancellers
  Streams    <- MCStreams
  MaxSubmitted = 1
PROPERTY StreamEnds
