SPECIFICATION Spec
CONSTANTS
  READ_BUF_MAX_SIZE = 140
  WRITE_BUF_MAX_SIZE = 140
  Digests <- MCDigests
  Messages <- MCMessages
  Replies <- MCReplies
  MaxFrames = 2
  MaxReplies = 2
INVARIANTS FrameAsSent RepliesIntact AcceptKeyFaithful
CHECK_DEADLOCK FALSE
