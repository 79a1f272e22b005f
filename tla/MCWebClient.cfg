CONSTANTS
  RIO_BUFSIZE = 3
  MAXBUF = 4
  REQUEST = 2
  Replies <- ShortReplies

SPECIFICATION FairSpec

INVARIANTS
  TypeOK
  StreamInOrder
  PageFits
  PageIsBody

PROPERTIES
  LinesSpec
  ReplyEnds

\* fetch returns, and a peer may keep the connection open.
CHECK_DEADLOCK FALSE
