SPECIFICATION FairSpec
CONSTANTS
  Handlers = {h1, h2}
  None = None
  MaxClients = 2
  ChannelSize = 1
  MailboxSize = 1
  SocketSize = 1
  QueueSize = 1
  MaxInstance = 2
  MaxRevision = 2
INVARIANTS
  SlotsCounted
  NoGap
PROPERTIES
  FeedRefined
  Converges
