SPECIFICATION Spec
CONSTANTS
  MaxWires = 2
  MaxLines = 2
  MaxSends = 2
  Lines <- MCLines
  Packets <- MCPackets
  Replies <- MCReplies
INVARIANT EndsSound
 
INVARIANT DecodedExact
PROPERTY Quits
PROPERTY Reconnects
CHECK_DEADLOCK FALSE
