\* Three connections, one of them rude: enough for a command behind another,
\* for a peer that never answers and for every window of stop().
SPECIFICATION Spec
CONSTANTS
    Clients = {c1, c2, c3}
    Rude = {c2}
    None = None
    Wake = Wake
CHECK_DEADLOCK FALSE
INVARIANT WaiterHasCommand
INVARIANT OwnReply
PROPERTY ChannelSpec
PROPERTY Answered
PROPERTY StopReturns
