SPECIFICATION Spec
CONSTANTS
    Width = 16
    nb_buffer = 40
    max_header_size = 45
    Bits = 6
    Conversations <- MCConversations
CHECK_DEADLOCK FALSE
INVARIANT
    HeadersWhole
