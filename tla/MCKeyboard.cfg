\* A two-scancode buffer (one keypress is a make and a release code), a
\* flush of two trials so that it can stop with scancodes left, and four
\* scancodes typed at any time around keyboard_init.
CONSTANTS
    BUF_SIZE = 2
    FLUSH_TRIALS = 2
    MAX_KEYS = 4
SPECIFICATION FairSpec
\* Once every scancode is read, the system idles.
CHECK_DEADLOCK FALSE
INVARIANT TypeOK
PROPERTY KeysEventuallyRead
