SPECIFICATION KernelSpec
CONSTANTS
    KEYBOARD_BUFFER_SIZE = 3
    NoChar = "none"
    Scancodes <- MCScancodes
    VGA_WIDTH = 3
    VGA_HEIGHT = 2
    MAX_COMMAND_LENGTH = 4
    Printable = {"c", "e", "o", "h", " ", "$", "f", "n", "x", "y", "H"}
    Keys = {"c", "e", "o", "h", " "}
    Prompt <- MCPrompt
    Clear <- MCClear
    Halt <- MCHalt
    Echo <- MCEcho
    NotFound <- MCNotFound
    Output <- MCOutput
    MAX_PIPES = 2
    PIPE_BUFFER_SIZE = 2
    Processes = {"p", "q"}
    Sizes = {0, 1, 2, 3}
    WORD = 2097152
    MaxTasks = 2
    Periods = {0, 1, 2}
    Microseconds = {999, 1000, 2000, 3000}
    MaxTicks = 6
    MaxNesting = 2
\* A system that was halted, and periodic tasks whose delay waits for a tick
\* behind a critical section, do stop.
CHECK_DEADLOCK FALSE
INVARIANTS
    KernelTypeOK
    LineIsShown
    RateKept
PROPERTIES
    KeysInOrder
    EveryKeyHandled
