SPECIFICATION GuiSpec
CONSTANTS
    MAX_WINDOWS = 2
    MAX_TASKBAR_ITEMS = 2
    BORDER_WIDTH = 2
    TITLE_BAR_HEIGHT = 24
    TASKBAR_Y = 728
    MaxIds = 3
    EDITOR_ROWS = 3
    MAX_LINE_LENGTH = 4
    EditorChars = {"a", "b"}
    EditorWelcome <- MCEditorWelcome
    WelcomeCursor = 1
    Sample <- MCSample
    SavedNote <- MCSavedNote
    TERM_ROWS = 3
    TERM_COLS = 4
    Printable = {"h", "c", "e", "q", "w", "$", "n", "f", "x", "y"}
    Blank = "_"
    TerminalChars = {"h", "c", "e", "q"}
    TerminalWelcome <- MCTerminalWelcome
    Prompt <- MCPrompt
    Commands <- MCCommands
    ClearCommand <- MCClearCommand
    ExitCommand <- MCExitCommand
    EchoCommand <- MCEchoCommand
    NotFound <- MCNotFound
    Managers = {1, 2}
    PAGE = 3
    PathMax = 3
    Parent = ".."
    Directories <- MCDirectories
    Files <- MCFiles
    Settings = {"audio.master_volume", "appearance.wallpaper", "input.mouse_sensitivity"}
    Ints = {0, 100}
    Strings = {"a"}
    BlankEntry = BlankEntry
    MAX_SETTINGS_PER_CATEGORY = 50
    PanelPoints <- MCPanelPoints
    PackagePoints <- MCPackagePoints
    SelectorPoints <- MCSelectorPoints
    WORD = 65536
    MAX_TABS = 3
    MAX_HISTORY = 2
    MAX_URL_LENGTH = 2
    BrowserChars = {"h", "g"}
    HomePage <- MCHomePage
    wallpaper_count = 12
    Points <- MCPoints
    AppRect <- MCAppRect
    Limit <- MCLimit
    MoveTo <- MCMoveTo
    Sizes <- MCSizes
CONSTRAINT Bound
\* An editor whose line ran over, a file manager whose path did, and a
\* terminal that was left do stop.
CHECK_DEADLOCK FALSE
INVARIANT DrawsFit
