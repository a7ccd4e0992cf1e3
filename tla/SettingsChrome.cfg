SPECIFICATION Spec
CONSTANTS
    RegistrySettings = {"hide_task_view_button", "disable_fast_startup"}
    UserUpdateSettings = {"hide_task_view_button"}
    ExplorerSettings = {"hide_task_view_button"}
    StaticPins = {"File Explorer"}
    ForeignPins = {"Game"}
    UnreadableSets = {{}, {"delete_edge_shortcut", "disable_fast_startup"}}
    MaxAsked = 1
INVARIANTS BrokenChromeIsShown
