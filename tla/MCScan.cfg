\* Every kind of change, three of them, in any order with scans of the three
\* kinds.
SPECIFICATION Spec
CONSTANTS
    a = a
    b = b
    mcp = mcp
    text = text
    tools = tools
    File = {a, b}
    Server = {mcp}
    Content = {"plain", "moved", "bare"}
    Body <- MCBody
    Front <- MCFront
    Sidecar = {"none", "note"}
    NoSidecar = "none"
    Extractor = {text, tools}
    Setting = {"off", "on"}
    Lens = {"x", "y"}
    Lenses <- MCLenses
    Emits <- MCEmits
    FirstDisks <- MCFirstDisks
    FirstLens = "x"
    FirstSetting = "on"
    Change = {"write", "remove", "sidecar", "setting", "install", "uninstall", "lens"}
    MaxChanges = 3
INVARIANTS
    NoPhantomLinks
    UnmixedIsComplete
    ServersAreNamed
PROPERTIES
    BatchEqualsWalk
    SettledIsFixpoint
