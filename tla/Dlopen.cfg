\* Five libraries, two of which need each other.
CONSTANTS
    Libs <- TheLibs
    App = "app"
    None = None
    Needed <- TheNeeded
    Preload <- ThePreload
    Exports <- TheExports
    Refs <- TheRefs
    TlsLibs = {"app", "b"}
    BindNow = {"c"}
SPECIFICATION Spec
INVARIANTS
    LibrariesSound
PROPERTIES
    FailureInvisible
