SPECIFICATION LibrarySpec
CONSTANTS
    Assets = {"a", "b", "c"}
    Items <- MCItems
    MaxRenders = 2
    MaxEvents = 2
INVARIANTS PreviewsAccounted CardsShowLiveMedia
CHECK_DEADLOCK FALSE
