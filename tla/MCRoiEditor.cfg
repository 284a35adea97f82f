CONSTANTS
    Width = 3
    Height = 2
    MinSide = 2
    TooSmall = TooSmall
    None = None
    NChannels = 2
    Indices = {1, 2}
    Mappings <- MCMappings
    LargeInPreview <- MCLargeInPreview
    FirstCamera <- MCFirstCamera
    MaxEdits = 2
SPECIFICATION EditorSpec
INVARIANTS
    EditorTypeOK
PROPERTIES
    RoiFollowsCamera
    DragKeepsItsRow
    SavesEnd
