SPECIFICATION Spec
CONSTANTS
    None = None
    album = album
    MaxId = 2
    Groups = {album}
    Reported <- AlbumThenText
    MaxContent = 1
    MaxEdited = 1
    Shape <- EditedAlbum
    Handlers = {h1}
    Readers = {r1}
    MaxEdits = 1
    MaxGone = 1
INVARIANTS
    TypeOK
    ParentMatchesParts
    AcknowledgedWindowStored
PROPERTIES
    SourceHistoryKept
