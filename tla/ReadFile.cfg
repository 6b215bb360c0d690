SPECIFICATION FairSpec
CONSTANTS
    Entries <- MCEntries
    Lens <- MCLens
    Places <- MCPlaces
    BufSize = 2
INVARIANTS
    NoUnderflow
    InBounds
    InputConserved
    SoundEntryDelivered
PROPERTY
    ReadsEnd
