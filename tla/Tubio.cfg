SPECIFICATION PartsSpec
CONSTANTS
    Slots = {s1, s2}
    Users = {u1, u2}
    Reserved = {r}
    Converted = {c}
    Uploaded = {p}
    Video <- MCVideo
    WorkersDie = TRUE
    Owners = {u1, u2}
    Songs = {t1, t2}
    Favourites = "Favourites"
    SurpriseKey = "surprise"
    Names = {"Favourites", "Mix", "surprise"}
CONSTRAINT OneHarmed
CONSTRAINT OneSurprise
CONSTRAINT TwoNamed
CONSTRAINT TwoRecords
CONSTRAINT FewListed
CONSTRAINT KeyNotTaken
SYMMETRY Symmetry
INVARIANT LibrarySound
INVARIANT FilesMatchRecords
INVARIANT NothingLeftBehind
PROPERTY TracksKept
