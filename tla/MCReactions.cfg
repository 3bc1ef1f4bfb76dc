SPECIFICATION Spec
CONSTANTS
    author = author
    viewer = viewer
    story = story
    like = like
    love = love
    i1 = i1
    i2 = i2
    i3 = i3
    r1 = r1
    r2 = r2
    Users <- MCUsers
    Stories <- MCStories
    Author <- MCAuthor
    Types <- MCTypes
    Ids <- MCIds
    Requests <- MCRequests
SYMMETRY Symmetry
INVARIANTS
    IdsAndEventsHaveRecords
PROPERTIES
    OwnReactionOnly
    NoResurrection
    ServiceSpec
CHECK_DEADLOCK FALSE
