SPECIFICATION Spec
CONSTANTS
    Queries <- MCQueries
    Descriptions = {x, y}
    NoDescription = NoDescription
    Ids = {"7"}
    Capacity = 3
    MaxRegistrations = 3
    MaxTicks = 2
INVARIANTS TypeOK NoOrphanDescription NamesKept
PROPERTIES ImplementsDirectory
