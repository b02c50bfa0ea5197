SPECIFICATION ShowSpec
CONSTANTS
    Level = {info, warn, err}
    Selected = {info, warn}
    TailSize = 2
    MaxRecords = 4
    MaxFiles = 2
PROPERTY ShowsNewest
CHECK_DEADLOCK FALSE
