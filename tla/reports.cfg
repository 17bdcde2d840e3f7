SPECIFICATION MCSpec
CONSTANTS
    Projects = {1, 2}
    Ids = {1, 2}
    Documents <- MCDocuments
    References <- MCReferences
    Asked <- MCAsked
    Names <- MCNames
    MaxWrites = 2
    MaxDay = 146097
INVARIANTS CountsWhatStayed LatestIsLatest BucketsAddUp KeysTellApart DatesFollowCalendar
CHECK_DEADLOCK FALSE
