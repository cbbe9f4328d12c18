SPECIFICATION Spec
CONSTANTS
    CharmapLines <- MCCharmap
    NumSets = 4
    AsciiSize = 4
    Implicit = 2
    Jobs <- MCJobs
    Stem <- MCStem
    Named = "(null)"
    CharmapFiles <- MCCharmapFiles
    BrokenFiles <- MCBrokenFiles
    Values <- MCValues
    MaxLine = 12
    MaxName = 3
INVARIANTS PrintedAsMeasured CleanIsComplete TableReadsBack TableIsSorted CharmapIsRead
PROPERTIES MergesOnlyNew ScriptEnds
