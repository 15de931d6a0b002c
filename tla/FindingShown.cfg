SPECIFICATION Spec
CONSTANTS
    Keys = {1, 2, 3}
    NameOf <- MCNameOf
    Evidences = {"quiet", "odd"}
    RankOf <- MCRankOf
    Scans <- MCScans
    Loads = {0, 1}
    Filters <- MCFilters
    Queries <- MCQueries
    Columns = {"finding", "load"}
    Page = 1
INVARIANT FindingShown
