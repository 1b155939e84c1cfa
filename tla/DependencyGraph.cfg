SPECIFICATION ParserSpec
CONSTANTS
    Tables <- MCTables
    Columns <- MCColumns
    BaseTable = "customers"
    MaxJoins = 3
    Names <- MCNames
    Queries <- MCQueries
    Conditions <- MCConditions
    NoName = NoName
INVARIANTS
    TypeOK
    ParserTypeOK
    SearchInv
    DepthsConsistent
    DepthsAreDistances
    RaisesOnlyWhenUnreachable
    PathIsShortest
    JoinsImplied
    DepthsOfQuery
    IdColumnNamesKey
PROPERTIES
    SearchTerminates
    PathTerminates
    LoopsAdvance
