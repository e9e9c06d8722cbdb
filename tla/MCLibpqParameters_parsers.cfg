SPECIFICATION ParserSpec
CONSTANTS
    Urls <- MCUrls
    Files <- MCFiles
    DefaultUser = "os"
INVARIANTS
    UrlMeansWhatItSays
    ListedLineIsLibpqs
CHECK_DEADLOCK FALSE
