SPECIFICATION AllSpec
CONSTANTS
    Plays <- All
    VLibs = {v1, v2}
    Natives = {v2}
    Assets = {a1}
    PLibs = {p1, p2, v2}
    PMain = p1
    LLibs = {p2, v1, l1}
    Given <- Nothing
    LibCap = 3
    PathRoom = 9
    Profiles <- SomeProfiles
    VersionFiles <- SomeVersions
    Texts <- SomeTexts
    Jsons <- SomeJsons
    Amounts <- SomeAmounts
    Games <- SomeGames
    Builds <- SomeBuilds
    Promotions <- SomePromotions
INVARIANTS RunsPublished LoaderKept InstallWhole FirstVersionWins CommandFits VersionOffered
PROPERTIES GoodKept 
