CONSTANTS
    Normal <- TheNormal
    Wildcard <- TheWildcard
    Exception <- TheException
    Tlds <- TheTlds
    NonPublic <- TheNonPublic
    HighImpacts = {"rce"}
    PublicDnsIps <- ThePublicDnsIps
    PublicDnsHosts <- ThePublicDnsHosts
    BrandApexes <- TheBrandApexes
    ShortLabels = {"abc", "ms"}
    CveOrder <- TheCveOrder
    None = None
    Day = {0, 1}
    Internal = {"corp"}
    Ips <- TheIps
    Hashes = {"sha"}
    Articles <- TheArticles
    PublisherHosts <- Sources
    Catalogue <- TheCatalogue
    DayLimit <- Limits
    Sample <- TheSample
    Calls <- TheCalls
    ChunkSize = 5
    MaxBatch = 4
    MaxFailed = 1
    Artefacts <- TheArtefacts
    Analysed <- TheAnalysed
    Listed <- TheListed
SPECIFICATION Spec
INVARIANT UnseenIsHeldNowhere
CHECK_DEADLOCK FALSE
