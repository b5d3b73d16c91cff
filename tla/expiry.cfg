SPECIFICATION FairSpec
CONSTANTS
    a = a
    b = b
    ip1 = ip1
    d1 = d1
    d2 = d2
    Names = {a, b}
    ExplicitNames = {}
    Containers = {a, b}
    Target <- MCTarget
    ListedName <- MCListedName
    NoName = NoName
    Addresses = {ip1}
    NoAddress = NoAddress
    Domains = {d1, d2}
    SpecLists <- NoLists
    KeyPrefix = KeyPrefix
    Configs <- Daemons
    MaxMoves = 2
PROPERTIES
    StaleEntriesVanish
    KeepsContract
