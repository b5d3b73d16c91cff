SPECIFICATION Spec
CONSTANTS
    a = a
    b = b
    ip1 = ip1
    d1 = d1
    d2 = d2
    Names = {a}
    ExplicitNames = {a}
    Containers = {a}
    Target <- MCTarget
    ListedName <- MCListedName
    NoName = NoName
    Addresses = {ip1}
    NoAddress = NoAddress
    Domains = {d1, d2}
    SpecLists <- OneOrTwo
    KeyPrefix = KeyPrefix
    Configs <- NoExpire
    MaxMoves = 0
INVARIANT
    ValuesAreArrays
