SPECIFICATION Spec
CONSTANTS
    a = a
    b = b
    ip1 = ip1
    d1 = d1
    d2 = d2
    Names = {a, b}
    ExplicitNames = {a}
    Containers = {a, b}
    Target <- MCTarget
    ListedName <- MCListedName
    NoName = NoName
    Addresses = {ip1}
    NoAddress = NoAddress
    Domains = {d1, d2}
    SpecLists <- NoLists
    KeyPrefix = KeyPrefix
    Configs <- DaemonsAndPolicies
    MaxMoves = 2
INVARIANTS
    TypeOK
    AtMostOnePassAfterSignal
    EveryNameGetsItsTurn
    ErrorsAreTheLoudRecords
    CleanExitMeansRegistered
    EveryKeyIsServed
    AddressedGetRegistered
    QuietPassBlames
PROPERTIES
    TakesTurns
    WindsDown
