SPECIFICATION Spec
CONSTANTS
    DomainNames <- TestNames
    Fqdns <- TestFqdns
    Undotted <- TestUndotted
    Ports <- SomePorts
    BadPort = BadPort
    NoValue = NoValue
    NoPort = NoPort
    NoDomain = NoDomain
    IdOf <- TestIds
    Hosts = {"app-server", "172.17.0.2"}
    Envs <- SmallEnvs
INVARIANTS
    TypeOK
    ParsesAsDocumented
    FailsIffMalformed
    DocumentTellsAll
