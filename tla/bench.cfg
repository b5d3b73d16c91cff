SPECIFICATION Spec
CONSTANTS
    Names <- TestNames
    HostOf <- TestHostOf
    Specs = {"spec1", "spec2"}
    Fixtures <- TestFixtures
INVARIANTS
    TypeOK
    TestsHold
    PassIsSumOfItsContainers
