SPECIFICATION Spec
CONSTANTS
    NoText = none
    Texts = {none, a, b}
    Addresses = {0, 1}
    Ports = {0, 1, 2}
INVARIANTS
    RemotesTypeOK
    ItemsAreRemotes
    AddressesAreRead
CHECK_DEADLOCK FALSE
