\* Three connections.
CONSTANTS
    c1 = c1
    c2 = c2
    c3 = c3
    Listener = Listener
    Conns = {c1, c2, c3}
    IoErrors = TRUE
SPECIFICATION FairSpec
CHECK_DEADLOCK FALSE
INVARIANTS
    TypeOK
    MailIsSignalled
    ConnectionsAreTracked
    ReceiversAreThere
PROPERTIES
    UsesRegistryProperly
    ConnectionsAreServed
