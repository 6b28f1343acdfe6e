\* slab: see PROJECT.json and README.md
SPECIFICATION Spec
CONSTANTS
    None = None
    Prices = {10, 11}
    MaxOrders = 4
CHECK_DEADLOCK FALSE
INVARIANTS
    LinksAgree
    SlotsAccountedFor
PROPERTIES
    ImplementsQueues
