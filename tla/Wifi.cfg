SPECIFICATION Spec
CONSTANT QueueSize = 3
INVARIANTS TypeOK AddressesThereUnlessLost
PROPERTY GetsPastTheWait
