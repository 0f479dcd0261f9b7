SPECIFICATION Spec
CONSTANT QueueSize = 3
INVARIANT AddressesAreThere
