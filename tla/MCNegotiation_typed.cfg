CONSTANTS
    Nets = {1, 2}
    Counters = {3}
    Policies <- MCPolicies
    FirstPolicy <- MCFirst
    Products <- MCClosable
    MaxPolicies = 2
    MaxFacts = 1
    Typed = TRUE
SPECIFICATION Spec
INVARIANTS TypeOK OneOpenOffer WaitingIsOnApproval VersionNamesOffer
PROPERTIES DecisionsStand AgreedIsAuthorized
