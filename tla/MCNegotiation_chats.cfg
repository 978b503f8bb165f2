CONSTANTS
    Nets = {2, 3}
    Counters = {}
    Policies <- MCOnePolicy
    FirstPolicy <- MCFirst
    Products <- MCOnSale
    MaxPolicies = 1
    MaxFacts = 2
    Typed = FALSE
SPECIFICATION FairSpec
PROPERTIES AgreementIsKept WaitingEnds StaleOffersFall
