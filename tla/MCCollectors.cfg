\* Every collector that is modelled one by one, on hosts of its own.
CONSTANTS
    NetworkHosts <- MCNetworkHosts
    CloudHosts <- MCCloudHosts
    FactsHosts <- MCFactsHosts
    CpuHosts <- MCCpuHosts
    StorageHosts <- MCStorageHosts
    MdOrder <- MCMdOrder
    IdentityHosts <- MCIdentityHosts
    VirtHosts <- MCVirtHosts
    HardwareHosts <- MCHardwareHosts
    ListingHosts <- MCListingHosts
    SourceHosts <- MCSourceHosts
SPECIFICATION Spec
INVARIANTS
    NetworkIsWhole
    ListingsAreWhole
    DocumentsAreKept
    ViewsKeepFacts
    ResourcesAddUp
    IdentityHolds
    SignalsAddUp
PROPERTY ProbesAreJoined
CHECK_DEADLOCK FALSE
