\* Block devices, as /sys/block has them.
CONSTANTS
    NetworkHosts <- NoHosts
    CloudHosts <- NoHosts
    FactsHosts <- NoHosts
    CpuHosts <- NoHosts
    StorageHosts <- NoHosts
    MdOrder <- MCMdOrder
    IdentityHosts <- NoHosts
    VirtHosts <- NoHosts
    HardwareHosts <- NoHosts
    ListingHosts <- NoHosts
    SourceHosts <- BlockHosts
SPECIFICATION Spec
INVARIANT DevicesAreListed
CHECK_DEADLOCK FALSE
