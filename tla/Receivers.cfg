SPECIFICATION Spec
CONSTANTS
    Kinds = {"NXT", "DRS", "HALO", "4G", "Fantom", "HD", "Quantum", "RD"}
    Wanted = {1}
    MaxRequests = 2
    MaxChanges = 1
    MaxReports = 1
INVARIANTS
    OneReceiver
    
    ControlsFollowDevice
PROPERTIES
    CommandsReachTheirRange
    Reconnects
