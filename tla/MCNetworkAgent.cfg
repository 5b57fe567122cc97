\* Two networks, and one event in the starts that need one: the locker offline or online, with a
\* command or a phone, with the scan loop, roaming, and without BLE being offered again.
SPECIFICATION FairSpec
CONSTANTS
    home = home
    other = other
    Net <- TwoNets
    NoNet = NoNet
    Setup = Setup
    Rssi <- MCRssi
    Start <- Starts
    MinSignal <- MCMinSignal
    Hysteresis = 8
    BaseDelay = 30
    MaxDelay = 900
INVARIANTS NetworkTypeOK OneNetworkCommand
PROPERTIES RemoteConnectAnswered OnlineIsNoticed LossIsNoticed BleOffWhenConnected BleOffered
