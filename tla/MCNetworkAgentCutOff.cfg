\* The locker is online at home, with its scan loop; then home changes once.
SPECIFICATION FairSpec
CONSTANTS
    home = home
    other = other
    Net <- TwoNets
    NoNet = NoNet
    Setup = Setup
    Rssi <- MCRssi
    Start <- AtHome
    MinSignal <- MCMinSignal
    Hysteresis = 8
    BaseDelay = 30
    MaxDelay = 900
PROPERTY NeverCutOff
