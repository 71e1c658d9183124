SPECIFICATION FairSpec
CONSTANTS
    home = home
    away = away
    Nets = {home, away}
    NoNet = NoNet
    Asked = 21
    Granted = {0, 1, 4, 21}
    Retry = 3
    Poll = 3
    Margin = 2
    Delay = 1
    MaxFaults = 3
INVARIANTS
    TypeOK
    AdvertisedIsMapped
    StaysMapped
PROPERTIES
    MappingArrives
