\* The parameters change in flight, down to their limit of zero, and the link flaps.
SPECIFICATION FairSpec
CONSTANTS
    MaxAlt = 2
    Grounds = {0, 1}
    Limits <- AllLimits
    MaxTimer = 3
PROPERTIES
    DisarmStands
    LandingConfirmedThisTime
    LostLinkLands
