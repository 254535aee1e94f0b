CONSTANTS
    Preferences <- MCPreferences
    Offers <- MCOffers
    MaxAttempts = 2
    MaxSkip = 1
SPECIFICATION FairSpec
INVARIANTS AuthOverTLS FeaturesAreCurrent BestMechanism ReadyIsBound
PROPERTIES ConnectReturns
CHECK_DEADLOCK FALSE
