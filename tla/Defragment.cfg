SPECIFICATION Spec
CONSTANTS
    Files = {1, 2}
    NClusters = 11
    BytesPerCluster = 2
    Default = 30
    Partial = 3
    DefaultSetting = 30
    UserSetting = 5
    Scenarios <- Regular
PROPERTIES
    PassesExhaust
    JoiningHelps
    Terminates
