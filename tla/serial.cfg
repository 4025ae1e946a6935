CONSTANTS
    Weather <- WeatherData
    CarLen = 1
    MaxFrames = 1
    MaxAnswers = 1
    LossAt = {2, 4}
    MaxLost = 1
    MaxSignals = 1
    MaxCalls = 2
    MaxPages = 2
SPECIFICATION Spec
CHECK_DEADLOCK FALSE
INVARIANTS
    
    HandlerFollows
    PageFollowsGear
    RequestsGoOn
