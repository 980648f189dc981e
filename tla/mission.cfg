\* Two GCS handlers, two airdrops and two laps, every operation; symmetry is not sound for
\* liveness.
CONSTANTS
    h1 = h1
    h2 = h2
    Handlers <- MCHandlers
    NumAirdrops = 2
    Laps = 2
    Operations <- AllOperations
    Postings <- AllPostings
SPECIFICATION FairSpec
INVARIANTS
    FlightTicksHaveMav
    TakeoffFliesApprovedPath
    LapsAccounted
    AirdropOrder
    SearchPicturesAreTaken
    MappingWaitsForLanding
PROPERTIES
    ImplementsPlan
    
    MatchIsActedOn
    DeliveryCompletes
