\* An airdrop is flown to a target nobody matched, without runpipeline and with full postings.
CONSTANTS
    h1 = h1
    h2 = h2
    Handlers = {h1}
    NumAirdrops = 2
    Laps = 1
    Operations <- MissionOperations
    Postings <- FullPostings
SPECIFICATION Spec
INVARIANT
    AirdropTargetsMatched
