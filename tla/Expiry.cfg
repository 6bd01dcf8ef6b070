SPECIFICATION Spec
CONSTANTS
    a = a
    mp3 = mp3
    l1 = l1
    Slugs = {a}
    Exts = {mp3}
    DropNames = {}
    Never = Never
    Past <- MCPast
    Expiries <- MCExpiries
    NoRow = NoRow
    Listeners = {l1}
    Silent = Silent
    MaxPlays = 2
    Length = 2
    MaxTasks = 2
    Day = 3
    TTL = 2
    Horizon = 5
    Latest = 9
    Dates = {0, 1}
    Lifetimes = {0, 1}
    MaxLoads = 2
    NoDate = NoDate
    Nowhere = Nowhere
INVARIANT ExpiryEndsAudio
