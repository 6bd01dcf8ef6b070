SPECIFICATION FairSpec
CONSTANTS
    a = a
    b = b
    n = n
    mp3 = mp3
    r1 = r1
    Slugs = {a, b}
    Exts = {mp3}
    DropNames = {n}
    Expiries = {"never", "later", "past"}
    Never = "never"
    Past = {"past"}
    MaxPuts = 2
    MaxFaults = 1
    BatchSize = 1
    Reqs = {r1}
    Ops = {"upload", "delete"}
    Offered = {"never"}
    Listeners = {}
    MaxPlays = 0
    MaxCrashes = 1
    NoRow = NoRow
    NoMsg = NoMsg
    NoSlug = NoSlug
    NoReq = NoReq
    NoFile = NoFile
    Silent = Silent
PROPERTIES
    EventuallyReady
    EventuallyDiscovered
