SPECIFICATION Spec
CONSTANTS
    a = a
    mp3 = mp3
    wav = wav
    r1 = r1
    Slugs = {a}
    Exts = {mp3, wav}
    DropNames = {}
    Expiries = {"never", "later", "past"}
    Never = "never"
    Past = {"past"}
    MaxPuts = 2
    MaxFaults = 0
    BatchSize = 1
    Reqs = {r1}
    Ops = {"upload", "replace"}
    Offered = {"never"}
    Listeners = {}
    MaxPlays = 0
    MaxCrashes = 0
    NoRow = NoRow
    NoMsg = NoMsg
    NoSlug = NoSlug
    NoReq = NoReq
    NoFile = NoFile
    Silent = Silent
PROPERTY ConfirmedKeyIsCurrent
