SPECIFICATION Spec
CONSTANTS
    a = a
    b = b
    n = n
    mp3 = mp3
    wav = wav
    r1 = r1
    Slugs = {a, b}
    Exts = {mp3, wav}
    DropNames = {n}
    Expiries = {"never", "later", "past"}
    Never = "never"
    Past = {"past"}
    MaxPuts = 2
    MaxFaults = 0
    BatchSize = 2
    Reqs = {r1}
    Ops = {"upload", "replace"}
    Offered = {"never"}
    Listeners = {}
    MaxPlays = 0
    MaxCrashes = 0
    NoRow = NoRow
    NoMsg = NoMsg
    NoSlug = NoSlug
    NoReq = NoReq
    NoFile = NoFile
    Silent = Silent
SYMMETRY Symmetry
INVARIANTS
    UniqueKeys
    ReadyPlayable
    IngestInv
