SPECIFICATION Spec
CONSTANTS
    a = a
    b = b
    mp3 = mp3
    r1 = r1
    Slugs = {a, b}
    Exts = {mp3}
    DropNames = {}
    Expiries = {"never", "later", "past"}
    Never = "never"
    Past = {"past"}
    MaxPuts = 1
    MaxFaults = 0
    BatchSize = 1
    Reqs = {r1}
    Ops = {"upload", "delete"}
    Offered = {"never"}
    Listeners = {}
    MaxPlays = 0
    MaxCrashes = 0
    NoRow = NoRow
    NoMsg = NoMsg
    NoSlug = NoSlug
    NoReq = NoReq
    NoFile = NoFile
    Silent = Silent
PROPERTY GoneObjectIsDropped
