SPECIFICATION Spec
CONSTANTS
    a = a
    b = b
    n = n
    mp3 = mp3
    r1 = r1
    r2 = r2
    Slugs = {a, b}
    Exts = {mp3}
    DropNames = {n}
    Expiries = {"never", "later", "past"}
    Never = "never"
    Past = {"past"}
    MaxPuts = 1
    MaxFaults = 1
    BatchSize = 2
    Reqs = {r1, r2}
    Ops = {"upload", "replace", "delete", "rotate"}
    Offered = {"never"}
    Listeners = {}
    MaxPlays = 0
    MaxCrashes = 1
    NoRow = NoRow
    NoMsg = NoMsg
    NoSlug = NoSlug
    NoReq = NoReq
    NoFile = NoFile
    Silent = Silent
SYMMETRY Symmetry
INVARIANTS
    SafetyInv
    NoOrphans
PROPERTIES
    RetiredSlugsStayDead
    ImplementsShareLinks
