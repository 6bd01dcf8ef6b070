SPECIFICATION Spec
CONSTANTS
    a = a
    b = b
    mp3 = mp3
    r1 = r1
    l1 = l1
    l2 = l2
    Slugs = {a, b}
    Exts = {mp3}
    DropNames = {}
    Expiries = {"never", "later", "past"}
    Never = "never"
    Past = {"past"}
    MaxPuts = 1
    MaxFaults = 0
    BatchSize = 1
    Reqs = {r1}
    Ops = {"upload", "replace", "delete", "rotate", "edit"}
    Offered = {"never", "later", "past"}
    Listeners = {l1, l2}
    MaxPlays = 2
    MaxCrashes = 1
    NoRow = NoRow
    NoMsg = NoMsg
    NoSlug = NoSlug
    NoReq = NoReq
    NoFile = NoFile
    Silent = Silent
SYMMETRY Symmetry
INVARIANT PlaysConserved
PROPERTY ImplementsShareLinks
