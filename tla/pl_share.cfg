CONSTANTS
    a = a
    b = b
    c = c
    d = d
    e = e
    ra = ra
    rb = rb
    rc = rc
    cc = cc
    bx = bx
    root = root
    cli = cli
    ka = ka
    kb = kb
    ma = ma
    mb = mb
    Dir = {root, cli}
    Root = root
    Stem = {a, b, c, d, e}
    DirOf <- InDir
    Ref = {ra, rb, rc, cc, bx}
    At <- Leads
    Reads <- Parsed
    Module = {ma, mb}
    Slashed = {ma, mb}
    Inside = {}
    Class = {ka, kb}
    Provides <- Linked
    Version = {1, 2}
    Projects <- Described
    Absent = Absent
    None = None
SPECIFICATION Spec
INVARIANTS TypeOK ScanIsBounded  DependencyIsDescribed
