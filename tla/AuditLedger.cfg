\* Two requests at once over two mines, whose blocks the global scan interleaves;
\* falsifications, one block lost.
SPECIFICATION BoundedSpec
CONSTANTS
    Mine = {m1, m2}
    Handler = {h1, h2}
    Payload = {p, q}
    Falsified = {q}
    NoEdit = NoEdit
    BlockId = {b1, b2, b3}
    MaxLost = 1
SYMMETRY Symmetry
INVARIANTS TypeOK LinksResolve TamperLocated CertifiedHistoryStands HoleReported VerdictExact
PROPERTIES SealKept KeepsPromise
