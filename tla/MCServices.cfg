SPECIFICATION Spec
CONSTANTS
    r1 = r1
    r2 = r2
    kb = kb
    chat = chat
    d1 = d1
    d2 = d2
    q1 = q1
    q2 = q2
    k1 = k1
    k2 = k2
    k3 = k3
    u1 = u1
    u2 = u2
    ch1 = ch1
    ch2 = ch2
    ch3 = ch3
    ch4 = ch4
    sec = sec
    l1 = l1
    l2 = l2
    t1 = t1
    t2 = t2
    Retrieval = {r1, r2}
    Busy <- MCBusy
    Scope = {kb, chat}
    Conversation = {chat}
    Doc = {d1, d2}
    ScopeOf <- MCScopeOf
    Query = {q1, q2}
    Near <- MCNear
    Cap = 1
    Ttl = 1
    Standalone = {d1}
    MaxVersion = 2
    MaxChanges = 2
    Found = {ch1, ch2, ch3, ch4}
    SectionOf <- MCSectionOf
    Weight <- MCWeight
    Questions <- MCQuestions
    Documents <- MCDocuments
    Call = {k1, k2, k3}
    User = {u1, u2}
    Unknown = {u2}
    MaxWrites = 2
    Loader = {l1, l2}
    Tool = {t1, t2}
    Files <- MCFiles
    Defaults <- MCDefaults
    Timeout = 1
    Batches <- MCBatches
    Header = 1
    MaxRounds = 2
    NoticeCost = 1
SYMMETRY MCLoaders
INVARIANTS
    CacheCurrent
    RankingSound
    ChunksFaithful
    UsersCurrent
    ConfigEffective
CHECK_DEADLOCK FALSE
