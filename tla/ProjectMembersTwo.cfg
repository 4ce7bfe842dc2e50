SPECIFICATION Spec
CONSTANTS
    m1 = m1
    m2 = m2
    m3 = m3
    s1 = s1
    s2 = s2
    None = None
    Members = {m1, m2, m3}
    Sessions = {s1,s2}
INVARIANTS
    HasAdmin
