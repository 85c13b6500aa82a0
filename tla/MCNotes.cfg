SPECIFICATION NotesSpec

CONSTANTS
    c1 = c1
    c2 = c2
    c3 = c3
    s1 = s1
    s2 = s2
    NoteCall = {c1, c2, c3}
    Scope = {s1, s2}
    maxInsights = 2

CHECK_DEADLOCK FALSE

INVARIANT
    NotesApart
