SPECIFICATION Spec
CONSTANTS
    Clients = {c1, c2}
    Own = {o1, o2}
    Rest = {r1}
    None = None
    Moves = {}
INVARIANTS TypeOK NoneLeaks ReaperPerOrphan StoredIsNotGutted EachHearsItsOwn
SYMMETRY Symmetry
CHECK_DEADLOCK FALSE
