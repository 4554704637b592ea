SPECIFICATION Spec
CONSTANTS
    r = r
    a = a
    b = b
    p = p
    q = q
    x = x
    y = y
    w1 = w1
    w2 = w2
    Nodes <- MCThree
    Root = r
    Names <- MCNames
    Contents = {p}
    Writers <- MCWriters
    None = None
    MaxRev = 3
    MaxResets = 1
PROPERTIES
    PurgeTakesOnlyTrash
