CONSTANTS
    c1 = c1
    c2 = c2
    c3 = c3
    Callers <- MCCallers
    MaxGen <- MCMaxGen
    MaxLogins <- MCMaxLogins
SPECIFICATION Spec
SYMMETRY MCSymmetry
INVARIANT AtMostOneLogin
