SPECIFICATION Spec
CONSTANTS
    Clients = {k1, k2}
    member = member
    outsider = outsider
    hr = hr
    Users = {outsider}
    GroupsOf <- OpenGroups
    Acls <- OpenAcls
    Contents = {c1, c2, c3}
    Names = {n1, n2}
    MaxUploads = 3
    NULL = NULL
SYMMETRY Symmetry
INVARIANTS CurrentIsNewest
PROPERTIES CurrentIsKept
