SPECIFICATION Spec
CONSTANTS
    Clients = {k1, k2}
    member = member
    outsider = outsider
    hr = hr
    Users = {member, outsider}
    GroupsOf <- HrGroups
    Acls <- HrAcls
    Contents = {c1, c2}
    Names = {n1}
    MaxUploads = 3
    NULL = NULL
PROPERTIES OmittedAclIsInherited
