SPECIFICATION Spec
CONSTANTS
    Threads = {t1, t2}
    worker = worker
    member = member
    outsider = outsider
    hr = hr
    c1 = c1
    c2 = c2
    c3 = c3
    n1 = n1
    n2 = n2
    Users = {member, outsider}
    GroupsOf <- HrGroups
    Contents = {c1, c2, c3}
    KindOf <- Kind
    TextOf <- Text
    Names = {n1, n2}
    ExtensionOf <- Extension
    Acls <- HrAcls
    Uploads <- MCUploads
    Patches <- MCPatches
    MaxJobs = 2
    MaxInline = 1
    NULL = NULL
INVARIANTS GracefulExit
PROPERTIES ImplementsVersions ImplementsContract NoOvertaking JobsFinish
