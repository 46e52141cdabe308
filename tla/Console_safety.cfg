SPECIFICATION FairConsoleSpec
CONSTANTS
    policies = policies
    token = token
    requests = requests
    edit = edit
    deleg = deleg
    heldSecret = heldSecret
    field = field
    Part = {tokens}
    Place = {policies, token, requests}
    Start = policies
    Form = {edit, deleg, heldSecret, field}
    Home <- MCHome
    Kind <- MCKind
    Slot = {s1, s2}
    Nothing = Nothing
    MaxChange = 2
    MaxFault = 1
PROPERTIES
    PollSparesForms
    DataCatchesUp
    PageCatchesUp
