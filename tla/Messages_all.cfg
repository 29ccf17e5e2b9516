SPECIFICATION Spec
CONSTANTS
    c1 = c1
    c2 = c2
    g1 = g1
    Users = {a, b}
    Managers = {a, b}
    Patient = {a}
    Channels = {c1, c2}
    Groups = {g1, g2}
    FirstChan <- OneChannel
    Top = Top
    Emojis = {e1}
    Reqs = {q1, q2, q3}
    MaxMsgs = 3
    Ops = {"create", "edit", "react", "deletegroup", "createchannel", "editchannel", "other"}
    Faults = {"abort", "hide", "post", "redis"}
    None = None
SYMMETRY Symmetry
INVARIANTS TypeOK TextsBelong ReactionsOnce NoTextLost BroadcastCarriesText
