SPECIFICATION WSpec
CONSTANTS
    o1 = o1
    o2 = o2
    admin = admin
    user = user
    secret = secret
    net = net
    None = None
    Slots = {o1, o2}
    Users = {admin, user}
    Root = admin
    Passwords = {secret, Default}
    Default = Default
    Networks = {net}
    FirstUsers <- MCFirst
    MaxRequests = 4
    MaxFaults = 0
CHECK_DEADLOCK FALSE
INVARIANT HiddenIsNotListed
