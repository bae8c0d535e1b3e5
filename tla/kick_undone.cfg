SPECIFICATION FairSpec
CONSTANTS
    o1 = o1
    o2 = o2
    o3 = o3
    i1 = i1
    User = {1, 2, 3}
    Name = {o1, o2, o3}
    Own <- MCOwn
    None = None
    Ip = {i1}
    IpOf <- MCIpOf
    MaxUsers = 2
    Banned <- MCBanned
    Verify = {TRUE, FALSE}
    MaxFrames = 1
    MaxAdmin = 1
PROPERTIES KickedGoes
CHECK_DEADLOCK FALSE
