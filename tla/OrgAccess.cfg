SPECIFICATION Spec
CONSTANTS
    u1 = u1
    u2 = u2
    u3 = u3
    i1 = i1
    s1 = s1
    s2 = s2
    Users = {u1, u2}
    Founder = u1
    Invites = {i1}
    Sessions = {s1, s2}
    i2 = i2
    Offers = {"guest", "owner"}
    Kinds = {"role", "remove", "assign", "regrade", "unassign", "join", "invite", "accept", "deactivate"}
 
 
PROPERTY OwnerRemains
SYMMETRY Alike
