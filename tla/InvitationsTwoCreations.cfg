SPECIFICATION Spec
CONSTANTS
    owner = owner
    peer = peer
    ownerMail = ownerMail
    peerMail = peerMail
    strangerMail = strangerMail
    None = None
    Users = {owner, peer}
    Owner = owner
    Emails = {ownerMail, peerMail, strangerMail}
    MailOf <- MCMailOf
    Exact = {owner, peer}
    DtoRoles = {"VIEWER", "MANAGER", "OWNER"}
    InvitationIds = {i1, i2}
    Requests = {r1, r2}
    MaxJoins = 2
    Aborts = FALSE
CHECK_DEADLOCK FALSE
SYMMETRY Symmetry
INVARIANTS AtMostOnePending
