SPECIFICATION Spec
CONSTANTS
    owner = owner
    peer = peer
    ownerMail = ownerMail
    peerMail = peerMail
    strangerMail = strangerMail
    None = None
    Users = {owner, peer}
    Owner = owner
    Emails = {ownerMail, peerMail, strangerMail}
    MailOf <- MCMailOf
    Exact = {owner, peer}
    DtoRoles = {"VIEWER", "MANAGER", "OWNER"}
    InvitationIds = {i1}
    Requests = {r1, r2}
    MaxJoins = 2
    Aborts = TRUE
CHECK_DEADLOCK FALSE
SYMMETRY Symmetry
VIEW View
INVARIANTS TypeOK OwnerKeepsRole RoleWasGiven PassedOverAreDead
