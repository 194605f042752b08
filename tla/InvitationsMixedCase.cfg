SPECIFICATION Spec
CONSTANTS
    owner = owner
    peer = peer
    ownerMail = ownerMail
    peerMail = peerMail
    strangerMail = strangerMail
    None = None
    Users = {owner, peer}
    Owner = owner
    Emails = {peerMail, ownerMail}
    MailOf <- MCMailOf
    Exact = {peer}
    DtoRoles = {"VIEWER", "MANAGER"}
    InvitationIds = {i1, i2}
    Requests = {r1}
    MaxJoins = 2
    Aborts = FALSE
CHECK_DEADLOCK FALSE
SYMMETRY Symmetry
INVARIANTS OwnerKeepsRole
