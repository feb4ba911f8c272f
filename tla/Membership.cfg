SPECIFICATION Spec
CONSTANTS
  Accounts = {ann, bob}
  Txs = {t1, t2}
  Ops = {"remove", "change", "invite", "uninvite", "issue", "rotate", "revoke", "rename", "state", "acknowledge", "members", "invitations", "credentials", "accept", "select", "unbind", "profile"}
  Asked = {"viewer", "member", "owner"}
  Keys = {k}
  Words = {w1, w2, w3}
  w1 = w1
  w2 = w2
  noted = noted
  Details <- MCDetails
  None = None
SYMMETRY Symmetry
ACTION_CONSTRAINT Within
INVARIANTS AnOwnerRemains CredentialsFollowTheRole NoInvitationIsLeftOver TheTrailTellsTheWorkspace
PROPERTIES AuthorityIsCurrent
