SPECIFICATION Spec
CONSTANTS
  Accounts = {ann, bob}
  Txs = {t1, t2}
  Ops = {"remove", "members"}
  Asked = {"viewer"}
  Keys = {}
  Words = {w1}
  w1 = w1
  w2 = w2
  noted = noted
  Details <- MCDetails
  None = None
SYMMETRY Symmetry
INVARIANT NobodyWaitsInACircle
