SPECIFICATION IdentitySafety
CONSTANTS
  alice = alice
  bob = bob
  c1 = c1
  c2 = c2
  People = {alice, bob}
  Callers = {c1, c2}
  NoAccount = NoAccount
  Typed = {"word", "padded"}
  MaxVersion = 1
INVARIANTS RegisteredCanLogIn
CHECK_DEADLOCK FALSE
