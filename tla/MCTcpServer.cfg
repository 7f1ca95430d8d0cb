CONSTANTS
  Conn = {c1, c2, c3}
  Addr = {a1, a2}
  alice = alice
  odd = odd
  User = {alice, odd}
  BadUser = {odd}
  Token = {t1}
  Owner <- HeldByAlice
  None = None
  Preauth = {"begin"}
  Authed = {"logout", "drain"}
  PerAddr <- One
  PerAddrUser <- One
  Global <- Two
  MaxActive = 2
  Window = 2
  MaxSkew = 1
  MaxTime = 2
  MaxFrames = 3
SPECIFICATION Spec
INVARIANTS TypeOK CapHolds WindowLimits LateAtMostOnce
SYMMETRY Symmetry
