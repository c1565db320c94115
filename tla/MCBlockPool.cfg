SPECIFICATION Spec
CONSTANTS
  r1 = r1  r2 = r2  r3 = r3
  h1 = h1  h2 = h2  h3 = h3  k2 = k2
  NoHash = NoHash
  Requests = {r1, r2, r3}
  Hashes = {h1, h2, h3, k2}
  HashOf <- MCHashOf
  NumBlocks = 4
  EnableCaching = TRUE
INVARIANTS BlocksAccounted IndexIsExact CallCompletes EventsSound ChainsHaveNoHoles
