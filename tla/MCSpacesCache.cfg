SPECIFICATION Spec
CONSTANTS
  size_sp = 3
  Gdim <- Gdims
  default_gdim <- Default
  hash_version = "auto"
  Version <- Versions
  HashOf <- Hashes
  OwnersOf <- Indexed
  CountOf <- Counted
  BoxesOf <- Requested
  Var = {v}
  Handler = {h1, h2}
  CopyDomain <- CopyDomains
  MaxPieces = 2
INVARIANT HashFindsOwners
CHECK_DEADLOCK FALSE
