SPECIFICATION Spec
CONSTANTS
  s1 = s1
  s2 = s2
  i1 = i1
  i2 = i2
  p1 = p1
  Sources = {s1, s2}
  NoSource = NoSource
  Items = {i1, i2}
  NoItem = NoItem
  SourceOf <- MCSourceOf
  NpmItems = {i1}
  Packages = {p1}
  NoPackage = NoPackage
  PackageOf <- MCPackageOf
  Versions = {v1}
  NoVersion = NoVersion
  Specifier = Specifier
  t1 = t1
  t2 = t2
  Tokens = {t1, t2}
  NoToken = NoToken
  r1 = r1
  r2 = r2
  Requests = {r1, r2}
  NoRequest = NoRequest
  Fetchers = {f1}
  OtherMarket = TRUE
  Other = Other
  Nobody = Nobody
  MaxChanges = 1
  MaxObserved = 1
  MaxStarts = 1
SYMMETRY Symmetric
INVARIANTS
    MarketSafety
PROPERTIES
    InstallsAreOffered
    ConfirmedOnce
CHECK_DEADLOCK FALSE
