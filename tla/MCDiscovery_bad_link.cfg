SPECIFICATION FairSpec
CONSTANTS
  home = home
  about = about
  product = product
  other = other
  foreign = foreign
  s1 = s1
  s2 = s2
  s3 = s3
  aboutText = aboutText
  loginText = loginText
  NoText = NoText
  Pages = {home, about, product, other, foreign, s1, s2, s3}
  PathOf <- MCPathOf
  OwnPages <- MCOwnPages
  ExcludedFiles = {}
  Overrides <- MCOverrides
  KeywordsOf <- MCKeywords
  Runs = {r1, r2}
  MaxWorkers = 1
  MaxCrashes = 0
  Sites <- MCSites
  InitialStatuses <- MCStatuses
  MaxSitemapFiles = 3
  MaxSitemapDepth = 1
  MaxUrlsPerRun = 12
  LargeSitemap = 2
  SampleSize = 1
  ProductLike = {product}
  NoRun = NoRun
INVARIANT SiteCannotKillRun
CHECK_DEADLOCK FALSE
