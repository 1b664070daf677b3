CONSTANTS
  s1 = s1  s2 = s2
  r1 = r1  r2 = r2  r3 = r3
  h1 = h1  h2 = h2  h3 = h3  h4 = h4
  NoSession = NoSession
  NoResult = NoResult
  Sessions <- MCSessions
  Results <- MCResults
  Holders <- MCHolders

SPECIFICATION Spec

INVARIANT TypeOK
INVARIANT AttachmentConsistent
INVARIANT RefCountMatchesHolders
