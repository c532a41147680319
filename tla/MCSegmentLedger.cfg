SPECIFICATION Spec
CONSTANTS
  Char <- MCChar
  Whitespace <- MCWhitespace
  StablePunct <- MCStablePunct
  PortionPunct <- MCPortionPunct
  Hypotheses <- Growing
  MaxCaptions = 1
  MaxGeneration = 2
  MaxId = 2
  MaxRevision = 3
  MaxRequests = 2
INVARIANTS
  PortionCoversSource
  FinalTranslatesWholeSource
  CommittedHeadsHypothesis
PROPERTIES
  OnlyAgreedTextIsCommitted
  WhatIsOverStays
  CoverageNeverRollsBack
  AppendOnlyGrowthKeepsTranslation
CHECK_DEADLOCK FALSE
