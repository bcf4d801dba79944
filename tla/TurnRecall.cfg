SPECIFICATION Spec
CONSTANTS
  Text <- MCText
  Tags <- MCTags
  Window = 2
  MaxChunkChars = 20
  Oversample = 1
  RecencyWeight = 30
  CanonFloor = 4
  CanonMaxItems = 2
  CanonMaxChars = 25
  CanonTags <- MCCanonTags
  CanonTagsDE <- MCCanonTagsDE
  SliceFloor <- MCSliceFloor
  Alike <- MCAlike
  SemanticDedup = TRUE
  Lower <- MCLower
  Filler <- MCFiller
  HiddenFacts <- MCHiddenFacts
  MinFactTokens = 2
  ParaphrasePercent = 60
  Lore <- MCLore
  Setups <- MCSetups
  Nearness <- MCNearness
  Messages <- MCMessages
  CuratorAnswers <- MCCuratorAnswers
  Speech <- MCSpeech
  Digest = "digest"
  CanonTexts = {"vow", "ask"}
  MaxTurns = 2
  MaxEdits = 2
INVARIANTS TypeOK SliceReachesPrompt NothingShownTwice WindowFilled ShownIsLive Contained
  EventLostOnlyToADuplicate
CHECK_DEADLOCK FALSE
