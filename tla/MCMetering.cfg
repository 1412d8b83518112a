SPECIFICATION Spec
CONSTANTS
  Scale = 2
  MaxFixed = 4
  Assets = {"usdc", "eurc"}
  Specs <- SomeSpecs
  URLs <- SomeURLs
  Bodies <- SomeBodies
  Responses <- SomeResponses
  Texts <- SomeTexts
  MaxBuffer = 6
  MaxBody = 6
INVARIANT TypeOK
INVARIANT CaptureIsFaithful
INVARIANT ChargedForWhatWasServed
CHECK_DEADLOCK FALSE
