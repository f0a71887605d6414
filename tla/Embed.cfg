\* Two trainings over three versions of the code.
SPECIFICATION EmbedSpec
CONSTANTS
  e = e
  f = f
  Nothing = Nothing
  Torn = Torn
  EncoderOf <- EncoderOfChecked
  MaxHeads = 2
  CopyOrders <- MetadataFirstOrLast
INVARIANTS
  ServedPairMatches
  MeasuredBeforeServed
