CONSTANTS
  MaxHw = 7
  MaxPin = 6
SPECIFICATION FairSpec
INVARIANTS NoneLeft ServicesOutliveSims SplitFits
PROPERTY ShutsDown
