SPECIFICATION Spec
CONSTANTS W = 4
 H = 3
 Full = 2
 MinEdgeCells = 2
 Straight = 5
 Diagonal = 7
 Far = 1000
 SeedFactor = 3
 GrowTimes = 3
 GrowOver = 2
 CompactArea = 2
 CompactDim = 1
 ThinRatio = 1
 MaskCostFactor = 100
 DetailBeta = 4
 DpMinLong = 3
 Uncuttable = 1000000
 FeatherSteps = 10
 FloorSteps = 1
 FillLocalLayers = 0
 AnchorMad = 2
 RampCells = 1
 WideCells = 2
 HaloCells = 4
 White = 10
 DefectVetoFactor = 2
 Blends <- MCBlends
INVARIANTS SinksHoldTheCrop StaysBetween
CHECK_DEADLOCK FALSE
