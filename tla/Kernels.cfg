SPECIFICATION TaskSpec
CONSTANTS W = 3
 H = 3
 Full = 2
 MinEdgeCells = 2
 Straight = 5
 Diagonal = 7
 Far = 1000
 SeedFactor = 3
 GrowTimes = 3
 GrowOver = 2
 CompactArea = 2
 CompactDim = 1
 ThinRatio = 1
 MaskCostFactor = 5
 DetailBeta = 4
 DpMinLong = 3
 Uncuttable = 1000000
 FeatherSteps = 10
 FloorSteps = 1
 FillLocalLayers = 1
 AnchorMad = 2
 RampCells = 1
 WideCells = 2
 HaloCells = 4
 ClipTimes = 3
 ClipOver = 2
 FitRounds = 3
 ClipRounds = 2
 BgMad = 3
 RidgeOver = 2
 BackgroundTimes = 1
 BackgroundOver = 5
 Strip = 6
 FeatherBlocks = 3
 SupportOver = 100
 Block = 2
 BandRows = 2
 Unit = 8
 MaxPixels = 20
 ShadowTimes = 4
 ShadowOver = 1
 TargetOver = 4
 Tasks <- MCTasks
INVARIANTS GraphIsShared StarsAreWhole SeamIsCheapest OwnersHavePixels PreviewShowsTheImage RampsFollowOwners FlatBaseStaysFlat LevelsComeTogether FlattenTakesThePlane ScanIsThePanel
CHECK_DEADLOCK FALSE
