SPECIFICATION Spec
CONSTANTS
  Row = {a, b, c, d, e}
  Prob = {0, 1, 2, 3, 4}
  LowFirst = 1
  LowLast = 2
  Gap = 1
  HighLast = 4
  DefaultLow = 2
  DefaultHigh = 3
  CRto = 150
  CFpM = 40
  CFpH = 400
  D = 50
  V = 15
  GammaM = 5
  GammaH = 9
  Rho = 2
  Category = {"Electronics", "Apparel", "Home", "Beauty", "Books"}
  Median <- Medians
  P95 <- Baskets
  NovelPincode = {"PIN_091"}
  CartMin = 150
  CartMax = 20000
  MaxItems = 10
  ZMax = 4
  LengthMin = 10
  LengthMax = 150
  AgeMax = 3000
  TrainOrder <- Training
  Order <- Orders
  Cut <- SomeCuts
SYMMETRY Symmetry
INVARIANTS SearchTypeOK RoutersAgree NeverLoses SearchIsOptimal CrossCheckPasses RoutedAsTrained
