SPECIFICATION MCSpec
CONSTANTS
  a = a
  b = b
  c = c
  d = d
  x = x
  ann = ann
  bob = bob
  Keep = Keep
  Products = {1, 2, 3}
  Codes = {a, b, c, d, x}
  Names = {ann, bob}
  Start <- OldAndNew
  Creations <- SomeCreations
  Bodies <- SomeBodies
  Samples <- SomeCreations
  Handlers = {h1, h2}
  MaxRequests = 1
  MaxMoves = 1
  MaxStock = 1
  CharWidth <- Widths
  Space = " "
  Pdf <- SmallPdf
  Png <- SmallPng
  MaxRows <- SmallMaximum
  Asked = {"low"}
  Pages <- SecondPage
  Documents <- Columns3
SYMMETRY Symmetric
INVARIANTS ExportsKeepTheirBound
