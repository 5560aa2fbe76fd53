\* a buy order whose price is raised
SPECIFICATION Spec
CONSTANTS
  p1 = p1
  p2 = p2
  p3 = p3
  nobody = nobody
  smith = smith
  farm = farm
  h1 = h1
  r1 = r1
  r2 = r2
  r3 = r3
  n1 = n1
  n2 = n2
  stall = stall
  cart = cart
  m1 = m1
  Scenes = {"market"}
  Players <- Everybody
  Nobody = nobody
  MaxMembers = 3
  MaxSupplies = 5
  Maintenance = 1
  TakeOverBelow <- TakeOverLevels
  SecurityThreshold = 1
  Techs = {smith, farm}
  TechCost = 1
  NoTech = notech
  KitValues = {1, 3}
  SupplyPrice = 1
  PurchaseBelow = 3
  MaxAmount = 2
  MaxOpenings = 1
  RentIds = {h1}
  DepositDays = 1
  MaxDepositDays = 3
  EvictionFee <- EvictionFees
  MaxRate = 2
  MaxTenants = 1
  MaxNotices = 2
  Npcs = {n1, n2}
  Ruins = {r1, r2, r3}
  Distance <- Apart
  Wanted <- Travelers2
  AlwaysOffered <- Rumors
  Sampled <- Relics
  SampleSize = 1
  Stalls = {stall}
  Hawkers <- Owners
  MaxTradeOrders = 2
  Bargains <- TheBargains
  PackRoom <- Room1
  StallRoom <- Room1
  Unlimited = unlimited
  Traders <- Two
  Markets = {m1}
  MaxOrders = 3
  MaxPrice = 3
  Quantities = {1, 2, 7}
  HalfRange = 8
  Room = 1
INVARIANT StoredIsUnsold
CHECK_DEADLOCK FALSE
