SPECIFICATION Spec
CONSTANTS
  Scenes = {"ring", "territory", "crafting", "apprentice", "refining", "wilds", "fields", "reserve", "trails"}
  MaxRadius = 4
  MaxCoordinate = 3
  Width = 8
  Land <- TheLand
  Plans <- ThePlans
  MinDistance = 1
  TotemDistance = 4
  ClaimRadius = 1
  MaxTiles = 9
  NoClaim = 0
  MaxClaims = 3
  Crafters = {anna, bert}
  Apprentices = {bert}
  Workshops = {forge}
  CraftingSlots = 1
  ConcurrentCrafts = 2
  ItemSlots = 2
  CargoSlots = 1
  ActionsRequired = 2
  Powers = {3}
  CraftCounts = {2}
  MaterialsAtFirst = 2
  MaxCrafts = 3
  Gatherers = {anna, bert}
  Ground = {1, 2}
  Kinds <- TheKinds
  Desc <- TheDesc
  NoKind = ""
  Prospecting <- TheTrail
  Strengths = {1, 2}
  MaxTries = 2
  MaxDeposits = 3
  MaxTrails = 2
INVARIANT GridIsExact ClaimsAddUp ClaimsKeepShape CraftsInOrder WildsInOrder
CHECK_DEADLOCK FALSE
