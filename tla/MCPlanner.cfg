SPECIFICATION Spec
CONSTANTS
  Node <- McNode
  Gpu <- McGpu
  NodeOf <- McNodeOf
  Index <- McIndex
  Model <- McModel
  Total <- McTotal
  MaxMb = 24
  RESERVE_MB = 1
  Port <- McPort
  Session <- McSession
  HALF_GB = 1
  SHARE_BONUS = 10
  ALIGN_BONUS = 13
  NoConfig = NoConfig
  TICKS = 5
  MB = 3
  GIGA = 80
  KV_GIGA = 128
  OVERHEAD = 3
  ROOM_FOR_KV = 12
  WORTH = 1
  KV_SIZING_SEQUENCES = 8
  MIN_LEN = 12
  DEFAULT_LEN = 16
  MANAGED <- McManaged
  KNOWN <- McKnown
  Ask <- McAsk
  NoKey = NoKey
  NoRepo = NoRepo
  Catalog <- McCatalog
  Config <- McConfig
  Named <- McNamed
  MAX_REPLICAS = 3
  DEFAULT_SEQS = 16
  Polled <- McPolled
  UsageReading = {0, 8}
  Drainable = {"mixed"}
  MaxRows = 1
INVARIANTS TypeOK OfferedIffSuitable PacksFirst PicksAllowed PreviewAgrees GrantedCanStart EnginesFit
  ManagedFlagsOwned AdviceFitsTheCard
CHECK_DEADLOCK FALSE
