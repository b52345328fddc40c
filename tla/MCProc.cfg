CONSTANTS
  a = a
  b = b
  None = None
  Scenes = {"links", "spawns", "mail", "kill", "table", "mask", "fd", "fdMail", "fdKill", "futAll",
            "futAny", "futTimeout", "futThen", "futMap", "dispatch", "pool", "supRest",
            "svrSlot", "svrMail", "fiberRuns", "cfgBind", "cfgNest", "cfgFile"}
SPECIFICATION FairSpec
INVARIANTS
  PeersHeardOnce
  MailKept
  NobodyStranded
  Identity
  RefsExact
  NothingLeft
  Answered

  
CHECK_DEADLOCK FALSE
