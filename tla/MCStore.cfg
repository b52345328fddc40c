CONSTANTS
  Scenes = {"mgr", "mgrVec", "mgrDetect", "mgrExpire", "slab", "slabSlow",
            "shm", "mctx", "arena", "supRate", "supAll", "supRest", "supPool", "appOwned",
            "appLent", "appExec", "fsm", "reg", "respool", "credit", "saga", "stream",
            "tntMail", "tntExt", "tntIo", "tntStop", "xfork", "xentry", "oscall", "launch", "urFd",
            "urAio", "urShort", "bePoll", "beSelect", "beKq", "bePort", "beAix", "beEpoll",
            "iocp", "iocpAio", "aioF", "simDisk", "simQueue", "tuned", "batched", "tail", "hist"}
SPECIFICATION Spec
INVARIANTS
  
  
  AllOrNone
  
  Supervised
CHECK_DEADLOCK FALSE
