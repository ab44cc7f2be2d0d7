CONSTANTS
  n1 = n1
  n2 = n2
  Nodes <- TourNodes
  BootNodes <- TourNodes
  Code <- TourProgram
  ENTRY = 0
  WORD_BITS = 16
  INDEX_SHIFT = 8
  PACKET_VA_SHIFT = 12
  BUCKET_ENTRIES = 2
  PAGE_TABLE_NUM = 1
  HostVars = {0}
  TEST_MEM = 0
  TEST_VALUE = 42
  R0ARG <- R0Marker
  BadVa = BadVa
  MONITOR_ALLOC_MAY_FAIL = FALSE
SPECIFICATION Spec
INVARIANT TypeOK NativeFramesMatch NoProcessCrash
PROPERTY AllVmsFinish AbsSpec
