SPECIFICATION MCSpec
INVARIANTS MCAllocationsIntact MCFieldsAsDeclared MCTimeKept MCStreamsInOrder 
PROPERTIES EnumerationEnds
CHECK_DEADLOCK FALSE
CONSTANTS
  NUM_BLOCKS = 5
  NUM_HANDLES = 3
  BLOCK_SIZE = 2
  AllocSizes = {0, 1, 3, 5}
  HID_USAGE_STACK_DEPTH = 2
  HID_MAX_REPORTITEMS = 3
  Usages = {1}
  Attributes = {1}
  BitSizes = {4}
  ReportCounts = {2}
  ReportIDs = {5}
  MaxItems = 6
  MAX_DELAYCTR_COUNT = 3
  Delays = {1, 2, 3}
  MaxElapsed = 6
  TICKS_PER_SECOND = 2
  BYTE = 2
  BYTES = 3
  MaxSeconds = 7
  PipeBank = 2
  StreamLengths = {0, 1, 5}
  USB_STREAM_TIMEOUT_MS = 1
  Digits = 2
  MaxSearches = 5
  HOST_DEVICE_SETTLE_DELAY_MS = 1
  WaitMS = 2
  DefaultSize = 2
  MaxPlugs = 2
  MaxDips = 1
