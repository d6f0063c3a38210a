SPECIFICATION Spec
CONSTANTS
  Owners = {"port", "usb", "smartcard"}
  InboundCapacity = 2
  BridgeCapacity = 1
  MaxChunks = 4
  MaxPortEvents = 3
  MaxPortMoves = 1
  MaxPortWrites = 1
  UsbCapacity = 2
  NativeCapacity = 1
  MaxUsbChunks = 3
  MaxUsbOutputs = 3
  MaxUsbMoves = 1
  CardCapacity = 2
  MaxRequestsOfServer = 3
  MaxCardMoves = 1
CHECK_DEADLOCK FALSE
INVARIANTS BytesNotJoined AnswersInOrder
PROPERTIES DeviceWaitsEnd
