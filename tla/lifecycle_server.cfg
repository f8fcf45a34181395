SPECIFICATION Spec
CONSTANTS
  None = None
  Main = Main
  w1 = w1
  w2 = w2
  e1 = e1
  e2 = e2
  k1 = k1
  Worker = {w1, w2}
  Key = {k1}
  Ext = {e1, e2}
  Namings <- MCNamings
  Serializers = {"default", "igbinary", "msgpack", "other"}
  MaxSerializers = 3
  MaxRequests = 2
SYMMETRY WorkerSymmetry
CHECK_DEADLOCK FALSE
INVARIANTS RequestValuesDecoded NoStaleSerializer ConfiguredSerializerUsed
