SPECIFICATION RingSpec
CONSTANTS
  MEM_LEN = 4
  Elem = {0, 1}
  Zero = 0
  MaxBuf = 5
INVARIANT AccessInBounds
PROPERTY RefinesFifo
