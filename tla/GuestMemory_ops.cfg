CONSTANTS
  Thread = {a, b}
  Width <- MCWidth
  Mantissa <- MCMantissa
  Exponent = 4
  Bias = 6
  ByteBits = 1
  Contents <- MCMemory
  Opcodes <- MCOpcodes
  OperandsOf <- MCOperandsOf
  Racing <- MCRacing
SPECIFICATION Spec
INVARIANT OpcodesAsDefined
PROPERTY ImplementsShared
CHECK_DEADLOCK FALSE
