SPECIFICATION MapSpec
CONSTANTS
  Ports = {0, 1}
  Defaults <- DefaultPorts
  TmsPort = 0
  Chips = {1}
  Regs = {0}
  Data = {0, 1}
INVARIANTS
  OneReadDriver
PROPERTIES
  BootKeepsExternal
