SPECIFICATION CallsSpec
CONSTANTS
  Top = 3
  Ports <- MCPorts
INVARIANTS TypeOK ReturnsNest
PROPERTIES ImplementsReturnStack CarryIsExact
