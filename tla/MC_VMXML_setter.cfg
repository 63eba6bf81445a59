CONSTANTS
    a = a
    b = b
    u1 = u1
    u2 = u2
    u3 = u3
    NoValue = NoValue
    None <- NoValue
    Names <- MCNames
    UUIDs <- MCUUIDs
    VcpuValues <- MCVcpuValues
    ModeWords <- MCModeWords
    SerialTypes <- MCSerialTypes
    Ports <- MCPorts
    Paths <- MCPaths
    ToolFaults = FALSE
SPECIFICATION Spec
SYMMETRY Symmetry
PROPERTY SetterKeepsDefinition
