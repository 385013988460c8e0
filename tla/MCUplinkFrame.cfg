CONSTANTS
    Byte = {0, 1, 2, 3, 4, 5, 6, 7}
    Header = 5
    N = 6
    ArgCount = 1
    DeprecatedCommands = {2, 3}
    TimeSources = {0, 1, 2}
    MaxMilliseconds = 3
    Milliseconds <- OnlyByte
    XorOf <- BitXor
    Decode <- DecodeUplink
    Commands <- UplinkCommand
    Errors <- UplinkDecodeError
    None = None
SPECIFICATION Spec
INVARIANTS
    FrameInv
    OneByteOffIsRefused
PROPERTIES
    FindsFrameAlways
