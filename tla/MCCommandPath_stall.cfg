CONSTANTS
    TransactionId = {1, 2, 3}
    Command = {"StartSequence"}
    Args = {"x"}
    Reason = {"None", "Timeout", "ProtocolError", "Busy"}
    MaxPending = 3
    ResultCapacity = 2
    None = None
    EmergencyStop = {ActuatorStop}
    StartSequence = "StartSequence"
    TimeResponse = TimeResponse
    UplinkCap = 1
    TxCap = 1
    SafetyCap = 1
    ResultCap = 1
    EmergencyCap = 1
    Uplinks <- BurstUplinks
    MissionPhase = {"Accepted", "Completed"}
    MaxUplinks = 4
    MaxGnssTimes = 0
SPECIFICATION LiveSpec
PROPERTY StopIsTransmitted
CHECK_DEADLOCK FALSE
