SPECIFICATION Spec
CONSTANTS
    numObjs = 3
    Object = {a, b}
    NoObject = NoObject
INVARIANTS TypeOK SidesOwnSlots NoLostSignal
PROPERTIES ImplementsFifo WaitersGoOn
