SPECIFICATION HotkeysSpec
CONSTANTS
    k1 = k1
    k2 = k2
    k3 = k3
    k4 = k4
    Bindable <- FourKeys
    Escape = Escape
    Held = {"aim"}
    MaxDown = 2
    MaxRecent = 2
SYMMETRY Interchangeable
PROPERTIES KeysAreMeant
CHECK_DEADLOCK FALSE
