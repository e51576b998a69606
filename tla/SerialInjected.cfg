\* Not interactive: the Ctrl-D of __WFI races with the main thread.
SPECIFICATION Spec
CONSTANTS
    Size = 4
    Typed <- Keys
    Printed <- Text
    MaxRead = 1
    Setups <- Inline
INVARIANT CtrlDKept
