\* Both ways of reading; no more is typed than the ring holds.
SPECIFICATION Spec
CONSTANTS
    Size = 4
    Typed <- Keys
    Printed <- Text
    MaxRead = 2
    Setups <- BothSetups
INVARIANTS TypeOK
PROPERTIES DeliversInOrder EchoHidden OutputShown
