CONSTANTS
    Printable = {a, b}
    Nul = Nul
    NoCommand = NoCommand
    LineSize = 5
SPECIFICATION Spec
INVARIANT LineIsSolid
PROPERTY ReadsLines
