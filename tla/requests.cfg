\* One address, one goroutine, a window of two ticks,
\* parameters from -8 to 7, a list of up to five rows.
SPECIFICATION Spec
CONSTANTS
    ip1 = ip1
    None = None
    NoNumber = NoNumber
    Error = Error
    Addresses = {ip1}
    q1 = q1
    Requests = {q1}
    Rate = 2
    Window = 2
    Half = 8
    DefaultSize = 2
    MaxSize = 4
    FallbackSize = 3
    Numbers <- MCNumbers
    MaxRows = 5
INVARIANTS
    TypeOK
    WindowBounded
    PageExact
    PagesComplete
