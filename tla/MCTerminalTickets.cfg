SPECIFICATION TicketSpec
CONSTANTS
    t1 = t1
    t2 = t2
    t3 = t3
    c1 = c1
    c2 = c2
    aliceShell = aliceShell
    bobShell = bobShell
    NoInput = NoInput
    Tickets = {t1, t2, t3}
    Connections = {c1, c2}
    Inputs = {aliceShell, bobShell}
    Lifetime = 2
    MaxTime = 4
INVARIANTS
    TicketTypeOK
    TicketsHold
PROPERTIES
    ImplementsOneTimeTicket
