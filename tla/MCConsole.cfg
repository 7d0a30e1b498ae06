CONSTANTS
    Reader = {r1}
    Writer = {w1}
    fg = r1
    Plain = {a}
    NL = nl
    EOF = eof
    BS = bs
    KILL = kill
    INTR = intr
    ECHO = echo
    NoChar = none
    INPUT_BUF_SIZE = 2
    UART_TX_BUF_SIZE = 1
    UINT = 4
    ReadSize = {1, 3}
    WriteSize = 2
    MaxTyped = 4
    RXSIZE = 1
    FIFOSIZE = 2
SPECIFICATION FairSpec
CHECK_DEADLOCK FALSE
INVARIANTS  ReaderMustWait
PROPERTIES IsTerminal AllServed
