-------------------------- MODULE MCTerminalBridge ---------------------------
(* Two inputs of different length, one longer than any frame may be, two    *)
(* window sizes, and text that is no resize.                                *)
EXTENDS TerminalBridge

CONSTANTS small, large

Typed(n) == [kind |-> "input", bytes |-> n]
Resize(s) == [kind |-> "resize", bytes |-> 1, size |-> s]
Junk == [kind |-> "junk", bytes |-> 1]

AllFrames == {Typed(1), Typed(2), Typed(4), Resize(small), Resize(large), Junk}
==============================================================================
