------------------------------ MODULE MCLedger ------------------------------
EXTENDS LedgerVerify

CONSTANTS
    d1, d2,     \* payloads of ordinary events
    x1,         \* names d1 in an expiry
    a1          \* an anchor destination, and the payload of its event

MCNames == [s \in Subject |-> IF s = x1 THEN d1 ELSE NoSubject]

NoExpiries == {}

\* Expiries of ordinary payloads by an event that names them.
PlainExpiries == {<<d1, x1>>}

=============================================================================
