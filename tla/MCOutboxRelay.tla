---------------------------- MODULE MCOutboxRelay ----------------------------
EXTENDS OutboxRelay
CONSTANTS r1, r2, mail, audit
MCRelays    == {r1, r2}
MCListeners == {mail, audit}
MCEvents    == 1..2
MCStream    == <<1, 1>>
MCKinds     == <<{"good"}, {"refused", "malformed"}>>
==============================================================================
