------------------------- MODULE MCMemSubscriptions -------------------------
\* Three callers: two readers may keep the lock between them, two writers may queue.
EXTENDS MemSubscriptions

CONSTANTS acme, basic, pro

MCTenants == {acme}
MCSubs == {basic, pro}
MCRequests ==
    {[op |-> "set", tenant |-> acme, sub |-> s] : s \in MCSubs}
      \cup {[op |-> o, tenant |-> acme, sub |-> Nil] : o \in {"delete", "subscription"}}
=============================================================================
