\* Two workers for two readers and a prompt: every way of blocking one, the other or
\* both, and readers that compete for a channel of two frames.
CONSTANTS
  w1 = w1
  w2 = w2
  r1 = r1
  r2 = r2
  Workers = {w1, w2}
  Readers = {r1, r2}
  Forwarder = Forwarder
  Prompt = Prompt
  Rest = Rest
  Capacity = 2
  Budget = 3
  Nobody = Nobody
SPECIFICATION FairSpec
INVARIANT TypeOK
INVARIANT NoWakeUpIsLost
PROPERTY RunnableIsPolled
PROPERTY SlotIsServed
CHECK_DEADLOCK FALSE
