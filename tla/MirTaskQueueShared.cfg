\* w1 and w2 push, w2 and w3 may pop: a policy queue when both do, a private
\* queue when one of them is its owner.
CONSTANTS
    Pushers = {w1, w2}
    Poppers = {w2, w3}
    Tasks = {t1, t2, t3}
    Capacity = 2
    NULL = NULL
    NoWorker = NoWorker
SPECIFICATION Spec
INVARIANTS TypeOK PopFindsTask TaskInOnePlace SoleConsumerFindsTask
PROPERTIES ImplementsQueue
