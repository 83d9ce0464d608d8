CONSTANTS
    p1 = p1
    p2 = p2
    c1 = c1
    c2 = c2
    NoNode = NoNode
    Producers = {p1, p2}
    Consumers = {c1, c2}
    Usages = {{c1}, {p1}, {p1, c1}}
    Size = 4
    Modulus = 8
    MaxOps = 5
    Start = {0, 6}
SPECIFICATION FairSpec
INVARIANT TypeOK
INVARIANT CountersNeverCross
PROPERTY ImplementsFifo
 
PROPERTY QueueDrains
