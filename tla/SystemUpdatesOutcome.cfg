\* Two request threads, two operations, one restart of the web service.
SPECIFICATION Spec
CONSTANTS
    w1 = w1
    w2 = w2
    Web <- MCWeb
    MaxOps = 2
    MaxRestarts = 1
PROPERTY OutcomeIsKept
