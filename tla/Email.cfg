\* One delivery, two threads and the sweeper, which takes one row a time; two
\* crashes, database errors or lost answers may happen anywhere.
SPECIFICATION FairSpec
CONSTANTS
    Mails = {m1}
    Workers = {w1, w2}
    NoMail = NoMail
    MaxAttempts = 2
    BatchSize = 1
    SlowSends = FALSE
    MaxJobs = 2
    MaxMishaps = 2
INVARIANTS OneSender CopiesBounded
PROPERTIES EveryMailSettles
