---- MODULE MCScanImage ----
\* What scanimage is asked for: --batch with and without a count, with every
\* second number, with a prompt, with a count of zero, and one picture into a
\* file and to standard output.
EXTENDS ScanImage

Batch(c, inc, ask, sixteen) ==
    [batch |-> TRUE, count |-> c, increment |-> inc, prompt |-> ask,
     named |-> FALSE, swapped |-> sixteen]
Picture(file, sixteen) ==
    [batch |-> FALSE, count |-> Unlimited, increment |-> 1, prompt |-> FALSE,
     named |-> file, swapped |-> sixteen]

SomeJobs ==
    {Batch(Unlimited, 1, FALSE, FALSE), Batch(Unlimited, 1, TRUE, TRUE),
     Batch(2, 2, FALSE, TRUE), Batch(2, 1, TRUE, FALSE), Batch(0, 1, FALSE, TRUE),
     Picture(TRUE, TRUE), Picture(FALSE, TRUE), Picture(TRUE, FALSE)}
====
