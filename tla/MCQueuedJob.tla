----------------------------- MODULE MCQueuedJob -----------------------------
EXTENDS QueuedJob, TLC

CONSTANTS w1, w2, i1, i2, web, nobody

MCWorkers == {w1, w2}
MCIds     == {i1, i2}

\* Identifiers of their own (RENDER_INSTANCE_ID), or one for the whole service
\* (RENDER_SERVICE_ID).
OwnIds   == w1 :> i1 @@ w2 :> i2
SharedId == w1 :> i1 @@ w2 :> i1

Everywhere == Points \cup {"handler"}

\* A worker does not pause for a whole lease between claiming and reading the job.
PromptLoad == Everywhere \ {"claimed"}

\* Neither does a failure handler wait that long.
Prompt == PromptLoad \ {"handler"}

\* The answer of a failed renewal arrives where the code still looks at it.
Noticed == {"running", "sending", "sent", "delivered", "finally"}
=============================================================================
