-------------------------- MODULE MC_LivePipeline --------------------------
EXTENDS LivePipeline, TLC

\* PayloadChanBufferSize scaled down: 20000 payloads become one, so the
\* subscriber meets a full channel as soon as a worker is slow.
MCCapacity == 1
=============================================================================
