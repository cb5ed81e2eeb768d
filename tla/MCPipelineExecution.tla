------------------------ MODULE MCPipelineExecution ------------------------
(* PipelineExecution on small pipelines, for TLC. *)
EXTENDS PipelineExecution

CONSTANTS
    r1,   \* a coroutine of the daemon
    c1    \* a coroutine of a CLI process
=============================================================================
