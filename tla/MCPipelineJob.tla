--------------------------- MODULE MCPipelineJob ----------------------------
EXTENDS MCFalconeri, PipelineJob

\* A spec with two tries.
Plain == [parallelism |-> 1, datum_tries |-> 2, pod_failures |-> Unset,
          job_timeout |-> 1000]
=============================================================================
