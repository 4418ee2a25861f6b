----------------------------- MODULE MCPipeline -----------------------------
(* One verification of two files: of the three workers that replace a Jobs of *)
(* zero two remain, one for each file.                                        *)
EXTENDS Pipeline

NoOne == -1
NoJobs == 0
============================================================================
