----------------------------- MODULE MCPipeline -----------------------------
(* The pipeline on a small instance: files of one owner, the first of which
   lies outside every knowledge base. *)
EXTENDS KnowledgePipeline, TLC

MCMixedBase == [f \in Files |-> IF f = 1 THEN NoBase ELSE "kb"]
MCOwner == [f \in Files |-> "owner"]
==============================================================================
