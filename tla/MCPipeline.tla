----------------------------- MODULE MCPipeline -----------------------------
EXTENDS PipelineStages
=============================================================================
